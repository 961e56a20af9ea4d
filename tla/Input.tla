-------------------------------- MODULE Input ---------------------------------
(***************************************************************************)
(* The way of a client's bytes to the dispatcher.  The client writes       *)
(* messages, in one of several layouts, or any bytes at all; recv() cuts   *)
(* the stream wherever it likes; ParserAndDispatcher::processData frames   *)
(* what has come, parses each line and dispatches the payloads in order.   *)
(* When the client is gone the next one on the descriptor starts anew.     *)
(***************************************************************************)
EXTENDS Framer, IrcParser, SequencesExt

CONSTANTS Letter,      \* every other byte
          Command,     \* the words clients use as commands
          Middle,      \* parameters that need no colon
          Trailing,    \* last parameters, written after a colon
          MaxBytes,    \* bound: arbitrary bytes sent on one connection
          MaxComposed, \* bound: bytes of all messages composed on one connection
          NoMeaning    \* of bytes that were not composed

ASSUME InputAssumption ==
  /\ {CR, LF} \cap {Space, Colon} = {}
  /\ {CR, LF, Space, Colon} \cap Letter = {}
  /\ CR # LF /\ Space # Colon
  /\ MaxBytes \in Nat /\ MaxComposed \in Nat

VARIABLES stream,     \* the bytes this client has sent
          meant,      \* the payloads it meant by them
          taken,      \* how many of them recv() has returned
          buffer,     \* _buffers[fd]
          extracted,  \* history: the lines framed for this client
          dispatched  \* the payloads given to the dispatcher for this client

client == <<stream, meant>>
vars   == <<client, taken, buffer, extracted, dispatched>>

Plain == Letter \cup {Space, Colon}
Byte  == Plain \cup {CR, LF}

\* Words as the grammar of IRC has them; a last parameter may hold anything but CR and LF.
ASSUME WordsAssumption ==
  /\ Command # {}
  /\ Command \cup Middle \cup Trailing \subseteq Seq(Plain)
  /\ \A w \in Command \cup Middle :
       w # <<>> /\ w[1] # Colon /\ \A i \in DOMAIN w : w[i] # Space

Init ==
  /\ stream = <<>> /\ meant = <<>>
  /\ taken = 0
  /\ buffer = <<>>
  /\ extracted = <<>> /\ dispatched = <<>>

-----------------------------------------------------------------------------
(* The client.                                                             *)

Spaces(n) == [i \in 1 .. n |-> Space]

Prefix == {<<>>, <<Colon>> \o (CHOOSE c \in Command : TRUE) \o <<Space>>}

\* The words, each after gap spaces, then the last parameter after a colon.
Written(m, gap, colon) ==
  LET Piece(i) == Spaces(gap) \o (IF colon /\ i = Len(m.params) THEN <<Colon>> ELSE <<>>)
                  \o m.params[i]
  IN  m.command \o FlattenSeq([i \in DOMAIN m.params |-> Piece(i)])

\* The client sends one more message; no space may follow a last parameter.
Compose(m, colon) ==
  /\ meant # NoMeaning
  /\ \E lead \in 0 .. 1 : \E prefix \in Prefix : \E gap \in 1 .. 2 : \E tail \in 0 .. 1 :
       LET line == Spaces(lead) \o prefix \o Written(m, gap, colon) \o Spaces(tail)
       IN  /\ colon => tail = 0
           /\ Len(stream) + Len(line) + 2 <= MaxComposed
           /\ stream' = stream \o line \o <<CR, LF>>
  /\ meant' = Append(meant, m)
  /\ UNCHANGED <<taken, buffer, extracted, dispatched>>

Words(n) == [1 .. n -> Middle]

ComposeAny ==
  \E c \in Command : \E n \in 0 .. 2 : \E ps \in Words(n) :
    \/ Compose([command |-> c, params |-> ps], FALSE)
    \/ \E last \in Trailing : Compose([command |-> c, params |-> Append(ps, last)], TRUE)

\* The client sends bytes, or an empty line.
Garble ==
  /\ stream = <<>>
  /\ \E n \in 1 .. MaxBytes : stream' \in [1 .. n -> Byte]
  /\ meant' = NoMeaning
  /\ UNCHANGED <<taken, buffer, extracted, dispatched>>

-----------------------------------------------------------------------------
(* The server.                                                             *)

\* ParserAndDispatcher::processData on the next n bytes.
ProcessData(n) ==
  LET framed == Framed(buffer \o SubSeq(stream, taken + 1, taken + n))
  IN  /\ taken' = taken + n
      /\ buffer' = framed.rest
      /\ extracted' = extracted \o framed.lines
      /\ dispatched' = dispatched \o [i \in DOMAIN framed.lines |-> ParseMessage(framed.lines[i])]
      /\ UNCHANGED client

Receive == \E n \in 1 .. Len(stream) - taken : ProcessData(n)

\* The descriptor is closed; its next client has sent nothing yet.
ClearClient ==
  /\ taken # 0
  /\ stream' = <<>> /\ meant' = <<>> /\ taken' = 0
  /\ buffer' = <<>>
  /\ extracted' = <<>> /\ dispatched' = <<>>

Next == ComposeAny \/ Garble \/ Receive \/ ClearClient

Spec == Init /\ [][Next]_vars

-----------------------------------------------------------------------------
\* The bytes of some lines, each with its end.
Joined(lines) == FlattenSeq([i \in DOMAIN lines |-> lines[i] \o <<CR, LF>>])

(***************************************************************************)
(* However recv() cut the bytes, a CR LF split between two reads included, *)
(* the lines framed with their ends put back, and then the buffer, are     *)
(* exactly what this client sent and recv() returned; none of them hides a *)
(* line end, and each has been dispatched.                                 *)
(***************************************************************************)
FramesWhatWasSent ==
  /\ Joined(extracted) \o buffer = SubSeq(stream, 1, taken)
  /\ LineEnds(buffer, 1) = {}
  /\ \A i \in DOMAIN extracted : LineEnds(extracted[i], 1) = {}
  /\ Len(dispatched) = Len(extracted)

(***************************************************************************)
(* The dispatcher gets the messages a client composed, in their order and  *)
(* as they were meant, each as soon as all of it has been received: with   *)
(* or without a prefix, which one space follows, with single or double     *)
(* spaces between the words, with a last parameter that is empty, begins   *)
(* with a colon or has spaces in it, and whoever used the descriptor       *)
(* before.                                                                 *)
(***************************************************************************)
ReadAsMeant ==
  meant # NoMeaning =>
    /\ IsPrefix(dispatched, meant)
    /\ taken = Len(stream) => dispatched = meant

(***************************************************************************)
(* Whatever the bytes were, the commands never get a word with a space or  *)
(* a line end in it: only the last parameter may have a space, be empty or *)
(* begin with a colon.                                                     *)
(***************************************************************************)
WordsAreWords ==
  LET Has(w, b) == \E i \in DOMAIN w : w[i] = b
      Ends(w)   == LineEnds(w, 1) # {}
      IsWord(w) == w # <<>> /\ w[1] # Colon /\ ~ Has(w, Space) /\ ~ Ends(w)
  IN  \A i \in DOMAIN dispatched :
        LET payload == dispatched[i]
        IN  /\ ~ Has(payload.command, Space) /\ ~ Ends(payload.command)
            /\ \A j \in 1 .. Len(payload.params) - 1 : IsWord(payload.params[j])
            /\ payload.params # <<>> => ~ Ends(Last(payload.params))

=============================================================================
