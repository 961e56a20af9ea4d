-------------------------- MODULE ModeAnnouncement ---------------------------
(***************************************************************************)
(* The MODE messages of a channel against the channel.  An operator sends  *)
(* one MODE line after another; told is the copy of the channel that a     *)
(* member keeps by applying the letters of each message from left to       *)
(* right.  The server applies them grouped by mode and skips those whose   *)
(* argument is missing or unusable; the copy sees only the message.        *)
(***************************************************************************)
EXTENDS ModeCommand, Integers

CONSTANTS Fd,       \* the members of the channel
          Text,     \* the arguments clients send
          Who,      \* findUserByUsername: from Text to a member, another user or NoFd
          NameOf,   \* the user name of a member
          ModeLine  \* the MODE lines operators send

\* Somebody is on the channel, and a member is found by its name.
ASSUME MembersAssumption ==
  /\ IsFiniteSet(Fd) /\ Fd # {} /\ NoFd \notin Fd
  /\ Empty \notin Text
  /\ LimitOf \in [Text -> Nat]
  /\ \A f \in Fd : NameOf[f] \in Text /\ Who[NameOf[f]] = f

VARIABLES channel,    \* the server's channel
          told,       \* a member's copy of it
          unanswered  \* letters of the last line, given an argument if they need one,
                      \* that were neither announced nor answered with an error

vars == <<channel, told, unanswered>>

TypeOK ==
  /\ channel \in ChannelType(Fd, Text) /\ told \in ChannelType(Fd, Text)
  /\ unanswered \in Int

\* A letter as it was typed, which may be no mode.
Letter == ModeItem \cup [sign : {"+", "-"}, mode : {"unknown"}]

ASSUME ModeLineAssumption ==
  ModeLine \subseteq [items : Seq(Letter), args : Seq(Text \cup {Empty})]

\* The letters that are modes; the others are answered with 472.
Parsed(line) == [line EXCEPT !.items = Kept(@, ModeItem)]
Strange(line) == Len(line.items) - Len(Parsed(line).items)

\* The meaning of one letter of a MODE message, for whoever reads it.
Heard(copy, r) ==
  CASE r.mode = "i" -> [copy EXCEPT !.inviteOnly = (r.sign = "+")]
    [] r.mode = "t" -> [copy EXCEPT !.topicLock = (r.sign = "+")]
    [] r.mode = "k" -> [copy EXCEPT !.key = IF r.sign = "+" THEN r.arg ELSE Empty]
    [] r.mode = "l" -> [copy EXCEPT !.limit = IF r.sign = "+" THEN LimitOf[r.arg] ELSE 0]
    [] r.mode = "o" -> [copy EXCEPT !.ops = IF r.sign = "+" THEN @ \cup {Who[r.arg]}
                                                          ELSE @ \ {Who[r.arg]}]

\* The letters of the messages the members get: what took effect, then the
\* server's own +o if somebody had to be promoted.
Letters(reqs, promoted) ==
  Announced(reqs)
  \o IF promoted = NoFd THEN <<>>
     ELSE <<[sign |-> "+", mode |-> "o", arg |-> NameOf[promoted]]>>

\* The letters whose argument was there and empty.
EmptyArgs(line) ==
  {i \in DOMAIN line.items : HasArg(line, i) /\ BoundArg(line, i) = Empty}

\* All members have joined, in some order; the first of them is the operator.
Init ==
  /\ \E order \in SetToSeqs(Fd) :
       channel = [NewChannel EXCEPT !.members = Fd, !.joinOrder = order,
                                    !.ops = {order[1]}]
  /\ told = channel
  /\ unanswered = 0

Mode(typed) ==
  LET line    == Parsed(typed)
      reqs    == Requests(channel, line, Who)
      changed == ApplyModes(channel, reqs, Who)
  IN  /\ channel' = EnsureOperator(changed)
      /\ told' = FoldLeft(Heard, told, Letters(reqs, Promoted(changed)))
      /\ unanswered' = Len(typed.items) - Strange(typed) - Len(Announced(reqs))
                        - Len(Complaints(channel, line, Who)) - Cardinality(EmptyArgs(line))

Next == \E line \in ModeLine : Mode(line)

Spec == Init /\ [][Next]_vars

-----------------------------------------------------------------------------
(***************************************************************************)
(* The copy is the channel: which letters are announced, with which        *)
(* arguments and in which order says exactly what was done, although it    *)
(* was done in another order (ModeCommand.cpp:206-265 and 273-310).        *)
(***************************************************************************)
AnnouncementIsComplete == told = channel

(***************************************************************************)
(* The letters of a line are accounted for: as many as it has are either   *)
(* announced to the channel or answered with an error, however good and    *)
(* bad letters are mixed and run out of arguments.  It is a count, which   *)
(* must come out as zero; what becomes of a single letter is seen in lines *)
(* of one.  Only a letter that was given an empty argument passes without  *)
(* a word (ModeCommand.cpp:151, 183, 220 and 280).                         *)
(***************************************************************************)
LettersAreAnswered == unanswered = 0

(***************************************************************************)
(* No line of letters leaves the channel without an operator or makes one  *)
(* of somebody who is not a member.                                        *)
(***************************************************************************)
ModesKeepChannelSound == Sound(channel)

=============================================================================
