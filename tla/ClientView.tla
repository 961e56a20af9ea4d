----------------------------- MODULE ClientView ------------------------------
(***************************************************************************)
(* What a client can know of its channels.  A client sees no state of the  *)
(* server, only the messages put in its outbox; view[f][c] is the picture  *)
(* of channel c that the owner of descriptor f has once it has read them   *)
(* all.  It is a history of the messages ChannelCommands sends, in the     *)
(* order they are enqueued, and never influences the server.               *)
(***************************************************************************)
EXTENDS ChannelCommands

VARIABLE view   \* by descriptor and channel, the client's picture

\* A message that is for no channel is of none of the client's.
ASSUME NoChannelAssumption == NoChannel \notin Chan

viewVars == <<connected, nameOf, channels, sent, view>>

Picture ==
  [inside : BOOLEAN, members : SUBSET Name, ops : SUBSET Name,
   topic : Text \cup {Empty},
   strays : BOOLEAN]   \* got a message of a channel it was not in

Outside == [inside |-> FALSE, members |-> {}, ops |-> {}, topic |-> Empty,
            strays |-> FALSE]

ViewTypeOK == TypeOK /\ view \in [Fd -> [Chan -> Picture]]

-----------------------------------------------------------------------------
(* The reading of one message by the client called me.                     *)

\* The operators after the letters of a MODE message.
HearModes(ops, letters) ==
  FoldLeft(LAMBDA known, r : IF r.mode # "o" THEN known
                             ELSE IF r.sign = "+" THEN known \cup {r.arg}
                             ELSE known \ {r.arg}, ops, letters)

\* A message about a channel is a stray for a client that is not inside.
Stray(v, m) == ~ v.inside /\ m.kind \in {"part", "kick", "mode", "topic", "names",
                                         "324", "privmsg"}

Hear(v, m, me) ==
  LET w == [v EXCEPT !.strays = @ \/ Stray(v, m)]
  IN  CASE m.kind = "join" /\ m.who = me ->
             [Outside EXCEPT !.inside = TRUE, !.members = {me}, !.strays = v.strays]
        [] m.kind = "join" /\ m.who # me -> [w EXCEPT !.members = @ \cup {m.who}]
        [] m.kind \in {"part", "kick"} /\ m.who = me ->
             [Outside EXCEPT !.strays = w.strays]
        [] m.kind \in {"part", "kick"} /\ m.who # me ->
             [w EXCEPT !.members = @ \ {m.who}, !.ops = @ \ {m.who}]
        [] m.kind = "names" -> [w EXCEPT !.members = m.body.members, !.ops = m.body.ops]
        [] m.kind = "mode" -> [w EXCEPT !.ops = HearModes(@, m.body)]
        [] m.kind = "topic" -> [w EXCEPT !.topic = m.body]
        [] OTHER -> w

\* Every client reads what the step sent it; a client that left reads no more.
Read ==
  view' = [f \in Fd |-> [c \in Chan |->
             IF f \notin connected' THEN Outside
             ELSE FoldLeft(LAMBDA v, m : IF m.chan = c THEN Hear(v, m, nameOf'[f]) ELSE v,
                           view[f][c], sent'[f])]]

ViewInit == Init /\ view = [f \in Fd |-> [c \in Chan |-> Outside]]

ViewNext == Next /\ Read

ViewSpec == ViewInit /\ [][ViewNext]_viewVars

-----------------------------------------------------------------------------
(***************************************************************************)
(* A client's picture of its channels is the server's: it knows which it   *)
(* is in, who else is there and what the topic is.  Every command that     *)
(* changes one of these tells exactly the clients concerned, before or     *)
(* after the change as each message needs.                                 *)
(***************************************************************************)
ViewMatchesServer ==
  \A f \in Registered : \A c \in Chan :
    /\ view[f][c].inside = Member(f, c)
    /\ Member(f, c) => /\ view[f][c].members = NamesOf(channels[c].members)
                       /\ view[f][c].topic = channels[c].topic

(***************************************************************************)
(* Operators are told less well.  A client never believes in an operator   *)
(* that is none, and misses at most one: the member a disconnection        *)
(* promoted (removeUserFromAllChannels drops what                          *)
(* ensureAtLeastOneOperator returns and tells nobody).                     *)
(***************************************************************************)
ViewOfOperators ==
  \A f \in Registered : \A c \in Chan :
    Member(f, c) =>
      LET really == NamesOf(channels[c].ops)
      IN  /\ view[f][c].ops \subseteq really
          /\ Cardinality(really \ view[f][c].ops) <= 1

(***************************************************************************)
(* No client gets a message of a channel that, as far as it has been told, *)
(* it has not joined or has already left.                                  *)
(***************************************************************************)
NoStrayMessages == \A f \in Fd : \A c \in Chan : ~ view[f][c].strays

=============================================================================
