------------------------------- MODULE Channel -------------------------------
(***************************************************************************)
(* The class Channel (src/src/core/Channel.cpp) as operators on records.   *)
(* A method that changes the channel is an operator that returns the       *)
(* changed record.  The class keeps the membership twice, as the set       *)
(* _usersInChannel and as the vector _usersJoinOrder; both are kept here.  *)
(*                                                                         *)
(* Two pairs of fields of the class are one field each: the key is Empty   *)
(* exactly when hasChannelPassword is false, because MODE never stores an  *)
(* empty password, and the limit is 0 exactly when hasMaxUsersAmount is    *)
(* false, because MODE never stores a limit below 1.                       *)
(***************************************************************************)
EXTENDS Naturals, Sequences, FiniteSets

CONSTANTS NoFd,   \* the -1 ensureAtLeastOneOperator returns when nobody is promoted
          Empty   \* the empty string

\* The channels whose members are descriptors in F and whose texts are in T.
ChannelType(F, T) ==
  [members : SUBSET F, joinOrder : Seq(F), ops : SUBSET F, invited : SUBSET F,
   inviteOnly : BOOLEAN, topicLock : BOOLEAN,
   key : T \cup {Empty}, limit : Nat, topic : T \cup {Empty}]

\* Mutant: the policy flag is left set.
NewChannelMutant ==
  [members |-> {}, joinOrder |-> <<>>, ops |-> {}, invited |-> {},
   inviteOnly |-> TRUE, topicLock |-> FALSE,
   key |-> Empty, limit |-> 0, topic |-> Empty]

\* The constructor Channel(channelName).
NewChannel ==
  [members |-> {}, joinOrder |-> <<>>, ops |-> {}, invited |-> {},
   inviteOnly |-> FALSE, topicLock |-> FALSE,
   key |-> Empty, limit |-> 0, topic |-> Empty]

\* addUserToChannel: a member already there keeps its place in the join order.
AddUser(ch, f) ==
  IF f \in ch.members THEN ch
  ELSE [ch EXCEPT !.members = @ \cup {f}, !.joinOrder = Append(@, f)]

\* Mutant: the vector keeps the member the set lost.
RemoveFromJoinOrderMutant(order, f) == order

(***************************************************************************)
(* _removeFromJoinOrder.  std::remove drops every occurrence of f; the     *)
(* join order has at most one, which is what this definition drops.  That  *)
(* there is at most one is part of JoinOrderAgrees.                        *)
(***************************************************************************)
RemoveFromJoinOrder(order, f) ==
  IF \A i \in DOMAIN order : order[i] # f THEN order
  ELSE LET k == CHOOSE i \in DOMAIN order : order[i] = f
       IN  [i \in 1 .. Len(order) - 1 |-> IF i < k THEN order[i] ELSE order[i + 1]]

\* removeUserFromChannel: every trace of the member goes with it.
RemoveUser(ch, f) ==
  IF f \notin ch.members THEN ch
  ELSE [ch EXCEPT !.members = @ \ {f}, !.ops = @ \ {f}, !.invited = @ \ {f},
                  !.joinOrder = RemoveFromJoinOrder(@, f)]

\* addChannelOperator: only a member can be made operator.
AddOperator(ch, f) ==
  IF f \in ch.members THEN [ch EXCEPT !.ops = @ \cup {f}] ELSE ch

\* inviteUser and uninviteUser.
InviteUser(ch, f)   == [ch EXCEPT !.invited = @ \cup {f}]
UninviteUser(ch, f) == [ch EXCEPT !.invited = @ \ {f}]

\* getUsersInChannelJoinOrder, as a set: the descriptors a broadcast goes to.
InJoinOrder(ch) == {ch.joinOrder[i] : i \in DOMAIN ch.joinOrder} \cap ch.members

\* Mutant: the newest member is promoted.
PromotedMutant(ch) ==
  LET present == {i \in DOMAIN ch.joinOrder : ch.joinOrder[i] \in ch.members}
  IN  IF ch.ops \cap ch.members # {} \/ present = {} THEN NoFd
      ELSE ch.joinOrder[CHOOSE i \in present : \A j \in present : j <= i]

\* The operator ensureAtLeastOneOperator promotes, NoFd if it promotes none.
Promoted(ch) ==
  LET present == {i \in DOMAIN ch.joinOrder : ch.joinOrder[i] \in ch.members}
  IN  IF ch.ops \cap ch.members # {} \/ present = {} THEN NoFd
      ELSE ch.joinOrder[CHOOSE i \in present : \A j \in present : i <= j]

\* Mutant: nobody is promoted.
EnsureOperatorMutant(ch) == [ch EXCEPT !.ops = @ \cap ch.members]

\* ensureAtLeastOneOperator: forget operators that left, then promote.
EnsureOperator(ch) ==
  [ch EXCEPT !.ops = (@ \cap ch.members) \cup ({Promoted(ch)} \ {NoFd})]

-----------------------------------------------------------------------------
(***************************************************************************)
(* What the commands and the disconnection keep true of every channel in   *)
(* the repository.                                                         *)
(***************************************************************************)

\* The vector lists each member of the set once, and nobody else.
JoinOrderAgrees(ch) ==
  /\ ch.members = {ch.joinOrder[i] : i \in DOMAIN ch.joinOrder}
  /\ \A i, j \in DOMAIN ch.joinOrder : ch.joinOrder[i] = ch.joinOrder[j] => i = j

\* There is an operator, and every operator is a member.
HasOperator(ch) == ch.ops # {} /\ ch.ops \subseteq ch.members

\* An invitation is spent when its holder joins.
InvitationsPending(ch) == ch.invited \cap ch.members = {}

Sound(ch) == JoinOrderAgrees(ch) /\ HasOperator(ch) /\ InvitationsPending(ch)

=============================================================================
