-------------------------------- MODULE Users --------------------------------
(***************************************************************************)
(* What the rest of the server may assume about its users.  A descriptor   *)
(* is connected or not, and a connected one has a name or has none yet.    *)
(* The channel commands are built on this; Registration, which models      *)
(* PASS, NICK, USER and the two repositories behind them, implements it.   *)
(***************************************************************************)
EXTENDS Naturals, Sequences, FiniteSets

CONSTANTS Fd,      \* descriptors accept() may return
          Name,    \* nicknames clients may ask for
          NoName   \* the name of a descriptor nobody registered on

ASSUME NoNameAssumption == NoName \notin Name

VARIABLES connected,  \* the keys of Server::connections
          nameOf      \* User.username of usersByFileDescriptor, NoName if absent

users == <<connected, nameOf>>

UsersTypeOK ==
  /\ connected \subseteq Fd
  /\ nameOf \in [Fd -> Name \cup {NoName}]

UsersInit ==
  /\ connected = {}
  /\ nameOf = [f \in Fd |-> NoName]

\* The descriptors findUserByFileDescriptor knows.
Registered == {f \in Fd : nameOf[f] # NoName}

\* findUserByUsername finds a user of this name.
Known(n) == \E f \in Fd : nameOf[f] = n

\* accept() hands out any descriptor that is not open.
Connect(f) ==
  /\ f \notin connected
  /\ connected' = connected \cup {f}
  /\ UNCHANGED nameOf

\* createUser succeeds: the name is free and the descriptor has no user.
Register(f, n) ==
  /\ f \in connected
  /\ f \notin Registered
  /\ ~ Known(n)
  /\ nameOf' = [nameOf EXCEPT ![f] = n]
  /\ UNCHANGED connected

\* The peer is gone: removeUserByFileDescriptor and connections.erase.
Drop(f) ==
  /\ f \in connected
  /\ connected' = connected \ {f}
  /\ nameOf' = [nameOf EXCEPT ![f] = NoName]

UsersNext ==
  \E f \in Fd : \/ Connect(f)
                \/ \E n \in Name : Register(f, n)
                \/ Drop(f)

UsersSpec == UsersInit /\ [][UsersNext]_users

=============================================================================
