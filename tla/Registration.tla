---------------------------- MODULE Registration -----------------------------
(***************************************************************************)
(* How a connection becomes a user.  PASS, NICK and USER each fill in a    *)
(* part of the connection's ClientState; whichever completes the three     *)
(* asks UserRepository::createUser for a user, keyed both by descriptor    *)
(* and by name.  Server::disconnect takes everything back, because the     *)
(* next accept() may hand out the same descriptor.                         *)
(*                                                                         *)
(* A ClientState that was never created and one that getClientStatus just  *)
(* created cannot be told apart, so every descriptor always has one here.  *)
(* ClientState.username is stored and never read; only its flag is kept.   *)
(* Commands refused before they change anything (too few parameters, a     *)
(* PASS that is wrong or late) are not steps.                              *)
(***************************************************************************)
EXTENDS Naturals, FiniteSets

CONSTANTS Fd,             \* descriptors accept() may return
          NoFd,           \* "no entry" in a map to descriptors
          Name,           \* nicknames clients may ask for
          NoName,         \* the nickname before any NICK, and "no entry" in a map to names
          Password,       \* passwords clients may send
          ServerPassword  \* the one the server was started with

ASSUME ConstantsAssumption ==
  NoFd \notin Fd /\ NoName \notin Name /\ ServerPassword \in Password

VARIABLES connected,      \* the keys of Server::connections
          state,          \* ClientStateRepository::status
          usersByName,    \* UserRepository::usersByUsername, name to descriptor
          usersByFd,      \* UserRepository::usersByFileDescriptor, descriptor to name
          gavePassword    \* history: descriptors whose present connection sent
                          \* the server's password

vars == <<connected, state, usersByName, usersByFd, gavePassword>>

ClientState ==
  [hasPassword : BOOLEAN, hasNickname : BOOLEAN, hasUsername : BOOLEAN,
   isRegistered : BOOLEAN, nickname : Name \cup {NoName}]

\* What getClientStatus creates.
NewClientState ==
  [hasPassword |-> FALSE, hasNickname |-> FALSE, hasUsername |-> FALSE,
   isRegistered |-> FALSE, nickname |-> NoName]

TypeOK ==
  /\ connected \subseteq Fd
  /\ state \in [Fd -> ClientState]
  /\ usersByName \in [Name -> Fd \cup {NoFd}]
  /\ usersByFd \in [Fd -> Name \cup {NoName}]
  /\ gavePassword \subseteq Fd

Init ==
  /\ connected = {}
  /\ state = [f \in Fd |-> NewClientState]
  /\ usersByName = [n \in Name |-> NoFd]
  /\ usersByFd = [f \in Fd |-> NoName]
  /\ gavePassword = {}

-----------------------------------------------------------------------------
\* The test of all three commands: everything was sent and nothing was done yet.
Complete(st) ==
  st.hasPassword /\ st.hasNickname /\ st.hasUsername /\ ~ st.isRegistered

\* Mutant: the name is not looked up.
MayCreateUserMutant(f, n) == usersByFd[f] = NoName

\* The two tests of createUser.
MayCreateUser(f, n) == usersByName[n] = NoFd /\ usersByFd[f] = NoName

\* The tail of the three commands, where st is the ClientState they have filled in.
Settle(f, st) ==
  \/ /\ ~ Complete(st)
     /\ state' = [state EXCEPT ![f] = st]
     /\ UNCHANGED <<usersByName, usersByFd>>
  \/ /\ Complete(st)
     /\ MayCreateUser(f, st.nickname)
     /\ state' = [state EXCEPT ![f] = [st EXCEPT !.isRegistered = TRUE]]
     /\ usersByName' = [usersByName EXCEPT ![st.nickname] = f]
     /\ usersByFd' = [usersByFd EXCEPT ![f] = st.nickname]
  \/ /\ Complete(st)
     /\ ~ MayCreateUser(f, st.nickname)
     /\ state' = [state EXCEPT ![f] = [st EXCEPT !.isRegistered = usersByFd[f] # NoName]]
     /\ UNCHANGED <<usersByName, usersByFd>>

Pass(f, p) ==
  /\ f \in connected
  /\ ~ state[f].isRegistered
  /\ p = ServerPassword
  /\ Settle(f, [state[f] EXCEPT !.hasPassword = TRUE])
  /\ gavePassword' = gavePassword \cup {f}
  /\ UNCHANGED connected

Nick(f, n) ==
  /\ f \in connected
  /\ Settle(f, [state[f] EXCEPT !.nickname = n, !.hasNickname = TRUE])
  /\ UNCHANGED <<connected, gavePassword>>

User(f) ==
  /\ f \in connected
  /\ Settle(f, [state[f] EXCEPT !.hasUsername = TRUE])
  /\ UNCHANGED <<connected, gavePassword>>

\* handleConnection: accept() returns a descriptor that is not open.
Connect(f) ==
  /\ f \notin connected
  /\ connected' = connected \cup {f}
  /\ UNCHANGED <<state, usersByName, usersByFd, gavePassword>>

\* Mutant: the entry under the name stays.
RemoveUserByFdMutant(f) ==
  usersByFd' = [usersByFd EXCEPT ![f] = NoName] /\ UNCHANGED usersByName

\* Mutant: the descriptor is the one to be cleared in both maps.
RemoveUserByFdTypeMutant(f) ==
  /\ usersByFd' = [usersByFd EXCEPT ![f] = NoFd]
  /\ usersByName' = [n \in Name |-> IF n = usersByFd[f] THEN NoFd ELSE usersByName[n]]

\* removeUserByFileDescriptor: the name to remove is the one stored with the user.
RemoveUserByFd(f) ==
  /\ usersByFd' = [usersByFd EXCEPT ![f] = NoName]
  /\ usersByName' = [n \in Name |-> IF n = usersByFd[f] THEN NoFd ELSE usersByName[n]]

\* Mutant: the ClientState outlives the connection.
DisconnectMutant(f) ==
  /\ f \in connected
  /\ RemoveUserByFd(f)
  /\ connected' = connected \ {f}
  /\ gavePassword' = gavePassword \ {f}
  /\ UNCHANGED state

Disconnect(f) ==
  /\ f \in connected
  /\ state' = [state EXCEPT ![f] = NewClientState]
  /\ RemoveUserByFd(f)
  /\ connected' = connected \ {f}
  /\ gavePassword' = gavePassword \ {f}

Next ==
  \E f \in Fd :
    \/ Connect(f)
    \/ \E p \in Password : Pass(f, p)
    \/ \E n \in Name : Nick(f, n)
    \/ User(f)
    \/ Disconnect(f)

Spec == Init /\ [][Next]_vars

-----------------------------------------------------------------------------
(***************************************************************************)
(* Every command tests two things before it trusts its sender: that        *)
(* ClientState says registered (requireRegistered) and that the            *)
(* repository has a user (findUserByFileDescriptor).  They never disagree. *)
(***************************************************************************)
RegisteredIffUser ==
  \A f \in Fd : state[f].isRegistered <=> usersByFd[f] # NoName

(***************************************************************************)
(* findUserByUsername goes from name to descriptor in one map and from     *)
(* descriptor to user in the other: the two maps are inverse, and only     *)
(* open descriptors are in them.                                           *)
(***************************************************************************)
MapsAgree ==
  /\ \A f \in Fd : usersByFd[f] # NoName =>
       usersByName[usersByFd[f]] = f /\ f \in connected
  /\ \A n \in Name : usersByName[n] # NoFd => usersByFd[usersByName[n]] = n

(***************************************************************************)
(* Nobody is a user whose own connection has not sent the password: not    *)
(* through a descriptor somebody else authenticated before, nor through    *)
(* any order of PASS, NICK and USER.                                       *)
(***************************************************************************)
UsersGavePassword == \A f \in Fd : usersByFd[f] # NoName => f \in gavePassword

(***************************************************************************)
(* A command that leaves its sender with password, nickname and user name  *)
(* and still unregistered does so because that nickname is another user's; *)
(* nothing else keeps a complete handshake from being accepted.            *)
(***************************************************************************)
RefusalIsClash ==
  \A f \in Fd : state'[f] # state[f] /\ Complete(state'[f]) =>
    \E g \in Fd \ {f} : usersByFd[g] = state'[f].nickname

HandshakeFailsOnlyOnClash == [][RefusalIsClash]_vars

(***************************************************************************)
(* The nickname a registered client last set is the name it is known by:   *)
(* the sequence diagram of the commands has NICK update the user's nick or *)
(* the username map (assets/uml/IRC-CodeExecutionDiagram.uml:102).         *)
(***************************************************************************)
NickIsUsername ==
  \A f \in Fd : state[f].isRegistered => state[f].nickname = usersByFd[f]

\* What the channel commands are told about users.
Abstract == INSTANCE Users WITH nameOf <- usersByFd

\* The handshake implements Users: one atomic registration with a free name.
ImplementsUsers == Abstract!UsersSpec

=============================================================================
