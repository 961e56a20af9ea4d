-------------------------- MODULE RegistrationProofs -------------------------
(***************************************************************************)
(* Proofs about Registration, for any descriptors, names and passwords.    *)
(* IndInv is inductive: what has to be added to the properties is where    *)
(* the flags of a ClientState come from.                                   *)
(***************************************************************************)
EXTENDS Registration, TLAPS

\* A nickname flag means a nickname, a password flag a password that was sent.
FlagsAreEarned ==
  \A f \in Fd : /\ state[f].hasNickname => state[f].nickname \in Name
                /\ state[f].hasPassword => f \in gavePassword

IndInv ==
  TypeOK /\ FlagsAreEarned /\ RegisteredIffUser /\ MapsAgree /\ UsersGavePassword

\* What the three commands hand to Settle: a ClientState that differs from the
\* stored one in a flag or the nickname, and is as registered as it was.
Filled(f, st) ==
  /\ st \in ClientState
  /\ st.isRegistered = state[f].isRegistered
  /\ st.hasNickname => st.nickname \in Name
  /\ st.hasPassword => f \in gavePassword'

-----------------------------------------------------------------------------
LEMMA InitIndInv == Init => IndInv
BY ConstantsAssumption
   DEF Init, IndInv, TypeOK, FlagsAreEarned, RegisteredIffUser, MapsAgree,
       UsersGavePassword, ClientState, NewClientState

\* Settle keeps the invariant, whichever command calls it.
LEMMA SettleKeepsIndInv ==
  ASSUME IndInv, NEW f \in Fd, NEW st, Filled(f, st), Settle(f, st),
         f \in connected, UNCHANGED connected,
         gavePassword \subseteq gavePassword', gavePassword' \subseteq Fd
  PROVE  IndInv'
<1> USE ConstantsAssumption DEF IndInv, TypeOK, Filled
<1>1. CASE ~ Complete(st) /\ state' = [state EXCEPT ![f] = st]
           /\ UNCHANGED <<usersByName, usersByFd>>
  <2>1. TypeOK' /\ FlagsAreEarned'
    BY <1>1 DEF FlagsAreEarned
  <2>2. RegisteredIffUser' /\ MapsAgree' /\ UsersGavePassword'
    BY <1>1 DEF RegisteredIffUser, MapsAgree, UsersGavePassword
  <2> QED BY <2>1, <2>2
<1>2. CASE Complete(st) /\ MayCreateUser(f, st.nickname)
           /\ state' = [state EXCEPT ![f] = [st EXCEPT !.isRegistered = TRUE]]
           /\ usersByName' = [usersByName EXCEPT ![st.nickname] = f]
           /\ usersByFd' = [usersByFd EXCEPT ![f] = st.nickname]
  <2>1. st.nickname \in Name /\ f \in gavePassword'
    BY <1>2 DEF Complete
  <2>2. TypeOK' /\ FlagsAreEarned'
    BY <1>2, <2>1 DEF FlagsAreEarned, ClientState
  <2>3. RegisteredIffUser' /\ UsersGavePassword'
    BY <1>2, <2>1 DEF RegisteredIffUser, UsersGavePassword, ClientState
  <2>4. MapsAgree'
    BY <1>2, <2>1 DEF MapsAgree, MayCreateUser
  <2> QED BY <2>2, <2>3, <2>4
<1>3. CASE Complete(st) /\ ~ MayCreateUser(f, st.nickname)
           /\ state' = [state EXCEPT
                          ![f] = [st EXCEPT !.isRegistered = usersByFd[f] # NoName]]
           /\ UNCHANGED <<usersByName, usersByFd>>
  <2>1. TypeOK' /\ FlagsAreEarned'
    BY <1>3 DEF FlagsAreEarned, ClientState
  <2>2. RegisteredIffUser' /\ MapsAgree' /\ UsersGavePassword'
    BY <1>3 DEF RegisteredIffUser, MapsAgree, UsersGavePassword, ClientState
  <2> QED BY <2>1, <2>2
<1> QED BY <1>1, <1>2, <1>3 DEF Settle

\* Each of the three commands fills in the ClientState it hands to Settle.
LEMMA PassFills ==
  ASSUME IndInv, NEW f \in Fd, NEW p, Pass(f, p)
  PROVE  Filled(f, [state[f] EXCEPT !.hasPassword = TRUE])
BY DEF IndInv, Pass, Filled, TypeOK, ClientState, FlagsAreEarned

LEMMA NickFills ==
  ASSUME IndInv, NEW f \in Fd, NEW n \in Name, Nick(f, n)
  PROVE  Filled(f, [state[f] EXCEPT !.nickname = n, !.hasNickname = TRUE])
BY DEF IndInv, Nick, Filled, TypeOK, ClientState, FlagsAreEarned

LEMMA UserFills ==
  ASSUME IndInv, NEW f \in Fd, User(f)
  PROVE  Filled(f, [state[f] EXCEPT !.hasUsername = TRUE])
BY DEF IndInv, User, Filled, TypeOK, ClientState, FlagsAreEarned

LEMMA DisconnectKeepsIndInv ==
  ASSUME IndInv, NEW f \in Fd, Disconnect(f)
  PROVE  IndInv'
<1> USE ConstantsAssumption DEF IndInv, TypeOK, Disconnect, RemoveUserByFd
<1>1. TypeOK' /\ FlagsAreEarned'
  BY DEF FlagsAreEarned, ClientState, NewClientState
<1>2. RegisteredIffUser' /\ UsersGavePassword'
  BY DEF RegisteredIffUser, UsersGavePassword, NewClientState
<1>3. MapsAgree'
  BY DEF MapsAgree
<1> QED BY <1>1, <1>2, <1>3

LEMMA NextKeepsIndInv == IndInv /\ [Next]_vars => IndInv'
<1> SUFFICES ASSUME IndInv, [Next]_vars PROVE IndInv'
  OBVIOUS
<1> USE DEF IndInv
<1>1. CASE UNCHANGED vars
  BY <1>1 DEF vars, TypeOK, FlagsAreEarned, RegisteredIffUser, MapsAgree, UsersGavePassword
<1>2. ASSUME NEW f \in Fd, Connect(f) PROVE IndInv'
  BY <1>2 DEF Connect, TypeOK, FlagsAreEarned, RegisteredIffUser, MapsAgree,
              UsersGavePassword
<1>3. ASSUME NEW f \in Fd, NEW p \in Password, Pass(f, p) PROVE IndInv'
  BY <1>3, PassFills, SettleKeepsIndInv DEF Pass, TypeOK
<1>4. ASSUME NEW f \in Fd, NEW n \in Name, Nick(f, n) PROVE IndInv'
  BY <1>4, NickFills, SettleKeepsIndInv DEF Nick, TypeOK
<1>5. ASSUME NEW f \in Fd, User(f) PROVE IndInv'
  BY <1>5, UserFills, SettleKeepsIndInv DEF User, TypeOK
<1>6. ASSUME NEW f \in Fd, Disconnect(f) PROVE IndInv'
  BY <1>6, DisconnectKeepsIndInv
<1> QED BY <1>1, <1>2, <1>3, <1>4, <1>5, <1>6 DEF Next

\* Every reachable state satisfies the invariant.
THEOREM InvariantHolds == Spec => []IndInv
BY InitIndInv, NextKeepsIndInv, PTL DEF Spec

-----------------------------------------------------------------------------
\* The variables keep their types.
THEOREM TypeCorrect == Spec => []TypeOK
BY InvariantHolds, PTL DEF IndInv

\* ClientState and UserRepository agree on who is registered.
THEOREM RegisteredIffUserHolds == Spec => []RegisteredIffUser
BY InvariantHolds, PTL DEF IndInv

\* The two maps of UserRepository are inverse, on open descriptors only.
THEOREM MapsAgreeHolds == Spec => []MapsAgree
BY InvariantHolds, PTL DEF IndInv

\* Every user's connection has sent the server's password.
THEOREM UsersGavePasswordHolds == Spec => []UsersGavePassword
BY InvariantHolds, PTL DEF IndInv

\* A descriptor that is not open has a ClientState nobody has touched.
StrangersAreNew == \A f \in Fd \ connected : state[f] = NewClientState

LEMMA StrangersStayNew == IndInv /\ StrangersAreNew /\ [Next]_vars => StrangersAreNew'
<1> SUFFICES ASSUME IndInv, StrangersAreNew, [Next]_vars PROVE StrangersAreNew'
  OBVIOUS
<1>1. ASSUME NEW f \in Fd, NEW st, f \in connected, UNCHANGED connected, Settle(f, st)
      PROVE  StrangersAreNew'
  BY <1>1 DEF Settle, StrangersAreNew, IndInv, TypeOK
<1>2. CASE UNCHANGED vars
  BY <1>2 DEF vars, StrangersAreNew
<1>3. ASSUME NEW f \in Fd, Connect(f) PROVE StrangersAreNew'
  BY <1>3 DEF Connect, StrangersAreNew
<1>4. ASSUME NEW f \in Fd, NEW p \in Password, Pass(f, p) PROVE StrangersAreNew'
  BY <1>1, <1>4 DEF Pass
<1>5. ASSUME NEW f \in Fd, NEW n \in Name, Nick(f, n) PROVE StrangersAreNew'
  BY <1>1, <1>5 DEF Nick
<1>6. ASSUME NEW f \in Fd, User(f) PROVE StrangersAreNew'
  BY <1>1, <1>6 DEF User
<1>7. ASSUME NEW f \in Fd, Disconnect(f) PROVE StrangersAreNew'
  BY <1>7 DEF Disconnect, StrangersAreNew, IndInv, TypeOK
<1> QED BY <1>2, <1>3, <1>4, <1>5, <1>6, <1>7 DEF Next

\* A closed descriptor has no user, and no name leads to it.
LEMMA StrangersAreNobody ==
  ASSUME IndInv, StrangersAreNew, NEW f \in Fd \ connected
  PROVE  usersByFd[f] = NoName /\ \A n \in Name : usersByName[n] # f
BY ConstantsAssumption
   DEF IndInv, TypeOK, StrangersAreNew, NewClientState, RegisteredIffUser, MapsAgree

-----------------------------------------------------------------------------
\* One step of the handshake: it fails only on a nickname in use.
LEMMA SettleFailsOnlyOnClash ==
  ASSUME IndInv, NEW f \in Fd, NEW st, Filled(f, st), Settle(f, st),
         NEW g \in Fd, state'[g] # state[g], Complete(state'[g])
  PROVE  \E h \in Fd \ {g} : usersByFd[h] = state'[g].nickname
<1> USE DEF IndInv, TypeOK, Filled
<1>1. g = f /\ Complete(st) /\ ~ MayCreateUser(f, st.nickname)
  BY DEF Settle, Complete, ClientState
<1>2. state'[f] = [st EXCEPT !.isRegistered = usersByFd[f] # NoName]
  BY <1>1 DEF Settle
<1>3. usersByFd[f] = NoName /\ state'[f].nickname = st.nickname
  BY <1>1, <1>2 DEF Complete, ClientState
<1>4. st.nickname \in Name /\ usersByName[st.nickname] # NoFd
  BY <1>1, <1>3 DEF MayCreateUser, Complete
<1> QED BY <1>1, <1>3, <1>4, ConstantsAssumption DEF MapsAgree

\* A handshake that is complete and refused wanted a nickname in use.
THEOREM HandshakeFailsOnlyOnClashHolds == Spec => HandshakeFailsOnlyOnClash
<1> DEFINE Clash(f) == \E h \in Fd \ {f} : usersByFd[h] = state'[f].nickname
<1>1. IndInv /\ [Next]_vars => RefusalIsClash
  <2> SUFFICES ASSUME IndInv, [Next]_vars, NEW g \in Fd,
                      state'[g] # state[g], Complete(state'[g])
               PROVE  Clash(g)
    BY DEF RefusalIsClash
  <2> USE DEF IndInv
  <2>1. CASE UNCHANGED vars
    BY <2>1 DEF vars
  <2>2. ASSUME NEW f \in Fd, Connect(f) PROVE Clash(g)
    BY <2>2 DEF Connect
  <2>3. ASSUME NEW f \in Fd, NEW p \in Password, Pass(f, p) PROVE Clash(g)
    BY <2>3, PassFills, SettleFailsOnlyOnClash DEF Pass
  <2>4. ASSUME NEW f \in Fd, NEW n \in Name, Nick(f, n) PROVE Clash(g)
    BY <2>4, NickFills, SettleFailsOnlyOnClash DEF Nick
  <2>5. ASSUME NEW f \in Fd, User(f) PROVE Clash(g)
    BY <2>5, UserFills, SettleFailsOnlyOnClash DEF User
  <2>6. ASSUME NEW f \in Fd, Disconnect(f) PROVE Clash(g)
    BY <2>6 DEF Disconnect, TypeOK, Complete, NewClientState
  <2> QED BY <2>1, <2>2, <2>3, <2>4, <2>5, <2>6 DEF Next
<1> QED BY <1>1, InvariantHolds, PTL DEF Spec, HandshakeFailsOnlyOnClash

-----------------------------------------------------------------------------
\* Settle is a registration of Users, or nothing as far as Users can see.
LEMMA SettleRegisters ==
  ASSUME IndInv, NEW f \in Fd, NEW st, Filled(f, st), Settle(f, st),
         f \in connected, UNCHANGED connected
  PROVE  Abstract!UsersNext \/ UNCHANGED Abstract!users
<1> USE ConstantsAssumption DEF IndInv, TypeOK, Filled
<1>1. CASE UNCHANGED usersByFd
  BY <1>1 DEF Abstract!users
<1>2. CASE Complete(st) /\ MayCreateUser(f, st.nickname)
           /\ usersByFd' = [usersByFd EXCEPT ![f] = st.nickname]
  <2>1. st.nickname \in Name
    BY <1>2 DEF Complete
  <2>2. ~ Abstract!Known(st.nickname)
    BY <1>2, <2>1 DEF MayCreateUser, MapsAgree, Abstract!Known
  <2>3. Abstract!Register(f, st.nickname)
    BY <1>2, <2>2 DEF MayCreateUser, Abstract!Register, Abstract!Registered
  <2> QED BY <2>1, <2>3 DEF Abstract!UsersNext
<1> QED BY <1>1, <1>2 DEF Settle

\* PASS, NICK, USER and the two repositories implement Users.
THEOREM RegistrationImplementsUsers == Spec => ImplementsUsers
<1>1. Init => Abstract!UsersInit
  BY DEF Init, Abstract!UsersInit
<1>2. IndInv /\ [Next]_vars => [Abstract!UsersNext]_(Abstract!users)
  <2> SUFFICES ASSUME IndInv, [Next]_vars
               PROVE  Abstract!UsersNext \/ UNCHANGED Abstract!users
    OBVIOUS
  <2> USE DEF IndInv
  <2>1. CASE UNCHANGED vars
    BY <2>1 DEF vars, Abstract!users
  <2>2. ASSUME NEW f \in Fd, Connect(f) PROVE Abstract!UsersNext
    BY <2>2 DEF Connect, Abstract!UsersNext, Abstract!Connect
  <2>3. ASSUME NEW f \in Fd, NEW p \in Password, Pass(f, p)
        PROVE  Abstract!UsersNext \/ UNCHANGED Abstract!users
    BY <2>3, PassFills, SettleRegisters DEF Pass
  <2>4. ASSUME NEW f \in Fd, NEW n \in Name, Nick(f, n)
        PROVE  Abstract!UsersNext \/ UNCHANGED Abstract!users
    BY <2>4, NickFills, SettleRegisters DEF Nick
  <2>5. ASSUME NEW f \in Fd, User(f)
        PROVE  Abstract!UsersNext \/ UNCHANGED Abstract!users
    BY <2>5, UserFills, SettleRegisters DEF User
  <2>6. ASSUME NEW f \in Fd, Disconnect(f) PROVE Abstract!UsersNext
    BY <2>6 DEF Disconnect, RemoveUserByFd, Abstract!UsersNext, Abstract!Drop
  <2> QED BY <2>1, <2>2, <2>3, <2>4, <2>5, <2>6 DEF Next
<1> QED BY <1>1, <1>2, InvariantHolds, PTL DEF Spec, ImplementsUsers, Abstract!UsersSpec

=============================================================================
