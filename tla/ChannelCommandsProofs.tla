------------------------ MODULE ChannelCommandsProofs ------------------------
(***************************************************************************)
(* Proofs about the channel commands, for any number of clients, channels, *)
(* names and texts, and any MODE lines.  The invariant is inductive as it  *)
(* is stated: each command finds a sound channel and leaves one, by the    *)
(* facts of ChannelProofs about the methods it calls.                      *)
(***************************************************************************)
EXTENDS ChannelCommands, ChannelProofs

IndInv == TypeOK /\ ChannelsSound /\ MembersAreUsers

\* What may become of a channel: it is closed, or it is left sound.
GoodEntry(v) ==
  v = NoChannel \/ (v \in ChannelType(Fd, Text) /\ Sound(v) /\ v.members \subseteq Registered)

-----------------------------------------------------------------------------
LEMMA SoundIsConsistent ==
  ASSUME NEW ch
  PROVE  Sound(ch) <=> Consistent(ch) /\ ch.ops # {}
BY DEF Sound, Consistent, HasOperator

\* A channel that exists is typed, sound and full of users.
LEMMA ExistingChannel ==
  ASSUME IndInv, NEW c \in Chan, Exists(c)
  PROVE  /\ channels[c] \in ChannelType(Fd, Text)
         /\ Sound(channels[c]) /\ Consistent(channels[c])
         /\ channels[c].members \subseteq Registered
         /\ channels[c].members # {}
BY SoundIsConsistent DEF IndInv, TypeOK, ChannelsSound, MembersAreUsers, Exists, Sound,
   HasOperator

\* A command that changes one entry, and leaves it good, keeps the invariant.
LEMMA OneEntryChanges ==
  ASSUME IndInv, NEW c \in Chan, NEW v, GoodEntry(v),
         channels' = [channels EXCEPT ![c] = v], UNCHANGED users
  PROVE  IndInv'
<1> USE DEF IndInv, TypeOK, UsersTypeOK, users
<1>1. TypeOK'
  BY DEF GoodEntry
<1>2. Registered' = Registered
  BY DEF Registered
<1>3. ASSUME NEW d \in Chan, Exists(d)'
      PROVE  Sound(channels'[d]) /\ channels'[d].members \subseteq Registered'
  <2>1. CASE d = c
    BY <1>2, <1>3, <2>1 DEF Exists, GoodEntry
  <2>2. CASE d # c
    BY <1>2, <1>3, <2>2 DEF Exists, ChannelsSound, MembersAreUsers
  <2> QED BY <2>1, <2>2
<1> QED BY <1>1, <1>3 DEF ChannelsSound, MembersAreUsers

\* A command that only sends messages keeps the invariant.
LEMMA OnlyMessages ==
  ASSUME IndInv, UNCHANGED <<users, channels>>
  PROVE  IndInv'
BY DEF IndInv, TypeOK, UsersTypeOK, users, ChannelsSound, MembersAreUsers, Exists, Registered

\* A known name is some user's.
LEMMA WhoIsAUser ==
  ASSUME NEW n \in Name, Known(n)
  PROVE  Who[n] \in Fd /\ nameOf[Who[n]] = n /\ Who[n] \in Registered
<1>1. n \in Text
  BY ChannelConstantsAssumption
<1>2. Who[n] = CHOOSE f \in Fd : nameOf[f] = n
  BY <1>1 DEF Who
<1>3. Who[n] \in Fd /\ nameOf[Who[n]] = n
  BY <1>2 DEF Known
<1> QED BY <1>3, NoNameAssumption DEF Registered

-----------------------------------------------------------------------------
LEMMA InitIndInv == Init => IndInv
BY DEF Init, UsersInit, IndInv, TypeOK, UsersTypeOK, ChannelsSound, MembersAreUsers, Exists

LEMMA JoinKeepsIndInv ==
  ASSUME IndInv, NEW f \in Fd, NEW c \in Chan, NEW key, Join(f, c, key)
  PROVE  IndInv'
<1> DEFINE ch == FoundOrCreated(c)
<1>1. /\ ch \in ChannelType(Fd, Text) /\ Consistent(ch) /\ f \notin ch.members
      /\ ch.members \subseteq Registered /\ (Exists(c) => Sound(ch))
  <2>1. CASE Exists(c)
    BY <2>1, ExistingChannel DEF FoundOrCreated, Join, Member
  <2>2. CASE ~ Exists(c)
    BY <2>2, NewChannelIsConsistent DEF FoundOrCreated, NewChannel
  <2> QED BY <2>1, <2>2
<1>2. CASE /\ Admits(ch, f, key)
           /\ channels' = [channels EXCEPT ![c] = Admitted(c, f)]
  <2> DEFINE in == UninviteUser(AddUser(ch, f), f)
  <2>1. /\ in \in ChannelType(Fd, Text) /\ Consistent(in)
        /\ in.members = ch.members \cup {f} /\ in.ops = ch.ops
    BY <1>1, AddUserAdds
  <2> HIDE DEF in
  <2>2. in.members \subseteq Registered
    BY <1>1, <2>1 DEF Join
  <2>3. CASE Exists(c)
    <3>1. Admitted(c, f) = in
      BY <2>3 DEF Admitted, in
    <3>2. Sound(in)
      BY <1>1, <2>1, <2>3, SoundIsConsistent
    <3> QED BY <1>2, <2>1, <2>2, <3>1, <3>2, OneEntryChanges DEF GoodEntry, Join
  <2>4. CASE ~ Exists(c)
    <3> DEFINE led == AddOperator(in, f)
    <3>1. Admitted(c, f) = led
      BY <2>4 DEF Admitted, in
    <3>2. led = [in EXCEPT !.ops = in.ops \cup {f}]
      BY <2>1 DEF AddOperator
    <3>3. led \in ChannelType(Fd, Text)
      BY <2>1, <3>2 DEF ChannelType
    <3>4. /\ led.ops = in.ops \cup {f} /\ led.members = in.members
          /\ led.joinOrder = in.joinOrder /\ led.invited = in.invited
      BY <2>1, <3>2 DEF ChannelType
    <3> HIDE DEF led
    <3>5. Sound(led)
      BY <2>1, <3>4 DEF Sound, Consistent, JoinOrderAgrees, HasOperator, InvitationsPending
    <3> QED BY <1>2, <2>2, <3>1, <3>3, <3>4, <3>5, OneEntryChanges DEF GoodEntry, Join
  <2> QED BY <2>3, <2>4
<1>3. CASE /\ ~ Admits(ch, f, key)
           /\ channels' = [channels EXCEPT ![c] = ch]
  <2>1. Exists(c)
    BY <1>3 DEF Admits, FoundOrCreated, NewChannel
  <2> QED BY <1>1, <1>3, <2>1, OneEntryChanges DEF GoodEntry, Join
<1> QED BY <1>2, <1>3 DEF Join

\* EnsureOperatorEnsures for the descriptors and texts of this module.
LEMMA EnsuredIsSound ==
  ASSUME NEW ch \in ChannelType(Fd, Text), Consistent(ch), ch.members # {}
  PROVE  /\ EnsureOperator(ch) \in ChannelType(Fd, Text)
         /\ Sound(EnsureOperator(ch))
         /\ EnsureOperator(ch).members = ch.members
         /\ ch.ops # {} => EnsureOperator(ch).ops = ch.ops
         /\ ch.ops = {} => EnsureOperator(ch).ops = {ch.joinOrder[1]}
<1>1. NoFd \notin Fd
  BY ChannelConstantsAssumption
<1> QED BY <1>1, EnsureOperatorEnsures

\* What is left of a channel when a member goes, by whatever way.
LEMMA DepartureIsGood ==
  ASSUME IndInv, NEW c \in Chan, NEW f, Member(f, c)
  PROVE  LET rest == RemoveUser(channels[c], f)
         IN  rest.members # {} =>
               /\ EnsureOperator(rest) \in ChannelType(Fd, Text)
               /\ Sound(EnsureOperator(rest))
               /\ EnsureOperator(rest).members = channels[c].members \ {f}
<1> DEFINE rest == RemoveUser(channels[c], f)
<1>1. /\ rest \in ChannelType(Fd, Text) /\ Consistent(rest)
      /\ rest.members = channels[c].members \ {f}
  BY ExistingChannel, RemoveUserRemoves DEF Member
<1> HIDE DEF rest
<1>2. ASSUME rest.members # {}
      PROVE  /\ EnsureOperator(rest) \in ChannelType(Fd, Text)
             /\ Sound(EnsureOperator(rest))
             /\ EnsureOperator(rest).members = rest.members
  BY <1>1, <1>2, EnsuredIsSound
<1> QED BY <1>1, <1>2 DEF rest

LEMMA LeaveKeepsIndInv ==
  ASSUME IndInv, NEW c \in Chan, NEW f, Member(f, c), NEW m, Leave(f, c, m)
  PROVE  IndInv'
<1> DEFINE rest == RemoveUser(channels[c], f)
           v    == IF rest.members = {} THEN NoChannel ELSE EnsureOperator(rest)
<1>1. channels' = [channels EXCEPT ![c] = v] /\ UNCHANGED users
  BY DEF Leave
<1>2. channels[c].members \ {f} \subseteq Registered
  BY ExistingChannel DEF Member
<1>3. GoodEntry(v)
  BY <1>2, DepartureIsGood DEF GoodEntry
<1> HIDE DEF v
<1> QED BY <1>1, <1>3, OneEntryChanges

LEMMA InviteKeepsIndInv ==
  ASSUME IndInv, NEW f \in Fd, NEW c \in Chan, NEW n \in Name, Invite(f, c, n)
  PROVE  IndInv'
<1> DEFINE ch == channels[c]
           v  == [ch EXCEPT !.invited = @ \cup {Who[n]}]
<1>1. /\ ch \in ChannelType(Fd, Text) /\ Sound(ch) /\ ch.members \subseteq Registered
      /\ Who[n] \in Fd /\ Who[n] \notin ch.members
  BY ExistingChannel, WhoIsAUser DEF Invite, Oper, Member
<1>2. channels' = [channels EXCEPT ![c] = v] /\ UNCHANGED users
  <2>1. channels' = [channels EXCEPT ![c] = InviteUser(ch, Who[n])]
    BY DEF Invite
  <2> QED BY <2>1 DEF Invite, InviteUser
<1>3. v \in ChannelType(Fd, Text)
  BY <1>1 DEF ChannelType
<1>4. /\ v.members = ch.members /\ v.joinOrder = ch.joinOrder /\ v.ops = ch.ops
      /\ v.invited = ch.invited \cup {Who[n]}
  BY <1>1 DEF ChannelType
<1> HIDE DEF v
<1>5. Sound(v)
  BY <1>1, <1>4 DEF Sound, JoinOrderAgrees, HasOperator, InvitationsPending
<1> QED BY <1>1, <1>2, <1>3, <1>4, <1>5, OneEntryChanges DEF GoodEntry

LEMMA SetTopicKeepsIndInv ==
  ASSUME IndInv, NEW f \in Fd, NEW c \in Chan, NEW t \in Topic, SetTopic(f, c, t)
  PROVE  IndInv'
<1> DEFINE ch == channels[c]
           v  == [ch EXCEPT !.topic = t]
<1>1. /\ ch \in ChannelType(Fd, Text) /\ Sound(ch) /\ ch.members \subseteq Registered
  BY ExistingChannel DEF SetTopic, Member
<1>2. channels' = [channels EXCEPT ![c] = v] /\ UNCHANGED users
  BY DEF SetTopic
<1>3. t \in Text \cup {Empty}
  BY ChannelConstantsAssumption
<1>4. v \in ChannelType(Fd, Text)
  BY <1>1, <1>3 DEF ChannelType
<1>5. /\ v.members = ch.members /\ v.joinOrder = ch.joinOrder /\ v.ops = ch.ops
      /\ v.invited = ch.invited
  BY <1>1 DEF ChannelType
<1> HIDE DEF v
<1>6. Sound(v)
  BY <1>1, <1>5 DEF Sound, JoinOrderAgrees, HasOperator, InvitationsPending
<1> QED BY <1>1, <1>2, <1>4, <1>5, <1>6, OneEntryChanges DEF GoodEntry

\* MODE changes one channel, leaves it good and moves nobody.
LEMMA ModeKeepsMembers ==
  ASSUME IndInv, NEW f \in Fd, NEW c \in Chan, NEW line \in ModeLine, Mode(f, c, line)
  PROVE  \E v : /\ channels' = [channels EXCEPT ![c] = v] /\ UNCHANGED users
                /\ v # NoChannel /\ GoodEntry(v) /\ v.members = channels[c].members
<1> DEFINE ch      == channels[c]
           changed == ApplyModes(ch, Requests(ch, line, Who), Who)
           next    == EnsureOperator(changed)
<1>1. /\ ch \in ChannelType(Fd, Text) /\ Consistent(ch) /\ ch.members \subseteq Registered
      /\ ch.members # {}
  BY ExistingChannel DEF Mode, Oper, Member
<1>2. line \in LineType(Text)
  BY ChannelConstantsAssumption DEF LineType
<1>3. /\ changed \in ChannelType(Fd, Text) /\ Consistent(changed)
      /\ changed.members = ch.members
  <2> HIDE DEF ch
  <2> QED BY <1>1, <1>2, ApplyModesKeepsMembers, ChannelConstantsAssumption
<1> HIDE DEF changed
<1>4. /\ next \in ChannelType(Fd, Text) /\ Sound(next) /\ next.members = changed.members
  <2> HIDE DEF ch
  <2>1. ch.members # {}
    BY <1>1
  <2> QED BY <1>3, <2>1, EnsuredIsSound
<1>5. channels' = [channels EXCEPT ![c] = next] /\ UNCHANGED users
  BY DEF Mode, changed
<1> HIDE DEF next
<1>6. next # NoChannel /\ GoodEntry(next) /\ next.members = channels[c].members
  BY <1>1, <1>3, <1>4, ChannelConstantsAssumption DEF GoodEntry
<1> HIDE DEF ch
<1> QED BY <1>5, <1>6

LEMMA ModeKeepsIndInv ==
  ASSUME IndInv, NEW f \in Fd, NEW c \in Chan, NEW line \in ModeLine, Mode(f, c, line)
  PROVE  IndInv'
BY ModeKeepsMembers, OneEntryChanges

LEMMA DisconnectKeepsIndInv ==
  ASSUME IndInv, NEW f \in Fd, Disconnect(f)
  PROVE  IndInv'
<1>1. channels' = [c \in Chan |-> IF Member(f, c) THEN Abandoned(channels[c], f)
                                  ELSE channels[c]]
      /\ connected' = connected \ {f} /\ nameOf' = [nameOf EXCEPT ![f] = NoName]
  BY DEF Disconnect, Drop
<1>2. UsersTypeOK' /\ Registered' = Registered \ {f}
  BY <1>1 DEF IndInv, TypeOK, UsersTypeOK, Registered
<1>3. ASSUME NEW c \in Chan
      PROVE  channels'[c] = NoChannel \/
               /\ channels'[c] \in ChannelType(Fd, Text)
               /\ Sound(channels'[c])
               /\ channels'[c].members \subseteq Registered \ {f}
  <2>1. CASE Member(f, c)
    <3> DEFINE rest == RemoveUser(channels[c], f)
    <3>1. channels'[c] = IF rest.members = {} THEN NoChannel ELSE EnsureOperator(rest)
      BY <1>1, <2>1 DEF Abandoned
    <3>2. channels[c].members \subseteq Registered
      BY <2>1, ExistingChannel DEF Member
    <3> QED BY <2>1, <3>1, <3>2, DepartureIsGood
  <2>2. CASE ~ Member(f, c)
    <3>1. channels'[c] = channels[c]
      BY <1>1, <2>2
    <3>2. CASE Exists(c)
      BY <2>2, <3>1, <3>2, ExistingChannel DEF Member
    <3>3. CASE ~ Exists(c)
      BY <3>1, <3>3 DEF Exists
    <3> QED BY <3>2, <3>3
  <2> QED BY <2>1, <2>2
<1>4. TypeOK'
  BY <1>1, <1>2, <1>3 DEF TypeOK
<1> QED BY <1>2, <1>3, <1>4 DEF IndInv, ChannelsSound, MembersAreUsers, Exists

\* Connections and registrations leave the channels alone, and only add users.
LEMMA ArrivalKeepsIndInv ==
  ASSUME IndInv, UNCHANGED channels, UsersTypeOK', Registered \subseteq Registered'
  PROVE  IndInv'
BY DEF IndInv, TypeOK, ChannelsSound, MembersAreUsers, Exists

LEMMA NextKeepsIndInv == IndInv /\ [Next]_vars => IndInv'
<1> SUFFICES ASSUME IndInv, [Next]_vars PROVE IndInv'
  OBVIOUS
<1>1. CASE UNCHANGED vars
  BY <1>1, OnlyMessages DEF vars, users
<1>2. ASSUME NEW f \in Fd, Accept(f) PROVE IndInv'
  BY <1>2, ArrivalKeepsIndInv DEF Accept, Connect, IndInv, TypeOK, UsersTypeOK, Registered
<1>3. ASSUME NEW f \in Fd, NEW n \in Name, Enter(f, n) PROVE IndInv'
  <2>1. UsersTypeOK' /\ Registered \subseteq Registered'
    BY <1>3 DEF Enter, Register, IndInv, TypeOK, UsersTypeOK, Registered
  <2> QED BY <1>3, <2>1, ArrivalKeepsIndInv DEF Enter
<1>4. ASSUME NEW f \in Fd, Disconnect(f) PROVE IndInv'
  BY <1>4, DisconnectKeepsIndInv
<1>5. ASSUME NEW f \in Fd, NEW n \in Name, PrivMsgUser(f, n) PROVE IndInv'
  BY <1>5, OnlyMessages DEF PrivMsgUser
<1>6. ASSUME NEW f \in Fd, NEW c \in Chan, UserCommand(f, c) PROVE IndInv'
  <2>1. ASSUME NEW key \in Key, Join(f, c, key) PROVE IndInv'
    BY <2>1, JoinKeepsIndInv
  <2>2. CASE Part(f, c)
    BY <2>2, LeaveKeepsIndInv DEF Part
  <2>3. ASSUME NEW n \in Name, Kick(f, c, n) PROVE IndInv'
    BY <2>3, LeaveKeepsIndInv DEF Kick
  <2>4. ASSUME NEW n \in Name, Invite(f, c, n) PROVE IndInv'
    BY <2>4, InviteKeepsIndInv
  <2>5. ASSUME NEW t \in Topic, SetTopic(f, c, t) PROVE IndInv'
    BY <2>5, SetTopicKeepsIndInv
  <2>6. CASE AskTopic(f, c) \/ PrivMsg(f, c) \/ AskMode(f, c)
    BY <2>6, OnlyMessages DEF AskTopic, PrivMsg, AskMode
  <2>7. ASSUME NEW line \in ModeLine, Mode(f, c, line) PROVE IndInv'
    BY <2>7, ModeKeepsIndInv
  <2> QED BY <1>6, <2>1, <2>2, <2>3, <2>4, <2>5, <2>6, <2>7 DEF UserCommand
<1> QED BY <1>1, <1>2, <1>3, <1>4, <1>5, <1>6 DEF Next

\* Every reachable state satisfies the invariant.
THEOREM InvariantHolds == Spec => []IndInv
BY InitIndInv, NextKeepsIndInv, PTL DEF Spec

-----------------------------------------------------------------------------
\* The variables keep their types.
THEOREM TypeCorrect == Spec => []TypeOK
BY InvariantHolds, PTL DEF IndInv

\* No channel is ever empty, without an operator, or at odds with its join order.
THEOREM ChannelsSoundHolds == Spec => []ChannelsSound
BY InvariantHolds, PTL DEF IndInv

\* No channel keeps the descriptor of a user who is gone.
THEOREM MembersAreUsersHolds == Spec => []MembersAreUsers
BY InvariantHolds, PTL DEF IndInv

-----------------------------------------------------------------------------
\* What one step may do to a channel c that exists.
Stays(c) == Exists(c)' /\ channels'[c].members = channels[c].members

Arrives(c) ==
  \E f \in Fd : \E key \in Key :
    /\ f \notin channels[c].members
    /\ Admits(channels[c], f, key)
    /\ channels'[c] = Admitted(c, f)

DepartsFrom(f, c) ==
  LET rest == RemoveUser(channels[c], f)
  IN  /\ f \in channels[c].members
      /\ channels'[c] = IF rest.members = {} THEN NoChannel ELSE EnsureOperator(rest)

Departs(c) == \E f \in channels[c].members : DepartsFrom(f, c)

\* PART and KICK are departures from their channel and touch no other.
LEMMA LeaveDeparts ==
  ASSUME IndInv, NEW d \in Chan, NEW g, Member(g, d), NEW m, Leave(g, d, m),
         NEW c \in Chan, Exists(c)
  PROVE  Stays(c) \/ Departs(c)
<1> DEFINE rest == RemoveUser(channels[d], g)
           v    == IF rest.members = {} THEN NoChannel ELSE EnsureOperator(rest)
<1>1. channels' = [channels EXCEPT ![d] = v]
  BY DEF Leave
<1>2. channels \in [Chan -> ChannelType(Fd, Text) \cup {NoChannel}]
  BY DEF IndInv, TypeOK
<1> HIDE DEF v
<1>3. CASE c # d
  BY <1>1, <1>2, <1>3 DEF Stays, Exists
<1>4. CASE c = d
  <2>1. channels'[c] = v
    BY <1>1, <1>2, <1>4
  <2> QED BY <1>4, <2>1 DEF v, Departs, DepartsFrom, Member
<1> QED BY <1>3, <1>4

\* JOIN is an arrival on its channel and touches no other.
LEMMA JoinArrives ==
  ASSUME IndInv, NEW f \in Fd, NEW d \in Chan, NEW key \in Key, Join(f, d, key),
         NEW c \in Chan, Exists(c)
  PROVE  Stays(c) \/ Arrives(c)
<1>1. channels \in [Chan -> ChannelType(Fd, Text) \cup {NoChannel}]
  BY DEF IndInv, TypeOK
<1>2. CASE c # d
  BY <1>1, <1>2 DEF Join, Stays, Exists
<1>3. CASE c = d
  <2>1. f \notin channels[c].members /\ FoundOrCreated(c) = channels[c]
    BY <1>3 DEF Join, Member, FoundOrCreated
  <2>2. CASE channels' = [channels EXCEPT ![c] = channels[c]]
    BY <1>1, <2>2 DEF Stays, Exists
  <2>3. CASE /\ Admits(channels[c], f, key)
             /\ channels' = [channels EXCEPT ![c] = Admitted(c, f)]
    <3>1. channels'[c] = Admitted(c, f)
      BY <1>1, <2>3
    <3> QED BY <2>1, <2>3, <3>1 DEF Arrives
  <2> QED BY <1>3, <2>1, <2>2, <2>3 DEF Join
<1> QED BY <1>2, <1>3

\* A channel keeps its members, gains one by JOIN, or loses one.
LEMMA ThreeWays ==
  ASSUME IndInv, [Next]_vars, NEW c \in Chan, Exists(c)
  PROVE  Stays(c) \/ Arrives(c) \/ Departs(c)
<1>1. ASSUME UNCHANGED channels PROVE Stays(c)
  BY <1>1 DEF Stays, Exists
<1>2. ASSUME NEW d \in Chan, Exists(d), NEW v, channels' = [channels EXCEPT ![d] = v],
             v # NoChannel, v.members = channels[d].members
      PROVE  Stays(c)
  <2>1. channels \in [Chan -> ChannelType(Fd, Text) \cup {NoChannel}]
    BY DEF IndInv, TypeOK
  <2> QED BY <1>2, <2>1 DEF Stays, Exists
<1>3. CASE UNCHANGED vars
  BY <1>1, <1>3 DEF vars
<1>4. ASSUME NEW g \in Fd, Accept(g) PROVE Stays(c)
  BY <1>1, <1>4 DEF Accept
<1>5. ASSUME NEW g \in Fd, NEW n \in Name, Enter(g, n) \/ PrivMsgUser(g, n) PROVE Stays(c)
  BY <1>1, <1>5 DEF Enter, PrivMsgUser
<1>6. ASSUME NEW g \in Fd, Disconnect(g) PROVE Stays(c) \/ Departs(c)
  <2>1. channels'[c] = IF Member(g, c) THEN Abandoned(channels[c], g) ELSE channels[c]
    BY <1>6 DEF Disconnect
  <2>2. CASE ~ Member(g, c)
    BY <2>1, <2>2 DEF Stays, Exists
  <2>3. CASE Member(g, c)
    BY <2>1, <2>3 DEF Abandoned, Departs, DepartsFrom, Member
  <2> QED BY <2>2, <2>3
<1>7. ASSUME NEW g \in Fd, NEW d \in Chan, UserCommand(g, d)
      PROVE  Stays(c) \/ Arrives(c) \/ Departs(c)
  <2>1. ASSUME NEW key \in Key, Join(g, d, key) PROVE Stays(c) \/ Arrives(c)
    BY <2>1, JoinArrives
  <2>2. CASE Part(g, d)
    BY <2>2, LeaveDeparts DEF Part
  <2>3. ASSUME NEW n \in Name, Kick(g, d, n) PROVE Stays(c) \/ Departs(c)
    BY <2>3, LeaveDeparts DEF Kick
  <2>4. ASSUME NEW n \in Name, Invite(g, d, n) PROVE Stays(c)
    <3> DEFINE v == InviteUser(channels[d], Who[n])
    <3>1. Exists(d) /\ channels' = [channels EXCEPT ![d] = v]
      BY <2>4 DEF Invite, Oper, Member
    <3>2. channels[d] \in ChannelType(Fd, Text) /\ Who[n] \in Fd
      BY <2>4, <3>1, ExistingChannel, WhoIsAUser DEF Invite
    <3>3. v = [channels[d] EXCEPT !.invited = @ \cup {Who[n]}]
      BY DEF InviteUser
    <3>4. v \in ChannelType(Fd, Text) /\ v.members = channels[d].members
      BY <3>2, <3>3 DEF ChannelType
    <3> HIDE DEF v
    <3> QED BY <1>2, <3>1, <3>4, ChannelConstantsAssumption
  <2>5. ASSUME NEW t \in Topic, SetTopic(g, d, t) PROVE Stays(c)
    <3> DEFINE v == [channels[d] EXCEPT !.topic = t]
    <3>1. Exists(d) /\ channels' = [channels EXCEPT ![d] = v]
      BY <2>5 DEF SetTopic, Member
    <3>2. t \in Text \cup {Empty}
      BY ChannelConstantsAssumption
    <3>3. /\ v \in ChannelType(Fd, Text) /\ v.members = channels[d].members
      BY <3>1, <3>2, ExistingChannel DEF ChannelType
    <3> HIDE DEF v
    <3> QED BY <1>2, <3>1, <3>3, ChannelConstantsAssumption
  <2>6. CASE AskTopic(g, d) \/ PrivMsg(g, d) \/ AskMode(g, d)
    BY <1>1, <2>6 DEF AskTopic, PrivMsg, AskMode
  <2>7. ASSUME NEW line \in ModeLine, Mode(g, d, line) PROVE Stays(c)
    <3>1. PICK v : /\ channels' = [channels EXCEPT ![d] = v]
                   /\ v # NoChannel /\ v.members = channels[d].members
      BY <2>7, ModeKeepsMembers
    <3>2. Exists(d)
      BY <2>7 DEF Mode, Oper, Member
    <3> QED BY <1>2, <3>1, <3>2
  <2> QED BY <1>7, <2>1, <2>2, <2>3, <2>4, <2>5, <2>6, <2>7 DEF UserCommand
<1> QED BY <1>3, <1>4, <1>5, <1>6, <1>7 DEF Next

\* A newcomer adds one to the size of the channel.
LEMMA JoinAddsOne ==
  ASSUME IndInv, NEW c \in Chan, Exists(c), NEW f \in Fd, f \notin channels[c].members
  PROVE  /\ Cardinality(channels[c].members) \in Nat
         /\ Cardinality(Admitted(c, f).members) = Cardinality(channels[c].members) + 1
         /\ Admitted(c, f).members = channels[c].members \cup {f}
<1> DEFINE ch == channels[c]
<1>1. /\ ch \in ChannelType(Fd, Text) /\ Consistent(ch)
      /\ ch.members = {ch.joinOrder[i] : i \in DOMAIN ch.joinOrder}
  BY ExistingChannel DEF Consistent, JoinOrderAgrees
<1>2. Admitted(c, f).members = ch.members \cup {f}
  <2>1. Admitted(c, f) = UninviteUser(AddUser(ch, f), f)
    BY DEF Admitted, FoundOrCreated
  <2> QED BY <1>1, <2>1, AddUserAdds
<1>3. IsFiniteSet(ch.members)
  <2> DEFINE n == Len(ch.joinOrder)
  <2>1. n \in Nat /\ DOMAIN ch.joinOrder = 1 .. n
    BY <1>1 DEF ChannelType
  <2>2. IsFiniteSet(1 .. n)
    BY <2>1, FS_Interval
  <2>3. ch.joinOrder \in Surjection(1 .. n, ch.members)
    <3>1. ch.joinOrder \in [1 .. n -> ch.members]
      BY <1>1, <2>1 DEF ChannelType
    <3>2. \A g \in ch.members : \E i \in 1 .. n : ch.joinOrder[i] = g
      BY <1>1, <2>1
    <3> QED BY <3>1, <3>2 DEF Surjection
  <2> QED BY <2>2, <2>3, FS_Surjection
<1>4. Cardinality(ch.members) \in Nat
  BY <1>3, FS_CardinalityType
<1>5. Cardinality(ch.members \cup {f}) = Cardinality(ch.members) + 1
  BY <1>3, FS_AddElement
<1> QED BY <1>2, <1>4, <1>5

\* A newcomer was invited if it had to be, and fits under the limit.
THEOREM AdmissionObeysModesHolds == Spec => AdmissionObeysModes
<1>1. IndInv /\ [Next]_vars => AdmissionIsAllowed
  <2> SUFFICES ASSUME IndInv, [Next]_vars, NEW c \in Chan, NEW f \in Fd,
                      Exists(c), ~ Member(f, c), Member(f, c)'
               PROVE  /\ channels[c].inviteOnly => f \in channels[c].invited
                      /\ channels[c].limit > 0 =>
                           Cardinality(channels'[c].members) <= channels[c].limit
    BY DEF AdmissionIsAllowed
  <2>1. ~ Stays(c)
    BY DEF Stays, Member
  <2>2. ~ Departs(c)
    <3> SUFFICES ASSUME NEW g \in channels[c].members, DepartsFrom(g, c) PROVE FALSE
      BY DEF Departs
    <3>1. channels'[c].members = channels[c].members \ {g}
      BY DepartureIsGood DEF DepartsFrom, Member, Exists
    <3> QED BY <3>1 DEF Member
  <2>3. PICK key \in Key : Admits(channels[c], f, key) /\ channels'[c] = Admitted(c, f)
    <3>1. PICK g \in Fd, key \in Key : /\ g \notin channels[c].members
                                       /\ Admits(channels[c], g, key)
                                       /\ channels'[c] = Admitted(c, g)
      BY <2>1, <2>2, ThreeWays DEF Arrives
    <3>2. channels'[c].members = channels[c].members \cup {g}
      BY <3>1, JoinAddsOne
    <3> QED BY <3>1, <3>2 DEF Member
  <2>4. channels[c].limit > 0 =>
          Cardinality(channels'[c].members) <= channels[c].limit
    <3>1. f \notin channels[c].members /\ channels[c].limit \in Nat
      BY ExistingChannel DEF Member, ChannelType
    <3> QED BY <2>3, <3>1, JoinAddsOne DEF Admits
  <2> QED BY <2>3, <2>4 DEF Admits
<1> QED BY <1>1, InvariantHolds, PTL DEF Spec, AdmissionObeysModes

\* After the last operator is removed, whoever comes first of the others leads.
LEMMA DepartureIsBySeniority ==
  ASSUME IndInv, NEW c \in Chan, Exists(c), NEW f, DepartsFrom(f, c), Exists(c)',
         channels[c].ops \cap channels'[c].members = {}
  PROVE  \E i \in DOMAIN channels[c].joinOrder :
           LET order == channels[c].joinOrder
           IN  /\ order[i] \in channels'[c].members
               /\ \A j \in 1 .. i - 1 : order[j] \notin channels'[c].members
               /\ channels'[c].ops = {order[i]}
<1> DEFINE order == channels[c].joinOrder
           rest  == RemoveUser(channels[c], f)
<1>1. /\ channels[c] \in ChannelType(Fd, Text) /\ Consistent(channels[c])
      /\ f \in channels[c].members
  BY ExistingChannel DEF DepartsFrom
<1>2. /\ rest \in ChannelType(Fd, Text) /\ Consistent(rest)
      /\ rest.members = channels[c].members \ {f}
      /\ rest.ops = channels[c].ops \ {f}
  BY <1>1, RemoveUserRemoves
<1>3. rest.joinOrder = RemoveFromJoinOrder(order, f)
  BY <1>1 DEF RemoveUser, ChannelType
<1>4. rest.members # {} /\ channels'[c] = EnsureOperator(rest)
  BY DEF DepartsFrom, Exists
<1> HIDE DEF rest
<1>5. /\ channels'[c].members = rest.members
      /\ rest.ops # {} => channels'[c].ops = rest.ops
      /\ rest.ops = {} => channels'[c].ops = {rest.joinOrder[1]}
  BY <1>2, <1>4, EnsuredIsSound
<1>6. rest.ops = {}
  BY <1>1, <1>2, <1>5 DEF Consistent
<1>7. channels'[c].ops = {rest.joinOrder[1]}
  BY <1>5, <1>6
<1>8. /\ order \in Seq(Fd) /\ rest.joinOrder \in Seq(Fd)
      /\ 1 \in DOMAIN rest.joinOrder /\ rest.joinOrder[1] \in rest.members
  BY <1>1, <1>2, <1>4 DEF Consistent, JoinOrderAgrees, ChannelType
<1>9. /\ channels[c].members = {order[i] : i \in DOMAIN order}
      /\ \A i, j \in DOMAIN order : order[i] = order[j] => i = j
  BY <1>1 DEF Consistent, JoinOrderAgrees
<1> HIDE DEF order
<1>10. PICK k \in DOMAIN order :
         /\ order[k] = f
         /\ rest.joinOrder = [i \in 1 .. Len(order) - 1 |->
                                IF i < k THEN order[i] ELSE order[i + 1]]
  <2> DEFINE place == CHOOSE i \in DOMAIN order : order[i] = f
  <2>1. \E i \in DOMAIN order : order[i] = f
    BY <1>1, <1>9
  <2>2. place \in DOMAIN order /\ order[place] = f
    BY <2>1
  <2>3. rest.joinOrder = [i \in 1 .. Len(order) - 1 |->
                            IF i < place THEN order[i] ELSE order[i + 1]]
    BY <1>3, <2>1 DEF RemoveFromJoinOrder
  <2> HIDE DEF place
  <2> QED BY <2>2, <2>3
<1>11. CASE k = 1
  <2>1. 2 \in DOMAIN order /\ rest.joinOrder[1] = order[2]
    BY <1>8, <1>10, <1>11
  <2>2. \A j \in 1 .. 2 - 1 : order[j] \notin rest.members
    BY <1>2, <1>10, <1>11
  <2>3. order[2] \in channels'[c].members /\ channels'[c].ops = {order[2]}
    BY <1>5, <1>7, <1>8, <2>1
  <2> QED BY <1>5, <2>1, <2>2, <2>3 DEF order
<1>12. CASE k # 1
  <2>1. 1 \in DOMAIN order /\ rest.joinOrder[1] = order[1]
    BY <1>8, <1>10, <1>12
  <2>2. order[1] \in channels'[c].members /\ channels'[c].ops = {order[1]}
    BY <1>5, <1>7, <1>8, <2>1
  <2> QED BY <2>1, <2>2 DEF order
<1> QED BY <1>11, <1>12

\* When all operators of a channel have left, the senior member succeeds them.
THEOREM OldestSucceedsHolds == Spec => OldestSucceeds
<1>1. IndInv /\ [Next]_vars => SuccessionIsBySeniority
  <2> SUFFICES ASSUME IndInv, [Next]_vars, NEW c \in Chan, Exists(c), Exists(c)',
                      channels[c].ops \cap channels'[c].members = {}
               PROVE  \E i \in DOMAIN channels[c].joinOrder :
                        LET order == channels[c].joinOrder
                        IN  /\ order[i] \in channels'[c].members
                            /\ \A j \in 1 .. i - 1 : order[j] \notin channels'[c].members
                            /\ channels'[c].ops = {order[i]}
    BY DEF SuccessionIsBySeniority
  <2>1. channels[c].ops # {} /\ channels[c].ops \subseteq channels[c].members
    BY ExistingChannel DEF Sound, HasOperator
  <2>2. ~ Stays(c)
    BY <2>1 DEF Stays
  <2>3. ~ Arrives(c)
    BY <2>1, JoinAddsOne DEF Arrives
  <2> QED BY <2>2, <2>3, ThreeWays, DepartureIsBySeniority DEF Departs
<1> QED BY <1>1, InvariantHolds, PTL DEF Spec, OldestSucceeds

=============================================================================
