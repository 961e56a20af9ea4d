-------------------------- MODULE DispatcherProofs ---------------------------
(***************************************************************************)
(* Proofs about the composition.  Seen from Registration, a command of a   *)
(* user is a stutter; seen from ChannelCommands, the handshake is one      *)
(* registration and stutters otherwise, and a refused command is nothing   *)
(* at all.  What is proved of the two parts therefore holds of the whole.  *)
(***************************************************************************)
EXTENDS Dispatcher, RegistrationProofs

\* The commands of users, on a channel, leave the users alone.
LEMMA ChannelEffects ==
  ASSUME NEW f \in Fd, NEW c \in C!Chan, C!UserCommand(f, c)
  PROVE  UNCHANGED <<connected, usersByFd>>
<1>1. ASSUME NEW key, C!Join(f, c, key) PROVE UNCHANGED <<connected, usersByFd>>
  BY <1>1 DEF C!Join, C!users
<1>2. ASSUME NEW g, NEW m, C!Leave(g, c, m) PROVE UNCHANGED <<connected, usersByFd>>
  BY <1>2 DEF C!Leave, C!users
<1>3. CASE C!Part(f, c)
  BY <1>2, <1>3 DEF C!Part
<1>4. ASSUME NEW n, C!Kick(f, c, n) PROVE UNCHANGED <<connected, usersByFd>>
  BY <1>2, <1>4 DEF C!Kick
<1>5. ASSUME NEW n, C!Invite(f, c, n) PROVE UNCHANGED <<connected, usersByFd>>
  BY <1>5 DEF C!Invite, C!users
<1>6. CASE C!AskTopic(f, c) \/ C!PrivMsg(f, c) \/ C!AskMode(f, c)
  BY <1>6 DEF C!AskTopic, C!PrivMsg, C!AskMode, C!users
<1>7. ASSUME NEW t, C!SetTopic(f, c, t) PROVE UNCHANGED <<connected, usersByFd>>
  BY <1>7 DEF C!SetTopic, C!users
<1>8. ASSUME NEW line, C!Mode(f, c, line) PROVE UNCHANGED <<connected, usersByFd>>
  BY <1>8 DEF C!Mode, C!users
<1> QED BY <1>1, <1>3, <1>4, <1>5, <1>6, <1>7, <1>8 DEF C!UserCommand

\* Every command on a channel is a command of ChannelCommands, or is refused.
LEMMA ChannelCommandActs ==
  ASSUME NEW f \in Fd, NEW c \in C!Chan, ChannelCommand(f, c)
  PROVE  \/ UNCHANGED repositories
         \/ C!UserCommand(f, c) /\ UNCHANGED <<state, usersByName, gavePassword>>
<1> DEFINE Acts == \/ UNCHANGED repositories
                   \/ C!UserCommand(f, c) /\ UNCHANGED <<state, usersByName, gavePassword>>
<1> USE DEF Attempt, Refuse
<1>1. ASSUME NEW key \in Key, JoinCommand(f, c, key) PROVE Acts
  BY <1>1 DEF JoinCommand, C!UserCommand
<1>2. CASE PartCommand(f, c)
  BY <1>2 DEF PartCommand, C!UserCommand
<1>3. ASSUME NEW n \in Name, KickCommand(f, c, n) PROVE Acts
  BY <1>3 DEF KickCommand, C!UserCommand
<1>4. ASSUME NEW n \in Name, InviteCommand(f, c, n) PROVE Acts
  BY <1>4 DEF InviteCommand, C!UserCommand
<1>5. CASE AskTopicCommand(f, c)
  BY <1>5 DEF AskTopicCommand, C!UserCommand
<1>6. ASSUME NEW t \in Topic, TopicCommand(f, c, t) PROVE Acts
  BY <1>6 DEF TopicCommand, C!UserCommand
<1>7. CASE PrivMsgCommand(f, c)
  BY <1>7 DEF PrivMsgCommand, C!UserCommand
<1>8. CASE AskModeCommand(f, c) \/ IdleMode(f, c)
  BY <1>8 DEF AskModeCommand, IdleMode, C!UserCommand
<1>9. ASSUME NEW line \in ModeLine, NEW strange, ModeCommand(f, c, line, strange) PROVE Acts
  BY <1>9 DEF ModeCommand, C!UserCommand
<1> QED BY <1>1, <1>2, <1>3, <1>4, <1>5, <1>6, <1>7, <1>8, <1>9 DEF ChannelCommand

\* A line that is neither of the handshake nor a command of a user.
LEMMA OtherLinesChangeNothing ==
  ASSUME NEW f \in Fd,
         Incomplete(f) \/ JoinElsewhere(f) \/ Unknown(f) \/ CapCommand(f) \/ Ping(f)
  PROVE  UNCHANGED repositories
BY DEF Incomplete, JoinElsewhere, Unknown, CapCommand, Ping, Refuse

-----------------------------------------------------------------------------
\* The composition takes steps of Registration only.
LEMMA NextIsRegistration == ServerNext => [Next]_vars
<1> SUFFICES ASSUME NEW f \in Fd, Accept(f) \/ Dispatch(f) \/ Depart(f) PROVE [Next]_vars
  BY DEF ServerNext
<1>1. CASE Accept(f)
  BY <1>1 DEF Accept, Next
<1>2. CASE Depart(f)
  BY <1>2 DEF Depart, Next
<1>3. ASSUME NEW p \in Password, PassCommand(f, p) PROVE [Next]_vars
  BY <1>3 DEF PassCommand, Refuse, repositories, Next
<1>4. ASSUME NEW n \in Name, NickCommand(f, n) PROVE [Next]_vars
  BY <1>4 DEF NickCommand, Next
<1>5. CASE UserCommand(f)
  BY <1>5 DEF UserCommand, Next
<1>6. ASSUME NEW n \in Name, PrivMsgUserCommand(f, n) PROVE [Next]_vars
  BY <1>6 DEF PrivMsgUserCommand, Attempt, Refuse, repositories, vars, C!PrivMsgUser, C!users
<1>7. ASSUME NEW c \in C!Chan, ChannelCommand(f, c) PROVE [Next]_vars
  BY <1>7, ChannelCommandActs, ChannelEffects DEF repositories, vars
<1>8. CASE Incomplete(f) \/ JoinElsewhere(f) \/ Unknown(f) \/ CapCommand(f) \/ Ping(f)
  BY <1>8, OtherLinesChangeNothing DEF repositories
<1> QED BY <1>1, <1>2, <1>3, <1>4, <1>5, <1>6, <1>7, <1>8 DEF Dispatch

\* So the invariant of the handshake holds in the composition.
LEMMA HandshakeInvariant == ServerSpec => []IndInv
<1>1. ServerInit => IndInv
  BY InitIndInv DEF ServerInit
<1>2. IndInv /\ [ServerNext]_serverVars => IndInv'
  <2>1. UNCHANGED serverVars => UNCHANGED vars
    BY DEF serverVars, repositories
  <2> QED BY <2>1, NextIsRegistration, NextKeepsIndInv
<1> QED BY <1>1, <1>2, PTL DEF ServerSpec

\* ClientState and UserRepository agree on who is registered, whatever commands come.
THEOREM ServerKeepsMapsAgree == ServerSpec => [](RegisteredIffUser /\ MapsAgree)
BY HandshakeInvariant, PTL DEF IndInv

-----------------------------------------------------------------------------
\* Settle is the registration of ChannelCommands, or nothing it can see.
LEMMA SettleEnters ==
  ASSUME IndInv, NEW f \in Fd, NEW st, Filled(f, st), Settle(f, st),
         f \in connected, UNCHANGED connected, Introduce(f)
  PROVE  C!Next \/ UNCHANGED C!vars
<1> USE ConstantsAssumption DEF IndInv, TypeOK, Filled
<1>1. CASE UNCHANGED usersByFd
  BY <1>1 DEF Introduce, C!vars
<1>2. CASE Complete(st) /\ MayCreateUser(f, st.nickname)
           /\ usersByFd' = [usersByFd EXCEPT ![f] = st.nickname]
  <2>1. st.nickname \in Name
    BY <1>2 DEF Complete
  <2>2. ~ C!Known(st.nickname)
    BY <1>2, <2>1 DEF MayCreateUser, MapsAgree, C!Known
  <2>3. C!Register(f, st.nickname)
    BY <1>2, <2>2 DEF MayCreateUser, C!Register, C!Registered
  <2>4. UNCHANGED channels /\ sent' = C!Silence
    <3>1. usersByFd'[f] # usersByFd[f]
      BY <1>2, <2>1 DEF MayCreateUser
    <3> QED BY <3>1 DEF Introduce
  <2> QED BY <2>1, <2>3, <2>4 DEF C!Enter, C!Next
<1> QED BY <1>1, <1>2 DEF Settle

\* Every step of the composition is one of ChannelCommands or a stutter.
LEMMA NextIsChannelCommands == IndInv /\ ServerNext => C!Next \/ UNCHANGED C!vars
<1> DEFINE Acts == C!Next \/ UNCHANGED C!vars
<1> SUFFICES ASSUME IndInv, NEW f \in Fd, Accept(f) \/ Dispatch(f) \/ Depart(f) PROVE Acts
  BY DEF ServerNext
<1>1. UNCHANGED repositories => Acts
  BY DEF repositories, vars, C!vars
<1>2. CASE Accept(f)
  BY <1>2 DEF Accept, C!Next
<1>3. CASE Depart(f)
  BY <1>3 DEF Depart, C!Next
<1>4. ASSUME NEW p \in Password, PassCommand(f, p) PROVE Acts
  <2>1. CASE Pass(f, p) /\ Introduce(f)
    BY <2>1, PassFills, SettleEnters DEF Pass
  <2> QED BY <1>1, <1>4, <2>1 DEF PassCommand, Refuse
<1>5. ASSUME NEW n \in Name, NickCommand(f, n) PROVE Acts
  BY <1>5, NickFills, SettleEnters DEF NickCommand, Nick
<1>6. CASE UserCommand(f)
  BY <1>6, UserFills, SettleEnters DEF UserCommand, User
<1>7. ASSUME NEW n \in Name, PrivMsgUserCommand(f, n) PROVE Acts
  BY <1>1, <1>7 DEF PrivMsgUserCommand, Attempt, Refuse, C!Next
<1>8. ASSUME NEW c \in C!Chan, ChannelCommand(f, c) PROVE Acts
  BY <1>1, <1>8, ChannelCommandActs DEF C!Next
<1>9. CASE Incomplete(f) \/ JoinElsewhere(f) \/ Unknown(f) \/ CapCommand(f) \/ Ping(f)
  BY <1>1, <1>9, OtherLinesChangeNothing
<1> QED BY <1>2, <1>3, <1>4, <1>5, <1>6, <1>7, <1>8, <1>9 DEF Dispatch

\* The program, in which any command may come at any time, has the channel
\* commands with one atomic registration that ChannelCommands specifies.
THEOREM ServerImplementsChannelCommands == ServerSpec => ImplementsChannelCommands
<1>1. ServerInit => C!Init
  BY DEF ServerInit
<1>2. IndInv /\ [ServerNext]_serverVars => [C!Next]_(C!vars)
  <2>1. UNCHANGED serverVars => UNCHANGED C!vars
    BY DEF serverVars, repositories, vars, C!vars
  <2> QED BY <2>1, NextIsChannelCommands
<1> QED BY <1>1, <1>2, HandshakeInvariant, PTL
        DEF ServerSpec, ImplementsChannelCommands, C!Spec

-----------------------------------------------------------------------------
(***************************************************************************)
(* The facts of ChannelCommandsProofs, for the maps of the program.  C and *)
(* P are the same module twice, without its proofs and with them; the      *)
(* lemmas Same... say so of one group of definitions after the other.      *)
(***************************************************************************)
P == INSTANCE ChannelCommandsProofs WITH nameOf <- usersByFd

\* The assumptions on the constants, and what is made of constants.
LEMMA SameConstants ==
  /\ P!ChannelConstantsAssumption /\ P!NoNameAssumption
  /\ C!Chan = P!Chan
  /\ \A F, T : C!ChannelType(F, T) = P!ChannelType(F, T)
<1>1. P!ChannelConstantsAssumption /\ P!NoNameAssumption
  BY CommandConstantsAssumption, ConstantsAssumption
     DEF C!ChannelConstantsAssumption, P!ChannelConstantsAssumption, C!Chan, P!Chan,
         C!ModeItem, P!ModeItem, C!ChannelType, P!ChannelType, C!NoNameAssumption,
         P!NoNameAssumption
<1>2. C!Chan = P!Chan
  BY DEF C!Chan, P!Chan
<1>3. \A F, T : C!ChannelType(F, T) = P!ChannelType(F, T)
  BY DEF C!ChannelType, P!ChannelType
<1> QED BY <1>1, <1>2, <1>3

\* What is asked of the users and the channels.
LEMMA SameQueries ==
  /\ C!users = P!users
  /\ C!Registered = P!Registered
  /\ \A c : C!Exists(c) <=> P!Exists(c)
  /\ \A f, c : C!Member(f, c) <=> P!Member(f, c)
  /\ \A f, c : C!Oper(f, c) <=> P!Oper(f, c)
  /\ \A n : C!Known(n) <=> P!Known(n)
  /\ C!Who = P!Who
BY DEF C!users, P!users, C!Registered, P!Registered, C!Exists, P!Exists, C!Member, P!Member,
       C!Oper, P!Oper, C!Known, P!Known, C!Who, P!Who

\* The methods of Channel.
LEMMA SameMethods ==
  /\ C!NewChannel = P!NewChannel
  /\ \A ch : C!InJoinOrder(ch) = P!InJoinOrder(ch)
  /\ \A ch, f : C!AddUser(ch, f) = P!AddUser(ch, f)
  /\ \A ch, f : C!RemoveUser(ch, f) = P!RemoveUser(ch, f)
  /\ \A ch, f : C!AddOperator(ch, f) = P!AddOperator(ch, f)
  /\ \A ch, f : C!InviteUser(ch, f) = P!InviteUser(ch, f)
  /\ \A ch, f : C!UninviteUser(ch, f) = P!UninviteUser(ch, f)
  /\ \A ch : C!Promoted(ch) = P!Promoted(ch)
  /\ \A ch : C!EnsureOperator(ch) = P!EnsureOperator(ch)
BY DEF C!NewChannel, P!NewChannel, C!InJoinOrder, P!InJoinOrder, C!AddUser, P!AddUser,
       C!RemoveUser, P!RemoveUser, C!RemoveFromJoinOrder, P!RemoveFromJoinOrder,
       C!AddOperator, P!AddOperator, C!InviteUser, P!InviteUser,
       C!UninviteUser, P!UninviteUser, C!Promoted, P!Promoted,
       C!EnsureOperator, P!EnsureOperator

\* The messages.
LEMMA SameMessages ==
  /\ \A k, c, w, b : C!Msg(k, c, w, b) = P!Msg(k, c, w, b)
  /\ C!Silence = P!Silence
  /\ \A F, m : C!To(F, m) = P!To(F, m)
  /\ \A a, b : C!++(a, b) = P!++(a, b)
  /\ \A ch, m : C!Broadcast(ch, m) = P!Broadcast(ch, m)
  /\ \A F : C!NamesOf(F) = P!NamesOf(F)
  /\ \A c, ch : C!TopicReply(c, ch) = P!TopicReply(c, ch)
  /\ \A c, ch : C!NamesReply(c, ch) = P!NamesReply(c, ch)
  /\ \A c, ch, f : C!Promotion(c, ch, f) = P!Promotion(c, ch, f)
<1>1. \A k, c, w, b : C!Msg(k, c, w, b) = P!Msg(k, c, w, b)
  BY DEF C!Msg, P!Msg
<1>2. C!Silence = P!Silence
  BY DEF C!Silence, P!Silence
<1>3. \A F, m : C!To(F, m) = P!To(F, m)
  BY DEF C!To, P!To
<1>4. \A a, b : C!++(a, b) = P!++(a, b)
  BY DEF C!++, P!++
<1>5. \A ch, m : C!Broadcast(ch, m) = P!Broadcast(ch, m)
  BY <1>3, SameQueries, SameMethods DEF C!Broadcast, P!Broadcast
<1>6. \A F : C!NamesOf(F) = P!NamesOf(F)
  BY SameQueries DEF C!NamesOf, P!NamesOf
<1>7. \A c, ch : C!TopicReply(c, ch) = P!TopicReply(c, ch)
  BY <1>1 DEF C!TopicReply, P!TopicReply
<1>8. \A c, ch : C!NamesReply(c, ch) = P!NamesReply(c, ch)
  BY <1>1, <1>6, SameMethods DEF C!NamesReply, P!NamesReply
<1>9. \A c, ch, f : C!Promotion(c, ch, f) = P!Promotion(c, ch, f)
  BY <1>1, <1>2, <1>5 DEF C!Promotion, P!Promotion
<1> QED BY <1>1, <1>2, <1>3, <1>4, <1>5, <1>6, <1>7, <1>8, <1>9

\* The algorithm of MODE.
LEMMA SameModes ==
  /\ \A s, T : C!Kept(s, T) = P!Kept(s, T)
  /\ \A ch, line, who : C!Requests(ch, line, who) = P!Requests(ch, line, who)
  /\ \A ch, reqs, who : C!ApplyModes(ch, reqs, who) = P!ApplyModes(ch, reqs, who)
  /\ \A reqs : C!Announced(reqs) = P!Announced(reqs)
  /\ \A ch, line, who : C!Complaints(ch, line, who) = P!Complaints(ch, line, who)
<1>1. \A s, T : C!Kept(s, T) = P!Kept(s, T)
  BY DEF C!Kept, P!Kept, C!FoldLeft, P!FoldLeft, C!MapThenFoldSet, P!MapThenFoldSet, C!Max, P!Max
<1>2. \A item : C!NeedsArg(item) <=> P!NeedsArg(item)
  BY DEF C!NeedsArg, P!NeedsArg
<1>3. \A line, i : C!ArgIndex(line, i) = P!ArgIndex(line, i)
  BY DEF C!ArgIndex, P!ArgIndex, C!NeedsArg, P!NeedsArg, C!Cardinality, P!Cardinality,
         C!IsFiniteSet, P!IsFiniteSet
<1>4. \A line, i : C!HasArg(line, i) <=> P!HasArg(line, i)
  BY <1>2, <1>3 DEF C!HasArg, P!HasArg
<1>5. \A line, i : C!BoundArg(line, i) = P!BoundArg(line, i)
  BY <1>3, <1>4 DEF C!BoundArg, P!BoundArg
<1>6. \A ch, line, who : C!Requests(ch, line, who) = P!Requests(ch, line, who)
  BY <1>5 DEF C!Requests, P!Requests
<1>7. \A r : C!TakesEffect(r) <=> P!TakesEffect(r)
  BY <1>2 DEF C!TakesEffect, P!TakesEffect
<1>8. \A ch, reqs, who : C!ApplyModes(ch, reqs, who) = P!ApplyModes(ch, reqs, who)
  BY DEF C!ApplyModes, P!ApplyModes, C!TakesEffect, P!TakesEffect, C!NeedsArg, P!NeedsArg
<1>9. \A reqs : C!Announced(reqs) = P!Announced(reqs)
  BY <1>1, <1>7 DEF C!Announced, P!Announced, C!Range, P!Range
<1>10. \A ch, line, i, who : C!Complaint(ch, line, i, who) = P!Complaint(ch, line, i, who)
  BY <1>2, <1>4, <1>5 DEF C!Complaint, P!Complaint
<1>11. \A ch, line, who : C!Complaints(ch, line, who) = P!Complaints(ch, line, who)
  BY <1>1, <1>10 DEF C!Complaints, P!Complaints
<1> QED BY <1>1, <1>6, <1>8, <1>9, <1>11
\* JOIN.
LEMMA SameJoin ==
  /\ \A c : C!FoundOrCreated(c) = P!FoundOrCreated(c)
  /\ \A ch, f, key : C!Admits(ch, f, key) <=> P!Admits(ch, f, key)
  /\ \A c, f : C!Admitted(c, f) = P!Admitted(c, f)
  /\ \A f, c, key : C!Join(f, c, key) <=> P!Join(f, c, key)
<1>1. \A c : C!FoundOrCreated(c) = P!FoundOrCreated(c)
  BY DEF C!FoundOrCreated, P!FoundOrCreated, C!Exists, P!Exists, C!NewChannel, P!NewChannel
<1>2. \A ch, f, key : C!Admits(ch, f, key) <=> P!Admits(ch, f, key)
  BY DEF C!Admits, P!Admits, C!Cardinality, P!Cardinality
<1>3. \A c, f : C!Admitted(c, f) = P!Admitted(c, f)
  BY <1>1, SameMethods, SameQueries DEF C!Admitted, P!Admitted
<1>4. \A f, c, key : C!Join(f, c, key) <=> P!Join(f, c, key)
  BY <1>1, <1>2, <1>3, SameQueries, SameMessages DEF C!Join, P!Join, C!users, P!users
<1> QED BY <1>1, <1>2, <1>3, <1>4

\* PART, KICK and the disconnection.
LEMMA SameLeave ==
  /\ \A f, c : C!Part(f, c) <=> P!Part(f, c)
  /\ \A f, c, n : C!Kick(f, c, n) <=> P!Kick(f, c, n)
  /\ \A f : C!Disconnect(f) <=> P!Disconnect(f)
<1>1. \A f, c, m : C!Leave(f, c, m) <=> P!Leave(f, c, m)
  BY SameQueries, SameMethods, SameMessages DEF C!Leave, P!Leave, C!users, P!users
<1>2. \A f, c : C!Part(f, c) <=> P!Part(f, c)
  BY <1>1, SameQueries, SameMessages DEF C!Part, P!Part
<1>3. \A f, c, n : C!Kick(f, c, n) <=> P!Kick(f, c, n)
  BY <1>1, SameQueries, SameMessages DEF C!Kick, P!Kick
<1>4. \A f : C!Disconnect(f) <=> P!Disconnect(f)
  BY DEF C!Disconnect, P!Disconnect, C!Drop, P!Drop, C!Abandoned, P!Abandoned, C!Chan, P!Chan,
         C!Member, P!Member, C!Exists, P!Exists, C!Registered, P!Registered, C!Msg, P!Msg,
         C!RemoveUser, P!RemoveUser, C!RemoveFromJoinOrder, P!RemoveFromJoinOrder,
         C!EnsureOperator, P!EnsureOperator, C!Promoted, P!Promoted, C!Kept, P!Kept,
         C!FoldLeft, P!FoldLeft, C!MapThenFoldSet, P!MapThenFoldSet, C!Max, P!Max
<1> QED BY <1>2, <1>3, <1>4

\* The other commands, and the connections.
LEMMA SameCommands ==
  /\ \A f, c, n : C!Invite(f, c, n) <=> P!Invite(f, c, n)
  /\ \A f, c : C!AskTopic(f, c) <=> P!AskTopic(f, c)
  /\ \A f, c, t : C!SetTopic(f, c, t) <=> P!SetTopic(f, c, t)
  /\ \A f, c : C!PrivMsg(f, c) <=> P!PrivMsg(f, c)
  /\ \A f, n : C!PrivMsgUser(f, n) <=> P!PrivMsgUser(f, n)
  /\ \A f, c : C!AskMode(f, c) <=> P!AskMode(f, c)
  /\ \A f, c, line : C!Mode(f, c, line) <=> P!Mode(f, c, line)
  /\ \A f : C!Accept(f) <=> P!Accept(f)
  /\ \A f, n : C!Enter(f, n) <=> P!Enter(f, n)
<1>1. \A f, c, n : C!Invite(f, c, n) <=> P!Invite(f, c, n)
  BY SameQueries, SameMethods, SameMessages DEF C!Invite, P!Invite, C!users, P!users
<1>2. \A f, c : C!AskTopic(f, c) <=> P!AskTopic(f, c)
  BY SameQueries, SameMessages DEF C!AskTopic, P!AskTopic, C!users, P!users
<1>3. \A f, c, t : C!SetTopic(f, c, t) <=> P!SetTopic(f, c, t)
  BY SameQueries, SameMessages DEF C!SetTopic, P!SetTopic, C!users, P!users
<1>4. \A f, c : C!PrivMsg(f, c) <=> P!PrivMsg(f, c)
  BY SameQueries, SameMethods, SameMessages DEF C!PrivMsg, P!PrivMsg, C!users, P!users
<1>5. \A f, n : C!PrivMsgUser(f, n) <=> P!PrivMsgUser(f, n)
  BY SameQueries, SameMessages DEF C!PrivMsgUser, P!PrivMsgUser, C!users, P!users
<1>6. \A f, c : C!AskMode(f, c) <=> P!AskMode(f, c)
  BY SameQueries, SameMessages DEF C!AskMode, P!AskMode, C!users, P!users
<1>7. \A f, c, line : C!Mode(f, c, line) <=> P!Mode(f, c, line)
  BY SameQueries, SameMethods, SameMessages, SameModes DEF C!Mode, P!Mode, C!users, P!users
<1>8. \A f : C!Accept(f) <=> P!Accept(f)
  BY SameMessages DEF C!Accept, P!Accept, C!Connect, P!Connect
<1>9. \A f, n : C!Enter(f, n) <=> P!Enter(f, n)
  BY SameQueries, SameMessages DEF C!Enter, P!Enter, C!Register, P!Register
<1> QED BY <1>1, <1>2, <1>3, <1>4, <1>5, <1>6, <1>7, <1>8, <1>9

\* The whole specification.
LEMMA SameSpec ==
  /\ C!Init <=> P!Init
  /\ C!Next <=> P!Next
  /\ UNCHANGED C!vars <=> UNCHANGED P!vars
<1>1. C!Init <=> P!Init
  BY SameConstants DEF C!Init, P!Init, C!UsersInit, P!UsersInit
<1>2. \A f, c : C!UserCommand(f, c) <=> P!UserCommand(f, c)
  BY SameJoin, SameLeave, SameCommands DEF C!UserCommand, P!UserCommand
<1>3. C!Next <=> P!Next
  BY <1>2, SameConstants, SameLeave, SameCommands DEF C!Next, P!Next
<1>4. UNCHANGED C!vars <=> UNCHANGED P!vars
  BY DEF C!vars, P!vars
<1> QED BY <1>1, <1>3, <1>4

\* The invariant of the channel commands holds in the composition.
LEMMA ChannelInvariant == ServerSpec => []P!IndInv
<1>1. C!Spec => P!Spec
  BY SameSpec, PTL DEF C!Spec, P!Spec
<1>2. P!Spec => []P!IndInv
  BY P!InvariantHolds, SameConstants
<1> QED BY <1>1, <1>2, ServerImplementsChannelCommands, PTL DEF ImplementsChannelCommands

-----------------------------------------------------------------------------
\* A descriptor that is not open has left nothing behind, but invitations.
THEOREM ClosedLeavesNothingHolds == ServerSpec => []ClosedLeavesNothing
<1>1. IndInv /\ StrangersAreNew /\ P!IndInv => ClosedLeavesNothing
  <2> SUFFICES ASSUME IndInv, StrangersAreNew, P!IndInv, NEW f \in Fd \ connected
               PROVE  /\ state[f] = NewClientState
                      /\ usersByFd[f] = NoName
                      /\ \A n \in Name : usersByName[n] # f
                      /\ \A c \in C!Chan : ~ C!Member(f, c)
    BY DEF ClosedLeavesNothing
  <2>1. f \notin P!Registered
    BY StrangersAreNobody DEF P!Registered
  <2>2. \A c \in P!Chan : ~ P!Member(f, c)
    BY <2>1 DEF P!IndInv, P!MembersAreUsers, P!Member
  <2> QED BY <2>2, StrangersAreNobody, SameConstants, SameQueries DEF StrangersAreNew
<1>2. ServerInit => StrangersAreNew
  BY DEF ServerInit, Init, StrangersAreNew
<1>3. IndInv /\ StrangersAreNew /\ [ServerNext]_serverVars => StrangersAreNew'
  <2>1. UNCHANGED serverVars => UNCHANGED vars
    BY DEF serverVars, repositories
  <2> QED BY <2>1, NextIsRegistration, StrangersStayNew
<1> QED BY <1>1, <1>2, <1>3, HandshakeInvariant, ChannelInvariant, PTL DEF ServerSpec

-----------------------------------------------------------------------------
\* Checks whose errors are among the numerics of ErrorReply.hpp.
CheckType == [holds : BOOLEAN, codes : Seq(ErrorCode)]

\* What a command is refused with is one of its checks' errors, if it is refused.
LEMMA RefusalType ==
  ASSUME NEW checks \in Seq(CheckType)
  PROVE  Refusal(checks) \in Seq(ErrorCode) /\ (Passed(checks) => Refusal(checks) = <<>>)
<1> DEFINE Fails == {i \in DOMAIN checks : ~ checks[i].holds}
           first == CHOOSE i \in DOMAIN checks : /\ ~ checks[i].holds
                                                 /\ \A j \in 1 .. i - 1 : checks[j].holds
<1>1. CASE Passed(checks)
  BY <1>1 DEF Refusal
<1>2. CASE ~ Passed(checks)
  <2>1. Fails \subseteq Nat /\ Fails # {}
    BY <1>2 DEF Passed
  <2>2. PICK m \in Fails : \A k \in Fails : m <= k
    <3> HIDE DEF Fails
    <3> QED BY <2>1, SameConstants, P!SmallestExists
  <2>3. \A j \in 1 .. m - 1 : j \in DOMAIN checks /\ checks[j].holds
    BY <2>2
  <2>4. first \in DOMAIN checks
    BY <2>2, <2>3
  <2>5. Refusal(checks) = checks[first].codes
    BY <1>2 DEF Refusal
  <2> HIDE DEF first
  <2>6. checks[first] \in CheckType
    BY <2>4
  <2> QED BY <1>2, <2>5, <2>6 DEF CheckType
<1> QED BY <1>1, <1>2

\* A check that is a condition, with one error or none.
LEMMA OneCheckType ==
  ASSUME NEW b \in BOOLEAN
  PROVE  Check(b, <<>>) \in CheckType /\ \A code \in ErrorCode : Check(b, <<code>>) \in CheckType
BY DEF Check, CheckType

LEMMA TheErrorCodes ==
  {"401", "403", "421", "441", "442", "443", "451", "461", "462", "464",
   "471", "472", "473", "475", "482", "696"} \subseteq ErrorCode
BY DEF ErrorCode

\* The checks the commands share.
LEMMA SharedChecksType ==
  ASSUME IndInv, NEW f \in Fd, NEW c
  PROVE  /\ FromUser(f) \in Seq(CheckType)
         /\ Speaker(f) \in Seq(CheckType)
         /\ OnChannel(f, c) \in Seq(CheckType)
         /\ AsOperator(f, c) \in Seq(CheckType)
         /\ Unregistered(f) \in CheckType
<1>3. /\ state[f].isRegistered \in BOOLEAN /\ (usersByFd[f] # NoName) \in BOOLEAN
      /\ (~ state[f].isRegistered) \in BOOLEAN
      /\ C!Exists(c) \in BOOLEAN /\ C!Member(f, c) \in BOOLEAN /\ C!Oper(f, c) \in BOOLEAN
  BY DEF IndInv, TypeOK, ClientState, C!Exists, C!Member, C!Oper
<1>4. /\ Check(state[f].isRegistered, <<"451">>) \in CheckType
      /\ Check(usersByFd[f] # NoName, <<>>) \in CheckType
      /\ Check(usersByFd[f] # NoName, <<"451">>) \in CheckType
      /\ Check(C!Exists(c), <<"403">>) \in CheckType
      /\ Check(C!Member(f, c), <<"442">>) \in CheckType
      /\ Check(C!Oper(f, c), <<"482">>) \in CheckType
      /\ Check(~ state[f].isRegistered, <<"462">>) \in CheckType
  BY <1>3, OneCheckType, TheErrorCodes
<1> QED BY <1>4 DEF FromUser, Speaker, OnChannel, AsOperator, Unregistered

\* What the commands on a channel answer is errors.
LEMMA ChannelCommandErrors ==
  ASSUME IndInv, NEW f \in Fd, NEW c \in C!Chan, ChannelCommand(f, c)
  PROVE  \E codes \in Seq(ErrorCode) : Errors(f, codes)
<1> DEFINE Answered == \E codes \in Seq(ErrorCode) : Errors(f, codes)
<1>1. ASSUME NEW checks \in Seq(CheckType), Refuse(f, checks) PROVE Answered
  BY <1>1, RefusalType DEF Refuse
<1>2. <<>> \in Seq(ErrorCode)
  OBVIOUS
<1>3. /\ FromUser(f) \in Seq(CheckType) /\ Speaker(f) \in Seq(CheckType)
      /\ OnChannel(f, c) \in Seq(CheckType) /\ AsOperator(f, c) \in Seq(CheckType)
  BY SharedChecksType
<1>4. C!Exists(c) \in BOOLEAN /\ \A g : C!Member(g, c) \in BOOLEAN /\ (~ C!Member(g, c)) \in BOOLEAN
  BY DEF C!Exists, C!Member
<1>5. /\ Check(~ C!Member(f, c), <<>>) \in CheckType
      /\ Check(FALSE, <<>>) \in CheckType
      /\ Check(C!Exists(c), <<"403">>) \in CheckType
      /\ \A n : /\ Check(FindUser(n) # NoFd, <<"401">>) \in CheckType
                /\ Check(C!Member(FindUser(n), c), <<"441">>) \in CheckType
                /\ Check(~ C!Member(FindUser(n), c), <<"443">>) \in CheckType
  <2>1. \A n : (FindUser(n) # NoFd) \in BOOLEAN
    OBVIOUS
  <2> QED BY <1>4, <2>1, OneCheckType, TheErrorCodes
<1>6. ASSUME NEW key \in Key, JoinCommand(f, c, key) PROVE Answered
  <2>1. Append(FromUser(f), Check(~ C!Member(f, c), <<>>)) \in Seq(CheckType)
    BY <1>3, <1>5
  <2>2. Refusal(Admission(f, c, key)) \in Seq(ErrorCode)
    <3>1. Admission(f, c, key) \in Seq(CheckType)
      <4> DEFINE ch == C!FoundOrCreated(c)
      <4>1. \A b \in BOOLEAN : /\ Check(b, <<"473">>) \in CheckType
                               /\ Check(b, <<"475">>) \in CheckType
                               /\ Check(b, <<"471">>) \in CheckType
        BY OneCheckType, TheErrorCodes
      <4>2. /\ Check(ch.inviteOnly => f \in ch.invited, <<"473">>) \in CheckType
            /\ Check(ch.key # Empty => key = ch.key, <<"475">>) \in CheckType
            /\ Check(ch.limit > 0 => Cardinality(ch.members) < ch.limit, <<"471">>) \in CheckType
        BY <4>1
      <4> QED BY <4>2 DEF Admission
    <3> QED BY <3>1, RefusalType
  <2> QED BY <1>1, <1>6, <2>1, <2>2 DEF JoinCommand, Attempt
<1>7. CASE PartCommand(f, c) \/ AskTopicCommand(f, c) \/ AskModeCommand(f, c)
  <2>1. FromUser(f) \o OnChannel(f, c) \in Seq(CheckType)
    BY <1>3
  <2> QED BY <1>1, <1>2, <1>7, <2>1 DEF PartCommand, AskTopicCommand, AskModeCommand, Attempt
<1>8. ASSUME NEW n \in Name, KickCommand(f, c, n) \/ InviteCommand(f, c, n) PROVE Answered
  <2>1. FromUser(f) \o OnChannel(f, c) \o AsOperator(f, c) \in Seq(CheckType)
    BY <1>3
  <2>2. /\ <<Check(FindUser(n) # NoFd, <<"401">>), Check(C!Member(FindUser(n), c), <<"441">>)>>
             \in Seq(CheckType)
        /\ <<Check(FindUser(n) # NoFd, <<"401">>), Check(~ C!Member(FindUser(n), c), <<"443">>)>>
             \in Seq(CheckType)
    BY <1>5
  <2>3. /\ FromUser(f) \o OnChannel(f, c) \o AsOperator(f, c)
             \o <<Check(FindUser(n) # NoFd, <<"401">>),
                  Check(C!Member(FindUser(n), c), <<"441">>)>> \in Seq(CheckType)
        /\ FromUser(f) \o OnChannel(f, c) \o AsOperator(f, c)
             \o <<Check(FindUser(n) # NoFd, <<"401">>),
                  Check(~ C!Member(FindUser(n), c), <<"443">>)>> \in Seq(CheckType)
    BY <2>1, <2>2
  <2> QED BY <1>1, <1>2, <1>8, <2>3 DEF KickCommand, InviteCommand, Attempt
<1>9. ASSUME NEW t \in Topic, TopicCommand(f, c, t) PROVE Answered
  <2>1. /\ FromUser(f) \o OnChannel(f, c) \o AsOperator(f, c) \in Seq(CheckType)
        /\ FromUser(f) \o OnChannel(f, c) \o <<>> \in Seq(CheckType)
    BY <1>3
  <2> QED BY <1>1, <1>2, <1>9, <2>1 DEF TopicCommand, Attempt
<1>10. CASE PrivMsgCommand(f, c)
  <2>1. Append(Speaker(f), Check(C!Exists(c), <<"403">>)) \in Seq(CheckType)
    BY <1>3, <1>5
  <2> QED BY <1>1, <1>2, <1>10, <2>1 DEF PrivMsgCommand, Attempt
<1>11. CASE IdleMode(f, c)
  <2>1. FromUser(f) \o OnChannel(f, c) \o <<Check(FALSE, <<>>)>> \in Seq(CheckType)
    <3> DEFINE never == Check(FALSE, <<>>)
    <3>1. never \in CheckType
      BY <1>5
    <3> HIDE DEF never
    <3>2. FromUser(f) \o OnChannel(f, c) \o <<never>> \in Seq(CheckType)
      BY <1>3, <3>1
    <3> QED BY <3>2 DEF never
  <2> QED BY <1>1, <1>11, <2>1 DEF IdleMode
<1>12. ASSUME NEW line \in ModeLine, NEW strange \in {<<>>, <<"472">>},
              ModeCommand(f, c, line, strange)
       PROVE  Answered
  <2>1. FromUser(f) \o OnChannel(f, c) \o AsOperator(f, c) \in Seq(CheckType)
    BY <1>3
  <2>2. strange \o C!Complaints(channels[c], line, C!Who) \in Seq(ErrorCode)
    <3>1. line \in P!LineType(Text)
      BY SameConstants DEF P!ChannelConstantsAssumption, P!LineType
    <3>2. C!Complaints(channels[c], line, C!Who) \in Seq({"461", "696", "401", "441"})
      BY <3>1, SameModes, SameConstants, P!ComplaintsType
    <3>3. C!Complaints(channels[c], line, C!Who) \in Seq(ErrorCode)
      BY <3>2 DEF ErrorCode
    <3>4. strange \in Seq(ErrorCode)
      <4>1. \A code \in ErrorCode : <<code>> \in Seq(ErrorCode)
        OBVIOUS
      <4>2. <<"472">> \in Seq(ErrorCode)
        BY <4>1, TheErrorCodes
      <4> QED BY <1>2, <4>2
    <3> QED BY <3>3, <3>4
  <2> QED BY <1>1, <1>12, <2>1, <2>2 DEF ModeCommand, Attempt
<1> QED BY <1>6, <1>7, <1>8, <1>9, <1>10, <1>11, <1>12 DEF ChannelCommand

\* The four ways a line may be answered: with errors, by a command that leaves
\* the users as they are; with the welcome or nothing, by the handshake; with
\* something else or nothing, by a command that does nothing.
LEMMA FourAnswers ==
  ASSUME IndInv, NEW f \in Fd, Dispatch(f)
  PROVE  \/ /\ \E codes \in Seq(ErrorCode) : Errors(f, codes)
            /\ UNCHANGED <<connected, state, usersByName, usersByFd>>
         \/ /\ Welcome(f)
            /\ \E st : Filled(f, st) /\ Settle(f, st)
            /\ UNCHANGED connected
         \/ /\ \E code \in {"CAP LS", "CAP NAK", "PONG"} : Replies(f, <<Reply(code, NoName)>>)
            /\ UNCHANGED repositories
         \/ Replies(f, <<>>) /\ UNCHANGED repositories
<1> DEFINE Failed == /\ \E codes \in Seq(ErrorCode) : Errors(f, codes)
                     /\ UNCHANGED <<connected, state, usersByName, usersByFd>>
           Shook  == /\ Welcome(f)
                     /\ \E st : Filled(f, st) /\ Settle(f, st)
                     /\ UNCHANGED connected
<1>1. ASSUME NEW checks \in Seq(CheckType), Refuse(f, checks) PROVE Failed
  BY <1>1, RefusalType DEF Refuse, repositories, vars
<1>2. \A b \in BOOLEAN :
        /\ Check(b, <<>>) \in CheckType
        /\ Check(b, <<"401">>) \in CheckType /\ Check(b, <<"403">>) \in CheckType
        /\ Check(b, <<"421">>) \in CheckType /\ Check(b, <<"461">>) \in CheckType
        /\ Check(b, <<"464">>) \in CheckType
  BY OneCheckType, TheErrorCodes
<1>3. /\ FromUser(f) \in Seq(CheckType) /\ Speaker(f) \in Seq(CheckType)
      /\ Unregistered(f) \in CheckType
  BY SharedChecksType
<1>4. ASSUME NEW p \in Password, PassCommand(f, p) PROVE Failed \/ Shook
  <2>1. CASE Pass(f, p) /\ Welcome(f)
    BY <2>1, PassFills DEF Pass
  <2>2. <<Unregistered(f), Check(p = ServerPassword, <<"464">>)>> \in Seq(CheckType)
    <3>1. Check(p = ServerPassword, <<"464">>) \in CheckType
      BY <1>2
    <3> QED BY <1>3, <3>1
  <2> QED BY <1>1, <1>4, <2>1, <2>2 DEF PassCommand
<1>5. ASSUME NEW n \in Name, NickCommand(f, n) PROVE Shook
  BY <1>5, NickFills DEF NickCommand, Nick
<1>6. CASE UserCommand(f)
  BY <1>6, UserFills DEF UserCommand, User
<1>7. ASSUME NEW n \in Name, PrivMsgUserCommand(f, n) PROVE Failed
  <2>1. Append(Speaker(f), Check(FindUser(n) # NoFd, <<"401">>)) \in Seq(CheckType)
    <3>1. Check(FindUser(n) # NoFd, <<"401">>) \in CheckType
      BY <1>2
    <3> QED BY <1>3, <3>1
  <2>2. <<>> \in Seq(ErrorCode)
    OBVIOUS
  <2>3. CASE Refuse(f, Append(Speaker(f), Check(FindUser(n) # NoFd, <<"401">>)))
    BY <1>1, <2>1, <2>3
  <2>4. CASE /\ C!PrivMsgUser(f, n) /\ Errors(f, <<>>)
             /\ UNCHANGED <<state, usersByName, gavePassword>>
    BY <2>2, <2>4 DEF C!PrivMsgUser, C!users
  <2> QED BY <1>7, <2>3, <2>4 DEF PrivMsgUserCommand, Attempt
<1>8. ASSUME NEW c \in C!Chan, ChannelCommand(f, c) PROVE Failed
  <2>1. UNCHANGED <<connected, state, usersByName, usersByFd>>
    BY <1>8, ChannelCommandActs, ChannelEffects DEF repositories, vars
  <2> QED BY <1>8, <2>1, ChannelCommandErrors
<1>9. \A check \in CheckType :
        /\ <<check>> \in Seq(CheckType)
        /\ \A checks \in Seq(CheckType) : Append(checks, check) \in Seq(CheckType)
  OBVIOUS
<1>10. CASE Incomplete(f)
  <2> DEFINE short == Check(FALSE, <<"461">>)
  <2>1. short \in CheckType
    BY <1>2
  <2>2. \A checks \in {FromUser(f), <<Unregistered(f)>>, <<>>} : checks \in Seq(CheckType)
    <3>1. <<Unregistered(f)>> \in Seq(CheckType)
      BY <1>3, <1>9
    <3>2. <<>> \in Seq(CheckType)
      OBVIOUS
    <3> QED BY <1>3, <3>1, <3>2
  <2>3. PICK checks \in {FromUser(f), <<Unregistered(f)>>, <<>>} : Refuse(f, Append(checks, short))
    BY <1>10 DEF Incomplete
  <2> HIDE DEF short
  <2> QED BY <1>1, <1>9, <2>1, <2>2, <2>3
<1>11. CASE JoinElsewhere(f) \/ Unknown(f)
  <2> DEFINE elsewhere == Check(FALSE, <<"403">>)
             unknown   == Check(FALSE, <<"421">>)
             empty     == Check(FALSE, <<>>)
  <2>1. elsewhere \in CheckType /\ unknown \in CheckType /\ empty \in CheckType
    BY <1>2
  <2>2. \/ Refuse(f, Append(FromUser(f), elsewhere))
        \/ Refuse(f, <<unknown>>)
        \/ Refuse(f, <<empty>>)
    BY <1>11 DEF JoinElsewhere, Unknown
  <2> HIDE DEF elsewhere, unknown, empty
  <2> QED BY <1>1, <1>3, <1>9, <2>1, <2>2
<1>12. CASE CapCommand(f) \/ Ping(f)
  BY <1>12 DEF CapCommand, Ping
<1> QED BY <1>4, <1>5, <1>6, <1>7, <1>8, <1>10, <1>11, <1>12 DEF Dispatch

\* Replies are what they should be, whatever is sent when.
THEOREM ServerTypeOKHolds == ServerSpec => []ServerTypeOK
<1> DEFINE WireOK == \A f \in Fd : \A i \in DOMAIN wire[f] :
                       wire[f][i].code \in ReplyCode /\ wire[f][i].to \in Name \cup {NoName}
<1>1. ServerInit => WireOK
  BY DEF ServerInit
<1>2. IndInv /\ IndInv' /\ WireOK /\ [ServerNext]_serverVars => WireOK'
  <2> SUFFICES ASSUME IndInv, IndInv', WireOK, [ServerNext]_serverVars PROVE WireOK'
    OBVIOUS
  <2>1. CASE UNCHANGED serverVars
    BY <2>1 DEF serverVars
  <2>2. ASSUME NEW f \in Fd, NEW lines, Replies(f, lines),
               \A i \in DOMAIN lines : lines[i].code \in ReplyCode
                                      /\ lines[i].to \in Name \cup {NoName}
        PROVE  WireOK'
    BY <2>2 DEF Replies
  <2>3. ASSUME NEW f \in Fd, Replies(f, <<>>) PROVE WireOK'
    BY <2>2, <2>3
  <2>4. ASSUME NEW f \in Fd, NEW code \in ReplyCode, NEW name \in Name \cup {NoName},
               Replies(f, <<Reply(code, name)>>)
        PROVE  WireOK'
    <3> DEFINE lines == <<Reply(code, name)>>
    <3>1. \A i \in DOMAIN lines : lines[i].code = code /\ lines[i].to = name
      BY DEF Reply
    <3>2. Replies(f, lines)
      BY <2>4
    <3> HIDE DEF lines, WireOK
    <3> QED BY <2>2, <3>1, <3>2
  <2>5. ASSUME NEW f \in Fd, NEW codes \in Seq(ErrorCode), Errors(f, codes) PROVE WireOK'
    <3> DEFINE lines == [i \in DOMAIN codes |-> Reply(codes[i], Target(f))]
    <3>1. Target(f) \in Name \cup {NoName}
      BY DEF Target, IndInv, TypeOK, ClientState
    <3>2. \A i \in DOMAIN lines : lines[i].code \in ErrorCode /\ lines[i].to = Target(f)
      BY DEF Reply
    <3>3. Replies(f, lines)
      BY <2>5 DEF Errors
    <3> HIDE DEF lines, WireOK
    <3> QED BY <2>2, <3>1, <3>2, <3>3 DEF ReplyCode
  <2>6. ASSUME NEW f \in Fd, Welcome(f) PROVE WireOK'
    <3>1. "001" \in ReplyCode /\ state'[f].nickname \in Name \cup {NoName}
      BY DEF ReplyCode, IndInv, TypeOK, ClientState
    <3> HIDE DEF WireOK
    <3> QED BY <2>3, <2>4, <2>6, <3>1 DEF Welcome
  <2>7. ASSUME NEW f \in Fd, NEW code \in {"CAP LS", "CAP NAK", "PONG"},
               Replies(f, <<Reply(code, NoName)>>)
        PROVE  WireOK'
    <3>1. code \in ReplyCode
      BY DEF ReplyCode
    <3> HIDE DEF WireOK
    <3> QED BY <2>4, <2>7, <3>1
  <2> HIDE DEF WireOK
  <2>8. ASSUME NEW f \in Fd, Accept(f) \/ Depart(f) PROVE WireOK'
    BY <2>3, <2>8 DEF Accept, Depart
  <2>9. ASSUME NEW f \in Fd, Dispatch(f) PROVE WireOK'
    BY <2>3, <2>5, <2>6, <2>7, <2>9, FourAnswers
  <2> QED BY <2>1, <2>8, <2>9 DEF ServerNext
<1>3. IndInv /\ P!IndInv /\ WireOK => ServerTypeOK
  <2>1. P!IndInv => C!TypeOK
    BY SameConstants DEF P!IndInv, P!TypeOK, C!TypeOK, P!UsersTypeOK, C!UsersTypeOK
  <2> QED BY <2>1 DEF ServerTypeOK, IndInv
<1> HIDE DEF WireOK
<1> QED BY <1>1, <1>2, <1>3, HandshakeInvariant, ChannelInvariant, PTL DEF ServerSpec

-----------------------------------------------------------------------------
\* What one reply sends.
LEMMA OneReply ==
  ASSUME NEW code, NEW name
  PROVE  \A i \in DOMAIN <<Reply(code, name)>> : <<Reply(code, name)>>[i].code = code
BY DEF Reply

\* Who is welcomed has just become a user, and the other way round.
LEMMA WelcomesNewUsers ==
  ASSUME IndInv, NEW f \in Fd, NEW st, Filled(f, st), Settle(f, st), Welcome(f)
  PROVE  WelcomeIsRegistration
<1> SUFFICES ASSUME NEW g \in Fd, NEW n \in Name
             PROVE  (\E i \in DOMAIN wire'[g] : wire'[g][i] = Reply("001", n))
                      <=> usersByFd[g] = NoName /\ usersByFd'[g] = n /\ usersByName'[n] = g
  BY DEF WelcomeIsRegistration
<1> USE ConstantsAssumption DEF IndInv, TypeOK, Filled
<1>1. CASE g # f
  <2>1. wire'[g] = <<>>
    BY <1>1 DEF Welcome, Replies
  <2>2. usersByFd'[g] = usersByFd[g]
    BY <1>1 DEF Settle
  <2> QED BY <2>1, <2>2
<1>2. CASE g = f /\ UNCHANGED usersByFd
  <2>1. state'[f].isRegistered = state[f].isRegistered
    BY <1>2, ConstantsAssumption DEF Settle, Complete, MayCreateUser, RegisteredIffUser, ClientState
  <2>2. wire'[f] = <<>>
    BY <2>1 DEF Welcome, Replies
  <2> QED BY <1>2, <2>2
<1>3. CASE /\ g = f /\ Complete(st) /\ MayCreateUser(f, st.nickname)
           /\ state' = [state EXCEPT ![f] = [st EXCEPT !.isRegistered = TRUE]]
           /\ usersByName' = [usersByName EXCEPT ![st.nickname] = f]
           /\ usersByFd' = [usersByFd EXCEPT ![f] = st.nickname]
  <2>1. ~ state[f].isRegistered /\ state'[f].isRegistered /\ state'[f].nickname = st.nickname
    BY <1>3 DEF Complete, ClientState
  <2>2. wire'[f] = <<Reply("001", st.nickname)>>
    BY <2>1 DEF Welcome, Replies
  <2>3. (\E i \in DOMAIN wire'[f] : wire'[f][i] = Reply("001", n)) <=> st.nickname = n
    <3>1. Reply("001", st.nickname) = Reply("001", n) <=> st.nickname = n
      BY DEF Reply
    <3> QED BY <2>2, <3>1
  <2>4. st.nickname \in Name /\ usersByFd[f] = NoName
    BY <1>3 DEF Complete, MayCreateUser
  <2> QED BY <1>3, <2>3, <2>4
<1> QED BY <1>1, <1>2, <1>3 DEF Settle

\* No other answer is a welcome.
LEMMA OthersAreNotWelcomed ==
  ASSUME IndInv, NEW f \in Fd, NEW lines, Replies(f, lines),
         \A i \in DOMAIN lines : lines[i].code # "001",
         \A g \in Fd : usersByFd'[g] \in {usersByFd[g], NoName}
  PROVE  WelcomeIsRegistration
<1> SUFFICES ASSUME NEW g \in Fd, NEW n \in Name
             PROVE  /\ ~ \E i \in DOMAIN wire'[g] : wire'[g][i] = Reply("001", n)
                    /\ ~ (usersByFd[g] = NoName /\ usersByFd'[g] = n)
  BY DEF WelcomeIsRegistration
<1>1. wire'[g] = IF g = f THEN lines ELSE <<>>
  BY DEF Replies
<1>2. Reply("001", n).code = "001"
  BY DEF Reply
<1> QED BY <1>1, <1>2, ConstantsAssumption

\* 001 is sent in exactly the step that makes its receiver a user.
THEOREM WelcomedOnRegistrationHolds == ServerSpec => WelcomedOnRegistration
<1>1. IndInv /\ ServerNext => WelcomeIsRegistration
  <2> SUFFICES ASSUME IndInv, NEW f \in Fd, Accept(f) \/ Dispatch(f) \/ Depart(f)
               PROVE  WelcomeIsRegistration
    BY DEF ServerNext
  <2>1. ASSUME Replies(f, <<>>), \A g \in Fd : usersByFd'[g] \in {usersByFd[g], NoName}
        PROVE  WelcomeIsRegistration
    BY <2>1, OthersAreNotWelcomed
  <2>2. CASE Accept(f)
    BY <2>1, <2>2 DEF Accept, Connect
  <2>3. CASE Depart(f)
    BY <2>1, <2>3 DEF Depart, Disconnect, RemoveUserByFd, IndInv, TypeOK
  <2>4. ASSUME NEW codes \in Seq(ErrorCode), Errors(f, codes), UNCHANGED usersByFd
        PROVE  WelcomeIsRegistration
    <3> DEFINE lines == [i \in DOMAIN codes |-> Reply(codes[i], Target(f))]
    <3>1. \A i \in DOMAIN lines : lines[i].code # "001"
      <4>1. "001" \notin ErrorCode
        BY DEF ErrorCode
      <4> QED BY <4>1 DEF Reply
    <3>2. Replies(f, lines)
      BY <2>4 DEF Errors
    <3> HIDE DEF lines
    <3> QED BY <2>4, <3>1, <3>2, OthersAreNotWelcomed
  <2>5. ASSUME NEW code \in {"CAP LS", "CAP NAK", "PONG"},
               Replies(f, <<Reply(code, NoName)>>), UNCHANGED usersByFd
        PROVE  WelcomeIsRegistration
    <3> DEFINE lines == <<Reply(code, NoName)>>
    <3>1. \A i \in DOMAIN lines : lines[i].code # "001"
      <4>1. \A i \in DOMAIN lines : lines[i].code = code
        BY OneReply
      <4>2. code # "001"
        OBVIOUS
      <4> HIDE DEF lines
      <4> QED BY <4>1, <4>2
    <3>2. Replies(f, lines)
      BY <2>5
    <3> HIDE DEF lines
    <3> QED BY <2>5, <3>1, <3>2, OthersAreNotWelcomed
  <2>6. UNCHANGED repositories => UNCHANGED usersByFd
    BY DEF repositories, vars
  <2>7. CASE Dispatch(f)
    BY <2>1, <2>4, <2>5, <2>6, <2>7, FourAnswers, WelcomesNewUsers
  <2> QED BY <2>2, <2>3, <2>7
<1> QED BY <1>1, HandshakeInvariant, PTL DEF ServerSpec, WelcomedOnRegistration

-----------------------------------------------------------------------------
\* What the two maps of UserRepository lead to is the user of that name.
LEMMA FindUserFinds ==
  ASSUME IndInv, NEW n \in Name
  PROVE  /\ FindUser(n) \in Fd => usersByFd[FindUser(n)] = n
         /\ \A f \in Fd : usersByFd[f] = n => FindUser(n) = f
         /\ (\A f \in Fd : usersByFd[f] # n) => FindUser(n) = NoFd
BY ConstantsAssumption DEF FindUser, IndInv, TypeOK, MapsAgree

\* KICK, INVITE and PRIVMSG act on the user they name.
THEOREM LookupFindsTheUserHolds == ServerSpec => []LookupFindsTheUser
<1>1. IndInv => LookupFindsTheUser
  <2> SUFFICES ASSUME IndInv, NEW n \in Name PROVE FindUser(n) = C!Who[n]
    BY DEF LookupFindsTheUser
  <2>1. n \in Text
    BY CommandConstantsAssumption DEF C!ChannelConstantsAssumption
  <2>2. C!Who[n] = IF C!Known(n) THEN CHOOSE f \in Fd : usersByFd[f] = n ELSE NoFd
    BY <2>1 DEF C!Who
  <2>3. CASE C!Known(n)
    <3>1. (CHOOSE f \in Fd : usersByFd[f] = n) \in {f \in Fd : usersByFd[f] = n}
      BY <2>3 DEF C!Known
    <3> QED BY <2>2, <2>3, <3>1, FindUserFinds
  <2>4. CASE ~ C!Known(n)
    BY <2>2, <2>4, FindUserFinds DEF C!Known
  <2> QED BY <2>3, <2>4
<1> QED BY <1>1, HandshakeInvariant, PTL

-----------------------------------------------------------------------------
\* Every command on a channel is answered with errors, or not at all.
LEMMA ChannelCommandAnswers ==
  ASSUME NEW f \in Fd, NEW c \in C!Chan, ChannelCommand(f, c)
  PROVE  \E codes : Errors(f, codes)
BY DEF ChannelCommand, JoinCommand, PartCommand, KickCommand, InviteCommand,
       AskTopicCommand, TopicCommand, PrivMsgCommand, AskModeCommand, IdleMode,
       ModeCommand, Attempt, Refuse

\* Errors name their receiver as the repository does.
LEMMA ErrorsNameTheUser ==
  ASSUME IndInv, IndInv', NEW f \in Fd, NEW codes, Errors(f, codes), UNCHANGED usersByFd
  PROVE  RepliesNameTheUser'
<1> SUFFICES ASSUME NEW g \in Fd, usersByFd'[g] # NoName, NEW i \in DOMAIN wire'[g]
             PROVE  FindUser(wire[g][i].to)' = g
  BY DEF RepliesNameTheUser, C!Registered
<1>1. g = f /\ wire'[f] = [j \in DOMAIN codes |-> Reply(codes[j], Target(f))]
  BY DEF Errors, Replies
<1>2. wire'[g][i].to = usersByFd'[g] /\ usersByFd'[g] \in Name
  BY <1>1 DEF Reply, Target, IndInv, TypeOK
<1>3. usersByName'[usersByFd'[g]] = g
  BY DEF IndInv, MapsAgree
<1> QED BY <1>2, <1>3, ConstantsAssumption DEF FindUser

\* What is no error need not name anybody.
LEMMA NoErrorsNameTheUser ==
  ASSUME NEW f \in Fd, NEW lines, Replies(f, lines), \A i \in DOMAIN lines : ~ IsError(lines[i])
  PROVE  RepliesNameTheUser'
<1> SUFFICES ASSUME NEW g \in Fd, NEW i \in DOMAIN wire'[g]
             PROVE  ~ IsError(wire'[g][i])
  BY DEF RepliesNameTheUser, C!Registered, IsError
<1>1. wire'[g] = IF g = f THEN lines ELSE <<>>
  BY DEF Replies
<1> QED BY <1>1

\* A reply that is no error is none the property is about.
LEMMA OtherReplyNamesTheUser ==
  ASSUME NEW f \in Fd, NEW code, NEW name, code \notin ErrorCode,
         Replies(f, <<Reply(code, name)>>)
  PROVE  RepliesNameTheUser'
<1> DEFINE lines == <<Reply(code, name)>>
<1>1. \A i \in DOMAIN lines : lines[i].code = code
  BY DEF Reply
<1>2. Replies(f, lines)
  OBVIOUS
<1> HIDE DEF lines
<1> QED BY <1>1, <1>2, NoErrorsNameTheUser DEF IsError

\* Nor is the welcome of a new user.
LEMMA WelcomeIsNoError ==
  ASSUME NEW f \in Fd, Welcome(f)
  PROVE  RepliesNameTheUser'
<1>1. CASE Replies(f, <<Reply("001", state'[f].nickname)>>)
  <2>1. "001" \notin ErrorCode
    BY DEF ErrorCode
  <2> QED BY <1>1, <2>1, OtherReplyNamesTheUser
<1>2. CASE Replies(f, <<>>)
  BY <1>2, NoErrorsNameTheUser
<1> QED BY <1>1, <1>2 DEF Welcome

\* An error is addressed to its receiver by the name others find it under.
THEOREM RepliesNameTheUserHolds == ServerSpec => []RepliesNameTheUser
<1>1. ServerInit => RepliesNameTheUser
  BY DEF ServerInit, RepliesNameTheUser, C!Registered
<1>2. IndInv /\ IndInv' /\ RepliesNameTheUser /\ [ServerNext]_serverVars => RepliesNameTheUser'
  <2> SUFFICES ASSUME IndInv, IndInv', RepliesNameTheUser, [ServerNext]_serverVars
               PROVE  RepliesNameTheUser'
    OBVIOUS
  <2>1. CASE UNCHANGED serverVars
    BY <2>1 DEF serverVars, repositories, vars, RepliesNameTheUser, C!Registered, FindUser, IsError
  <2>2. ASSUME NEW f \in Fd, Accept(f) \/ Depart(f) PROVE RepliesNameTheUser'
    BY <2>2, NoErrorsNameTheUser DEF Accept, Depart
  <2>3. ASSUME NEW f \in Fd, NEW codes, Errors(f, codes), UNCHANGED usersByFd
        PROVE  RepliesNameTheUser'
    BY <2>3, ErrorsNameTheUser
  <2>4. ASSUME NEW f \in Fd, NEW checks, Refuse(f, checks) PROVE RepliesNameTheUser'
    BY <2>3, <2>4 DEF Refuse, repositories, vars
  <2>5. ASSUME NEW f \in Fd, NEW p \in Password, PassCommand(f, p) PROVE RepliesNameTheUser'
    BY <2>4, <2>5, WelcomeIsNoError DEF PassCommand
  <2>6. ASSUME NEW f \in Fd, NEW n \in Name, NickCommand(f, n) PROVE RepliesNameTheUser'
    BY <2>6, WelcomeIsNoError DEF NickCommand
  <2>7. ASSUME NEW f \in Fd, UserCommand(f) PROVE RepliesNameTheUser'
    BY <2>7, WelcomeIsNoError DEF UserCommand
  <2>8. ASSUME NEW f \in Fd, NEW n \in Name, PrivMsgUserCommand(f, n)
        PROVE  RepliesNameTheUser'
    BY <2>3, <2>4, <2>8 DEF PrivMsgUserCommand, Attempt, C!PrivMsgUser, C!users
  <2>9. ASSUME NEW f \in Fd, NEW c \in C!Chan, ChannelCommand(f, c) PROVE RepliesNameTheUser'
    <3>1. UNCHANGED usersByFd
      BY <2>9, ChannelCommandActs, ChannelEffects DEF repositories, vars
    <3> QED BY <2>3, <2>9, <3>1, ChannelCommandAnswers
  <2>10. ASSUME NEW f \in Fd, Incomplete(f) \/ JoinElsewhere(f) \/ Unknown(f)
         PROVE  RepliesNameTheUser'
    BY <2>4, <2>10 DEF Incomplete, JoinElsewhere, Unknown
  <2>11. ASSUME NEW f \in Fd, NEW code \in {"CAP LS", "CAP NAK", "PONG"},
                Replies(f, <<Reply(code, NoName)>>)
         PROVE  RepliesNameTheUser'
    BY <2>11, OtherReplyNamesTheUser DEF ErrorCode
  <2>12. ASSUME NEW f \in Fd, Replies(f, <<>>) PROVE RepliesNameTheUser'
    BY <2>12, NoErrorsNameTheUser
  <2>13. ASSUME NEW f \in Fd, CapCommand(f) \/ Ping(f) PROVE RepliesNameTheUser'
    BY <2>11, <2>12, <2>13 DEF CapCommand, Ping
  <2> QED BY <2>1, <2>2, <2>5, <2>6, <2>7, <2>8, <2>9, <2>10, <2>13
      DEF ServerNext, Dispatch
<1> QED BY <1>1, <1>2, HandshakeInvariant, PTL DEF ServerSpec

-----------------------------------------------------------------------------
\* A step that sends no error, and one that leaves the repositories alone.
LEMMA SilenceIsHarmless ==
  ASSUME NEW f \in Fd, NEW lines, Replies(f, lines), \A i \in DOMAIN lines : ~ IsError(lines[i])
  PROVE  RefusalIsHarmless
<1> SUFFICES ASSUME NEW g \in Fd, NEW i \in DOMAIN wire'[g]
             PROVE  ~ IsError(wire'[g][i])
  BY DEF RefusalIsHarmless
<1>1. wire'[g] = IF g = f THEN lines ELSE <<>>
  BY DEF Replies
<1> QED BY <1>1

\* A command that sends no error refuses nothing.
LEMMA NoErrorsAreHarmless ==
  ASSUME NEW f \in Fd, Errors(f, <<>>)
  PROVE  RefusalIsHarmless
<1> DEFINE lines == [i \in DOMAIN <<>> |-> Reply(<<>>[i], Target(f))]
<1>1. Replies(f, lines)
  BY DEF Errors
<1>2. \A i \in DOMAIN lines : ~ IsError(lines[i])
  OBVIOUS
<1> HIDE DEF lines
<1> QED BY <1>1, <1>2, SilenceIsHarmless

\* Nor does the welcome.
LEMMA WelcomeIsHarmless ==
  ASSUME NEW f \in Fd, Welcome(f)
  PROVE  RefusalIsHarmless
<1>1. PICK lines \in {<<>>, <<Reply("001", state'[f].nickname)>>} : Replies(f, lines)
  BY DEF Welcome
<1>2. \A i \in DOMAIN lines : lines[i] = Reply("001", state'[f].nickname)
  BY <1>1
<1>3. ~ IsError(Reply("001", state'[f].nickname))
  BY DEF IsError, ErrorCode, Reply
<1> QED BY <1>1, <1>2, <1>3, SilenceIsHarmless

\* A command that leaves the repositories alone may refuse anything.
LEMMA UnchangedIsHarmless ==
  ASSUME UNCHANGED repositories
  PROVE  RefusalIsHarmless
BY DEF repositories, vars, RefusalIsHarmless

\* JOIN creates no channel for somebody it then refuses.
LEMMA JoinIsHarmless ==
  ASSUME P!TypeOK, NEW f \in Fd, NEW c \in C!Chan, NEW key, JoinCommand(f, c, key)
  PROVE  RefusalIsHarmless
<1> DEFINE checks == Admission(f, c, key)
<1>1. CASE Refuse(f, Append(FromUser(f), Check(~ C!Member(f, c), <<>>)))
  BY <1>1, UnchangedIsHarmless DEF Refuse
<1>2. ASSUME C!Join(f, c, key), Errors(f, Refusal(checks)),
             UNCHANGED <<state, usersByName, gavePassword>>
      PROVE  RefusalIsHarmless
  <2>1. C!Admits(C!FoundOrCreated(c), f, key) => Passed(checks)
    <3> DEFINE ch == C!FoundOrCreated(c)
    <3>1. \A S : C!Cardinality(S) = Cardinality(S)
      BY DEF C!Cardinality, Cardinality
    <3>2. C!Admits(ch, f, key) =>
            /\ ch.inviteOnly => f \in ch.invited
            /\ ch.key # Empty => key = ch.key
            /\ ch.limit > 0 => Cardinality(ch.members) < ch.limit
      BY <3>1 DEF C!Admits
    <3>3. checks = <<Check(ch.inviteOnly => f \in ch.invited, <<"473">>),
                     Check(ch.key # Empty => key = ch.key, <<"475">>),
                     Check(ch.limit > 0 => Cardinality(ch.members) < ch.limit, <<"471">>)>>
      BY DEF Admission
    <3> HIDE DEF ch, checks
    <3>4. ASSUME C!Admits(ch, f, key), NEW i \in DOMAIN checks PROVE checks[i].holds
      <4>1. i \in 1 .. 3
        BY <3>3
      <4>2. /\ checks[1].holds <=> (ch.inviteOnly => f \in ch.invited)
            /\ checks[2].holds <=> (ch.key # Empty => key = ch.key)
            /\ checks[3].holds <=> (ch.limit > 0 => Cardinality(ch.members) < ch.limit)
        BY <3>3 DEF Check
      <4> QED BY <3>2, <3>4, <4>1, <4>2
    <3> QED BY <3>4 DEF Passed, ch
  <2>2. CASE C!Admits(C!FoundOrCreated(c), f, key)
    <3>1. Refusal(checks) = <<>>
      BY <2>1, <2>2 DEF Refusal
    <3> HIDE DEF checks
    <3> QED BY <1>2, <3>1, NoErrorsAreHarmless
  <2>3. CASE ~ C!Admits(C!FoundOrCreated(c), f, key)
    <3>1. C!Exists(c)
      BY <2>3 DEF C!Admits, C!FoundOrCreated, C!NewChannel
    <3>2. channels' = [channels EXCEPT ![c] = channels[c]] /\ UNCHANGED C!users
      BY <1>2, <2>3, <3>1 DEF C!Join, C!FoundOrCreated
    <3>3. UNCHANGED channels
      BY <3>2 DEF P!TypeOK
    <3> QED BY <1>2, <3>2, <3>3 DEF RefusalIsHarmless, C!users
  <2> QED BY <2>2, <2>3
<1> QED BY <1>1, <1>2 DEF JoinCommand, Attempt

\* MODE, by an operator, keeps everybody where he is.
LEMMA ModeIsHarmless ==
  ASSUME P!IndInv, NEW f \in Fd, NEW c \in C!Chan, NEW line \in ModeLine, NEW strange,
         ModeCommand(f, c, line, strange)
  PROVE  RefusalIsHarmless
<1>1. CASE Refuse(f, FromUser(f) \o OnChannel(f, c) \o AsOperator(f, c))
  BY <1>1, UnchangedIsHarmless DEF Refuse
<1>2. ASSUME NEW codes, C!Mode(f, c, line), Errors(f, codes),
             UNCHANGED <<state, usersByName, gavePassword>>
      PROVE  RefusalIsHarmless
  <2>1. P!Mode(f, c, line) /\ c \in P!Chan /\ P!ChannelConstantsAssumption /\ P!NoNameAssumption
    BY <1>2, SameCommands, SameConstants
  <2>2. PICK v : /\ channels' = [channels EXCEPT ![c] = v] /\ UNCHANGED P!users
                 /\ v # NoChannel /\ v.members = channels[c].members
    BY <2>1, P!ModeKeepsMembers
  <2>3. channels'[c] = v
    BY <2>1, <2>2 DEF P!IndInv, P!TypeOK
  <2>4. C!Oper(f, c) /\ C!Exists(c)'
    BY <1>2, <2>2, <2>3 DEF C!Mode, C!Exists
  <2>5. /\ channels' = [channels EXCEPT ![c] = channels'[c]]
        /\ channels'[c].members = channels[c].members
    BY <2>2, <2>3
  <2>6. \A g \in Fd : g # f => wire'[g] = <<>>
    BY <1>2 DEF Errors, Replies
  <2>7. UNCHANGED <<state, usersByName, usersByFd>>
    BY <1>2, <2>2 DEF P!users
  <2> QED BY <2>4, <2>5, <2>6, <2>7 DEF RefusalIsHarmless
<1> QED BY <1>1, <1>2 DEF ModeCommand, Attempt

\* The other commands answer with an error or do what they are for.
LEMMA ChannelCommandIsHarmless ==
  ASSUME P!IndInv, NEW f \in Fd, NEW c \in C!Chan, ChannelCommand(f, c)
  PROVE  RefusalIsHarmless
<1>1. ASSUME NEW checks, Refuse(f, checks) PROVE RefusalIsHarmless
  BY <1>1, UnchangedIsHarmless DEF Refuse
<1>2. ASSUME NEW key \in Key, JoinCommand(f, c, key) PROVE RefusalIsHarmless
  BY <1>2, JoinIsHarmless DEF P!IndInv
<1>3. CASE PartCommand(f, c) \/ AskTopicCommand(f, c) \/ PrivMsgCommand(f, c) \/ AskModeCommand(f, c)
  BY <1>1, <1>3, NoErrorsAreHarmless
     DEF PartCommand, AskTopicCommand, PrivMsgCommand, AskModeCommand, Attempt
<1>4. ASSUME NEW n \in Name, KickCommand(f, c, n) \/ InviteCommand(f, c, n)
      PROVE  RefusalIsHarmless
  BY <1>1, <1>4, NoErrorsAreHarmless DEF KickCommand, InviteCommand, Attempt
<1>5. ASSUME NEW t \in Topic, TopicCommand(f, c, t) PROVE RefusalIsHarmless
  BY <1>1, <1>5, NoErrorsAreHarmless DEF TopicCommand, Attempt
<1>6. CASE IdleMode(f, c)
  BY <1>1, <1>6 DEF IdleMode
<1>7. ASSUME NEW line \in ModeLine, NEW strange, ModeCommand(f, c, line, strange)
      PROVE  RefusalIsHarmless
  BY <1>7, ModeIsHarmless
<1> QED BY <1>2, <1>3, <1>4, <1>5, <1>6, <1>7 DEF ChannelCommand

\* A command that is answered with errors has changed nothing, MODE apart.
THEOREM ErrorsChangeNothingHolds == ServerSpec => ErrorsChangeNothing
<1>1. P!IndInv /\ ServerNext => RefusalIsHarmless
  <2> SUFFICES ASSUME P!IndInv, NEW f \in Fd, Accept(f) \/ Dispatch(f) \/ Depart(f)
               PROVE  RefusalIsHarmless
    BY DEF ServerNext
  <2>1. ASSUME Replies(f, <<>>) PROVE RefusalIsHarmless
    BY <2>1, SilenceIsHarmless
  <2>2. ASSUME NEW checks, Refuse(f, checks) PROVE RefusalIsHarmless
    BY <2>2, UnchangedIsHarmless DEF Refuse
  <2>3. CASE Accept(f) \/ Depart(f)
    BY <2>1, <2>3 DEF Accept, Depart
  <2>4. ASSUME NEW p \in Password, PassCommand(f, p) PROVE RefusalIsHarmless
    BY <2>2, <2>4, WelcomeIsHarmless DEF PassCommand
  <2>5. CASE UserCommand(f) \/ \E n \in Name : NickCommand(f, n)
    BY <2>5, WelcomeIsHarmless DEF NickCommand, UserCommand
  <2>6. ASSUME NEW n \in Name, PrivMsgUserCommand(f, n) PROVE RefusalIsHarmless
    BY <2>2, <2>6, NoErrorsAreHarmless DEF PrivMsgUserCommand, Attempt
  <2>7. CASE Incomplete(f) \/ JoinElsewhere(f) \/ Unknown(f) \/ CapCommand(f) \/ Ping(f)
    BY <2>2, <2>7, UnchangedIsHarmless DEF Incomplete, JoinElsewhere, Unknown, CapCommand, Ping
  <2> QED BY <2>3, <2>4, <2>5, <2>6, <2>7, ChannelCommandIsHarmless DEF Dispatch
<1> QED BY <1>1, ChannelInvariant, PTL DEF ServerSpec, ErrorsChangeNothing

=============================================================================
