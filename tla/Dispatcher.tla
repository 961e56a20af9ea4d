----------------------------- MODULE Dispatcher ------------------------------
(***************************************************************************)
(* Dispatcher::dispatch and the commands behind it, on the repositories    *)
(* they share.  Registration has the handshake and ChannelCommands what    *)
(* the commands of users do; this module joins them, as the program does:  *)
(* every command first goes through its checks, in their order, and        *)
(* answers with an error at the first that fails.  The checks read the     *)
(* ClientState and both maps of UserRepository.                            *)
(*                                                                         *)
(* A command writes replies for its sender (ReplyCollector, which ends up  *)
(* in Connection.outBuffer) and messages for anybody (User.outbox).  wire  *)
(* has the replies to the last command and sent the messages of the last   *)
(* step that had an effect.                                                *)
(***************************************************************************)
EXTENDS Registration, Sequences

CONSTANTS Empty, ChanOrder, NoChannel, Text, Key, Topic, ModeLine, LimitOf

VARIABLES channels,   \* ChannelRepository::channelsByName
          sent,       \* what the last step enqueued for each client
          wire        \* DispatchResult.wire of the last command, by its sender

C == INSTANCE ChannelCommands WITH nameOf <- usersByFd

ASSUME CommandConstantsAssumption == C!ChannelConstantsAssumption

repositories == <<vars, channels, sent>>
serverVars   == <<repositories, wire>>

\* The numerics of ErrorReply.hpp that some command sends, and the other replies.
ErrorCode == {"401", "403", "421", "441", "442", "443", "451", "461", "462", "464",
              "471", "472", "473", "475", "482", "696"}
ReplyCode == ErrorCode \cup {"001", "CAP LS", "CAP NAK", "PONG"}

ServerTypeOK ==
  /\ TypeOK
  /\ C!TypeOK
  /\ \A f \in Fd : \A i \in DOMAIN wire[f] :
       wire[f][i].code \in ReplyCode /\ wire[f][i].to \in Name \cup {NoName}

ServerInit ==
  /\ Init
  /\ C!Init
  /\ wire = [f \in Fd |-> <<>>]

-----------------------------------------------------------------------------
(* Replies and checks.                                                     *)

\* Mutant: the nickname goes first.
TargetMutant(f) ==
  IF state[f].nickname # NoName THEN state[f].nickname ELSE usersByFd[f]

\* resolveReplyTarget: the user's name, else the nickname, else "*" (NoName).
Target(f) == IF usersByFd[f] # NoName THEN usersByFd[f] ELSE state[f].nickname

Reply(code, name) == [code |-> code, to |-> name]

Replies(f, lines) == wire' = [g \in Fd |-> IF g = f THEN lines ELSE <<>>]

\* The sender is told of the errors in codes.
Errors(f, codes) == Replies(f, [i \in DOMAIN codes |-> Reply(codes[i], Target(f))])

\* A check, with the errors for whoever fails it.
Check(holds, codes) == [holds |-> holds, codes |-> codes]
Passed(checks)      == \A i \in DOMAIN checks : checks[i].holds
Refusal(checks)     ==
  IF Passed(checks) THEN <<>>
  ELSE checks[CHOOSE i \in DOMAIN checks :
                /\ ~ checks[i].holds
                /\ \A j \in 1 .. i - 1 : checks[j].holds].codes

Refuse(f, checks) ==
  /\ ~ Passed(checks)
  /\ Errors(f, Refusal(checks))
  /\ UNCHANGED repositories

\* The command of a user: it passes its checks and does what it is for, with
\* the errors in codes, or it is refused.
Attempt(f, checks, codes, Effect) ==
  \/ Refuse(f, checks)
  \/ /\ Passed(checks)
     /\ Effect
     /\ Errors(f, codes)
     /\ UNCHANGED <<state, usersByName, gavePassword>>

\* requireRegistered, and the silent return of a sender without a user.
FromUser(f) ==
  <<Check(state[f].isRegistered, <<"451">>), Check(usersByFd[f] # NoName, <<>>)>>

\* requireChannelExists and requireMembership.
OnChannel(f, c) ==
  <<Check(C!Exists(c), <<"403">>), Check(C!Member(f, c), <<"442">>)>>

\* requireOperator.
AsOperator(f, c) == <<Check(C!Oper(f, c), <<"482">>)>>

\* findUserByUsername: from the name to a descriptor, from there to the user.
FindUser(n) ==
  LET g == usersByName[n]
  IN  IF g # NoFd /\ usersByFd[g] # NoName THEN g ELSE NoFd

-----------------------------------------------------------------------------
(* The handshake.                                                          *)

\* What a new user means for the others: nothing is enqueued.
Introduce(f) ==
  /\ UNCHANGED channels
  /\ sent' = IF usersByFd' = usersByFd THEN sent ELSE C!Silence

\* Mutant: a registered client that changes its nickname is welcomed again.
WelcomeMutant(f) ==
  Replies(f, IF state'[f].isRegistered THEN <<Reply("001", state'[f].nickname)>> ELSE <<>>)

\* Mutant: the welcome is addressed to the descriptor.
WelcomeTypeMutant(f) ==
  Replies(f, IF ~ state[f].isRegistered /\ state'[f].isRegistered
             THEN <<Reply("001", f)>> ELSE <<>>)

\* 001, from the command that completed the handshake.
Welcome(f) ==
  Replies(f, IF ~ state[f].isRegistered /\ state'[f].isRegistered
             THEN <<Reply("001", state'[f].nickname)>> ELSE <<>>)

Unregistered(f) == Check(~ state[f].isRegistered, <<"462">>)

PassCommand(f, p) ==
  \/ Refuse(f, <<Unregistered(f), Check(p = ServerPassword, <<"464">>)>>)
  \/ Pass(f, p) /\ Introduce(f) /\ Welcome(f)

NickCommand(f, n) == Nick(f, n) /\ Introduce(f) /\ Welcome(f)

UserCommand(f) == User(f) /\ Introduce(f) /\ Welcome(f)

-----------------------------------------------------------------------------
(* The commands of users.                                                  *)

\* The three checks of JOIN by which an existing channel refuses a newcomer.
Admission(f, c, key) ==
  LET ch == C!FoundOrCreated(c)
  IN  <<Check(ch.inviteOnly => f \in ch.invited, <<"473">>),
        Check(ch.key # Empty => key = ch.key, <<"475">>),
        Check(ch.limit > 0 => Cardinality(ch.members) < ch.limit, <<"471">>)>>

\* A member is not answered at all.
JoinCommand(f, c, key) ==
  Attempt(f, Append(FromUser(f), Check(~ C!Member(f, c), <<>>)),
          Refusal(Admission(f, c, key)), C!Join(f, c, key))

PartCommand(f, c) == Attempt(f, FromUser(f) \o OnChannel(f, c), <<>>, C!Part(f, c))

KickCommand(f, c, n) ==
  Attempt(f, FromUser(f) \o OnChannel(f, c) \o AsOperator(f, c)
             \o <<Check(FindUser(n) # NoFd, <<"401">>),
                  Check(C!Member(FindUser(n), c), <<"441">>)>>,
          <<>>, C!Kick(f, c, n))

InviteCommand(f, c, n) ==
  Attempt(f, FromUser(f) \o OnChannel(f, c) \o AsOperator(f, c)
             \o <<Check(FindUser(n) # NoFd, <<"401">>),
                  Check(~ C!Member(FindUser(n), c), <<"443">>)>>,
          <<>>, C!Invite(f, c, n))

AskTopicCommand(f, c) == Attempt(f, FromUser(f) \o OnChannel(f, c), <<>>, C!AskTopic(f, c))

TopicCommand(f, c, t) ==
  LET locked == C!Exists(c) /\ channels[c].topicLock
  IN  Attempt(f, FromUser(f) \o OnChannel(f, c) \o (IF locked THEN AsOperator(f, c) ELSE <<>>),
              <<>>, C!SetTopic(f, c, t))

\* PRIVMSG answers 451 also to a sender without a user.
Speaker(f) ==
  <<Check(state[f].isRegistered, <<"451">>), Check(usersByFd[f] # NoName, <<"451">>)>>

PrivMsgCommand(f, c) ==
  Attempt(f, Append(Speaker(f), Check(C!Exists(c), <<"403">>)), <<>>, C!PrivMsg(f, c))

PrivMsgUserCommand(f, n) ==
  Attempt(f, Append(Speaker(f), Check(FindUser(n) # NoFd, <<"401">>)), <<>>,
          C!PrivMsgUser(f, n))

AskModeCommand(f, c) == Attempt(f, FromUser(f) \o OnChannel(f, c), <<>>, C!AskMode(f, c))

\* A second parameter without a sign is not looked at.
IdleMode(f, c) == Refuse(f, FromUser(f) \o OnChannel(f, c) \o <<Check(FALSE, <<>>)>>)

\* strange are the errors for letters that are no modes, which come first.
ModeCommand(f, c, line, strange) ==
  Attempt(f, FromUser(f) \o OnChannel(f, c) \o AsOperator(f, c),
          strange \o C!Complaints(channels[c], line, C!Who), C!Mode(f, c, line))

-----------------------------------------------------------------------------
(* Everything else a line may be.                                          *)

\* Too few parameters: for a command of users, for PASS, for NICK and USER.
Incomplete(f) ==
  \E checks \in {FromUser(f), <<Unregistered(f)>>, <<>>} :
    Refuse(f, Append(checks, Check(FALSE, <<"461">>)))

\* JOIN for a name that does not begin with '#'.
JoinElsewhere(f) == Refuse(f, Append(FromUser(f), Check(FALSE, <<"403">>)))

\* A word that is no command, and a line without any.
Unknown(f) == \E codes \in {<<"421">>, <<>>} : Refuse(f, <<Check(FALSE, codes)>>)

\* CAP and PING are answered to anybody and addressed to nobody; CAP END and
\* the like are not answered.
CapCommand(f) ==
  /\ \E lines \in {<<>>, <<Reply("CAP LS", NoName)>>, <<Reply("CAP NAK", NoName)>>} :
       Replies(f, lines)
  /\ UNCHANGED repositories

Ping(f) == Replies(f, <<Reply("PONG", NoName)>>) /\ UNCHANGED repositories

ChannelCommand(f, c) ==
  \/ \E key \in Key : JoinCommand(f, c, key)
  \/ PartCommand(f, c)
  \/ \E n \in Name : KickCommand(f, c, n) \/ InviteCommand(f, c, n)
  \/ AskTopicCommand(f, c)
  \/ \E t \in Topic : TopicCommand(f, c, t)
  \/ PrivMsgCommand(f, c)
  \/ AskModeCommand(f, c) \/ IdleMode(f, c)
  \/ \E line \in ModeLine : \E strange \in {<<>>, <<"472">>} : ModeCommand(f, c, line, strange)

\* Dispatcher::dispatch: one line from a connected client.
Dispatch(f) ==
  /\ f \in connected
  /\ \/ \E p \in Password : PassCommand(f, p)
     \/ \E n \in Name : NickCommand(f, n) \/ PrivMsgUserCommand(f, n)
     \/ UserCommand(f)
     \/ \E c \in C!Chan : ChannelCommand(f, c)
     \/ Incomplete(f) \/ JoinElsewhere(f) \/ Unknown(f) \/ CapCommand(f) \/ Ping(f)

Accept(f) == Connect(f) /\ C!Accept(f) /\ Replies(f, <<>>)

\* Server::disconnect, on all repositories.
Depart(f) == Disconnect(f) /\ C!Disconnect(f) /\ Replies(f, <<>>)

ServerNext == \E f \in Fd : Accept(f) \/ Dispatch(f) \/ Depart(f)

ServerSpec == ServerInit /\ [][ServerNext]_serverVars

-----------------------------------------------------------------------------
(***************************************************************************)
(* The handshake and the checks together implement ChannelCommands: what   *)
(* is proved there of channels and users holds for the program, in which   *)
(* a client may send any command at any time of its handshake.             *)
(***************************************************************************)
ImplementsChannelCommands == C!Spec

IsError(r) == r.code \in ErrorCode

(***************************************************************************)
(* A command that is answered with errors has changed nothing, with the    *)
(* one exception of MODE, which carries out the letters it can.  For JOIN, *)
(* which creates the channel before it looks at its modes, this is because *)
(* a new channel refuses nobody.                                           *)
(***************************************************************************)
RefusalIsHarmless ==
  \A f \in Fd :
    (\E i \in DOMAIN wire'[f] : IsError(wire'[f][i])) /\ UNCHANGED connected =>
      \/ UNCHANGED <<state, usersByName, usersByFd, channels>>
      \/ /\ UNCHANGED <<state, usersByName, usersByFd>>
         /\ \E c \in C!Chan :
              /\ C!Oper(f, c)
              /\ channels' = [channels EXCEPT ![c] = channels'[c]]
              /\ C!Exists(c)' /\ channels'[c].members = channels[c].members

ErrorsChangeNothing == [][RefusalIsHarmless]_serverVars

(***************************************************************************)
(* 001 is sent in exactly the step that makes its receiver a user, and     *)
(* tells it the name others find it by; PASS, NICK and USER test for it in *)
(* different ways, and NICK may come again at any time.                    *)
(***************************************************************************)
WelcomeIsRegistration ==
  \A f \in Fd : \A n \in Name :
    (\E i \in DOMAIN wire'[f] : wire'[f][i] = Reply("001", n)) <=>
      usersByFd[f] = NoName /\ usersByFd'[f] = n /\ usersByName'[n] = f

WelcomedOnRegistration == [][WelcomeIsRegistration]_serverVars

(***************************************************************************)
(* Whatever nicknames it has asked for since, a user is addressed by the   *)
(* name under which the repository finds it.                               *)
(***************************************************************************)
RepliesNameTheUser ==
  \A f \in C!Registered : \A i \in DOMAIN wire[f] :
    IsError(wire[f][i]) => FindUser(wire[f][i].to) = f

(***************************************************************************)
(* A descriptor that is not open has left nothing behind in any of the     *)
(* repositories (but invitations), so its next client starts afresh.       *)
(***************************************************************************)
ClosedLeavesNothing ==
  \A f \in Fd \ connected :
    /\ state[f] = NewClientState
    /\ usersByFd[f] = NoName
    /\ \A n \in Name : usersByName[n] # f
    /\ \A c \in C!Chan : ~ C!Member(f, c)

(***************************************************************************)
(* findUserByUsername goes through both maps and reaches the user whose    *)
(* name others see, and nobody under any other nickname: KICK, INVITE and  *)
(* PRIVMSG act on the user they name, after any renaming, clash or reuse   *)
(* of a descriptor.                                                        *)
(***************************************************************************)
LookupFindsTheUser == \A n \in Name : FindUser(n) = C!Who[n]

=============================================================================
