--------------------------- MODULE ChannelCommands ---------------------------
(***************************************************************************)
(* The commands of registered users on the shared channels (src/commands), *)
(* and what a disconnection does to them (Server::disconnect).  A command  *)
(* runs to its end before the next one starts, so each is one action.  Its *)
(* guards are the command's checks; a command that fails one of them only  *)
(* answers its sender and is not a step.                                   *)
(*                                                                         *)
(* Messages for clients go to User.outbox, in the order they are enqueued. *)
(* sent holds what the last step appended to each outbox.  The outbox of a *)
(* client that leaves is destroyed with its User.                          *)
(***************************************************************************)
EXTENDS Users, ModeCommand

CONSTANTS ChanOrder,  \* the channel names, in the order of the map channelsByName
          NoChannel,  \* channelsByName has no such entry
          Text,       \* nonempty texts: keys, topics, names and numbers
          Key, Topic, \* those clients send as JOIN keys and as topics
          ModeLine    \* the letters and arguments of the MODE lines clients send

Chan == {ChanOrder[i] : i \in DOMAIN ChanOrder}

ASSUME ChannelConstantsAssumption ==
  /\ NoFd \notin Fd
  /\ Empty \notin Text
  /\ Name \subseteq Text
  /\ Key \cup Topic \subseteq Text \cup {Empty}
  /\ ChanOrder \in Seq(Chan)
  /\ LimitOf \in [Text -> Nat]
  /\ NoChannel \notin ChannelType(Fd, Text)
  /\ ModeLine \subseteq [items : Seq(ModeItem), args : Seq(Text \cup {Empty})]

VARIABLES channels,   \* ChannelRepository::channelsByName
          sent        \* what the last step enqueued for each client

vars == <<connected, nameOf, channels, sent>>

TypeOK ==
  /\ UsersTypeOK
  /\ channels \in [Chan -> ChannelType(Fd, Text) \cup {NoChannel}]

Init ==
  /\ UsersInit
  /\ channels = [c \in Chan |-> NoChannel]
  /\ sent = [f \in Fd |-> <<>>]

Exists(c)    == channels[c] # NoChannel
Member(f, c) == Exists(c) /\ f \in channels[c].members
Oper(f, c)   == Member(f, c) /\ f \in channels[c].ops

\* findUserByUsername on any text.
Who == [t \in Text |-> IF t \in Name /\ Known(t) THEN CHOOSE f \in Fd : nameOf[f] = t
                       ELSE NoFd]

-----------------------------------------------------------------------------
(* Messages.                                                               *)

Msg(kind, c, who, body) == [kind |-> kind, chan |-> c, who |-> who, body |-> body]

Silence  == [f \in Fd |-> <<>>]
To(F, m) == [f \in Fd |-> IF f \in F THEN <<m>> ELSE <<>>]
a ++ b   == [f \in Fd |-> a[f] \o b[f]]

\* broadcastToChannel: to the members that have a user.
Broadcast(ch, m) == To(InJoinOrder(ch) \cap Registered, m)

NamesOf(F) == {nameOf[f] : f \in F \cap Registered}

\* replyTopicAndNames: 331 or 332, 353 and 366, the last of which says nothing.
TopicReply(c, ch) == Msg("topic", c, NoName, ch.topic)
NamesReply(c, ch) ==
  Msg("names", c, NoName, [members |-> NamesOf(InJoinOrder(ch)),
                           ops |-> NamesOf(InJoinOrder(ch) \cap ch.ops)])

\* Mutant: the newest member is named.
PromotionMutant(c, ch, f) ==
  IF f = NoFd THEN Silence
  ELSE Broadcast(ch, Msg("mode", c, NoName,
                         <<[sign |-> "+", mode |-> "o",
                            arg |-> nameOf[ch.joinOrder[Len(ch.joinOrder)]]]>>))

\* The server's own ":server MODE #c +o name" after a promotion.
Promotion(c, ch, f) ==
  IF f = NoFd THEN Silence
  ELSE Broadcast(ch, Msg("mode", c, NoName,
                         <<[sign |-> "+", mode |-> "o", arg |-> nameOf[f]]>>))

-----------------------------------------------------------------------------
(* JOIN                                                                    *)

\* Mutant: one too many.
AdmitsMutant(ch, f, key) ==
  /\ ch.inviteOnly => f \in ch.invited
  /\ ch.key # Empty => key = ch.key
  /\ ch.limit > 0 => Cardinality(ch.members) <= ch.limit

\* The checks of +i, +k and +l.
Admits(ch, f, key) ==
  /\ ch.inviteOnly => f \in ch.invited
  /\ ch.key # Empty => key = ch.key
  /\ ch.limit > 0 => Cardinality(ch.members) < ch.limit

\* The channel JOIN works on, which it creates when there is none.
FoundOrCreated(c) == IF Exists(c) THEN channels[c] ELSE NewChannel

\* Mutant: whoever joins becomes operator.
AdmittedMutant(c, f) ==
  AddOperator(UninviteUser(AddUser(FoundOrCreated(c), f), f), f)

Admitted(c, f) ==
  LET in == UninviteUser(AddUser(FoundOrCreated(c), f), f)
  IN  IF Exists(c) THEN in ELSE AddOperator(in, f)

Join(f, c, key) ==
  /\ f \in Registered
  /\ ~ Member(f, c)
  /\ LET ch == Admitted(c, f)
     IN  \/ /\ Admits(FoundOrCreated(c), f, key)
            /\ channels' = [channels EXCEPT ![c] = ch]
            /\ sent' = Broadcast(ch, Msg("join", c, nameOf[f], Empty))
                       ++ To({f}, TopicReply(c, ch)) ++ To({f}, NamesReply(c, ch))
         \/ /\ ~ Admits(FoundOrCreated(c), f, key)
            /\ channels' = [channels EXCEPT ![c] = FoundOrCreated(c)]
            /\ sent' = Silence
  /\ UNCHANGED users

-----------------------------------------------------------------------------
(* PART and KICK                                                           *)

\* Mutant: remove first, tell afterwards.
LeaveMutant(f, c, notice) ==
  LET rest == RemoveUser(channels[c], f)
      next == EnsureOperator(rest)
  IN  /\ channels' = [channels EXCEPT ![c] = IF rest.members = {} THEN NoChannel ELSE next]
      /\ sent' = Broadcast(rest, notice)
                 ++ (IF rest.members = {} THEN Silence
                     ELSE Promotion(c, next, Promoted(rest)))
      /\ UNCHANGED users

\* Mutant: the promotion is told to those who were there before.
LeaveStrayMutant(f, c, notice) ==
  LET rest == RemoveUser(channels[c], f)
      next == EnsureOperator(rest)
  IN  /\ channels' = [channels EXCEPT ![c] = IF rest.members = {} THEN NoChannel ELSE next]
      /\ sent' = Broadcast(channels[c], notice)
                 ++ (IF rest.members = {} THEN Silence
                     ELSE Promotion(c, channels[c], Promoted(rest)))
      /\ UNCHANGED users

\* Their common tail: tell everybody, remove f, then close the channel or see
\* to it that it has an operator.
Leave(f, c, notice) ==
  LET rest == RemoveUser(channels[c], f)
      next == EnsureOperator(rest)
  IN  /\ channels' = [channels EXCEPT ![c] = IF rest.members = {} THEN NoChannel ELSE next]
      /\ sent' = Broadcast(channels[c], notice)
                 ++ (IF rest.members = {} THEN Silence
                     ELSE Promotion(c, next, Promoted(rest)))
      /\ UNCHANGED users

Part(f, c) ==
  /\ f \in Registered
  /\ Member(f, c)
  /\ Leave(f, c, Msg("part", c, nameOf[f], Empty))

Kick(f, c, n) ==
  /\ f \in Registered
  /\ Oper(f, c)
  /\ Known(n)
  /\ Member(Who[n], c)
  /\ Leave(Who[n], c, Msg("kick", c, n, Empty))

-----------------------------------------------------------------------------
(* INVITE, TOPIC, PRIVMSG                                                  *)

\* Mutant: nobody checks that the nickname is somebody's.
InviteMutant(f, c, n) ==
  /\ f \in Registered
  /\ Oper(f, c)
  /\ ~ Member(Who[n], c)
  /\ channels' = [channels EXCEPT ![c] = InviteUser(@, Who[n])]
  /\ sent' = To({Who[n]}, Msg("invite", c, nameOf[f], Empty))
             ++ To({f}, Msg("341", c, n, Empty))
  /\ UNCHANGED users

Invite(f, c, n) ==
  /\ f \in Registered
  /\ Oper(f, c)
  /\ Known(n)
  /\ ~ Member(Who[n], c)
  /\ channels' = [channels EXCEPT ![c] = InviteUser(@, Who[n])]
  /\ sent' = To({Who[n]}, Msg("invite", c, nameOf[f], Empty))
             ++ To({f}, Msg("341", c, n, Empty))
  /\ UNCHANGED users

\* TOPIC without a text, and the MODE query, only answer.
AskTopic(f, c) ==
  /\ f \in Registered
  /\ Member(f, c)
  /\ sent' = To({f}, TopicReply(c, channels[c]))
  /\ UNCHANGED <<users, channels>>

SetTopic(f, c, t) ==
  /\ f \in Registered
  /\ Member(f, c)
  /\ channels[c].topicLock => Oper(f, c)
  /\ channels' = [channels EXCEPT ![c].topic = t]
  /\ sent' = Broadcast(channels[c], Msg("topic", c, nameOf[f], t))
  /\ UNCHANGED users

\* Mutant: every user gets what is said on a channel.
PrivMsgMutant(f, c) ==
  /\ f \in Registered
  /\ Exists(c)
  /\ sent' = To(Registered \ {f}, Msg("privmsg", c, nameOf[f], Empty))
  /\ UNCHANGED <<users, channels>>

\* PRIVMSG to a channel asks for no membership of the sender.
PrivMsg(f, c) ==
  /\ f \in Registered
  /\ Exists(c)
  /\ sent' = To((InJoinOrder(channels[c]) \cap Registered) \ {f},
                Msg("privmsg", c, nameOf[f], Empty))
  /\ UNCHANGED <<users, channels>>

PrivMsgUser(f, n) ==
  /\ f \in Registered
  /\ Known(n)
  /\ sent' = To({Who[n]}, Msg("privmsg", NoChannel, nameOf[f], Empty))
  /\ UNCHANGED <<users, channels>>

-----------------------------------------------------------------------------
(* MODE                                                                    *)

AskMode(f, c) ==
  /\ f \in Registered
  /\ Member(f, c)
  /\ LET ch == channels[c]
     IN  sent' = To({f}, Msg("324", c, NoName,
                             [inviteOnly |-> ch.inviteOnly, topicLock |-> ch.topicLock,
                              key |-> ch.key, limit |-> ch.limit]))
  /\ UNCHANGED <<users, channels>>

Mode(f, c, line) ==
  /\ f \in Registered
  /\ Oper(f, c)
  /\ LET reqs    == Requests(channels[c], line, Who)
         changed == ApplyModes(channels[c], reqs, Who)
         next    == EnsureOperator(changed)
         news    == Announced(reqs)
     IN  /\ channels' = [channels EXCEPT ![c] = next]
         /\ sent' = (IF news = <<>> THEN Silence
                     ELSE Broadcast(next, Msg("mode", c, nameOf[f], news)))
                    ++ Promotion(c, next, Promoted(changed))
  /\ UNCHANGED users

-----------------------------------------------------------------------------
(* Connections                                                             *)

Accept(f) == Connect(f) /\ UNCHANGED channels /\ sent' = Silence

Enter(f, n) == Register(f, n) /\ UNCHANGED channels /\ sent' = Silence

\* Mutant: the member is not removed.
AbandonedMutant(ch, f) == EnsureOperator(ch)

\* removeUserFromAllChannels on one channel: no promotion is announced.
Abandoned(ch, f) ==
  LET rest == RemoveUser(ch, f)
  IN  IF rest.members = {} THEN NoChannel ELSE EnsureOperator(rest)

\* Mutant: only the first channel of the user is told.
DisconnectMutant(f) ==
  /\ Drop(f)
  /\ channels' = [c \in Chan |-> IF Member(f, c) THEN Abandoned(channels[c], f)
                                 ELSE channels[c]]
  /\ sent' = [g \in Fd |->
       LET own == Kept(ChanOrder, {c \in Chan : Member(f, c)})
       IN  IF g = f \/ own = <<>> \/ ~ ({f, g} \subseteq Registered) THEN <<>>
           ELSE IF Member(g, own[1]) THEN <<Msg("part", own[1], nameOf[f], Empty)>>
           ELSE <<>>]

\* Server::disconnect: a PART for each channel of the user, then the cleanup.
Disconnect(f) ==
  /\ Drop(f)
  /\ channels' = [c \in Chan |-> IF Member(f, c) THEN Abandoned(channels[c], f)
                                 ELSE channels[c]]
  /\ sent' = [g \in Fd |->
       LET shared == Kept(ChanOrder, {c \in Chan : Member(f, c) /\ Member(g, c)})
       IN  IF g = f \/ ~ ({f, g} \subseteq Registered) THEN <<>>
           ELSE [i \in DOMAIN shared |-> Msg("part", shared[i], nameOf[f], Empty)]]

-----------------------------------------------------------------------------
UserCommand(f, c) ==
  \/ \E key \in Key : Join(f, c, key)
  \/ Part(f, c)
  \/ \E n \in Name : Kick(f, c, n)
  \/ \E n \in Name : Invite(f, c, n)
  \/ AskTopic(f, c)
  \/ \E t \in Topic : SetTopic(f, c, t)
  \/ PrivMsg(f, c)
  \/ AskMode(f, c)
  \/ \E line \in ModeLine : Mode(f, c, line)

Next ==
  \E f \in Fd :
    \/ Accept(f)
    \/ \E n \in Name : Enter(f, n)
    \/ Disconnect(f)
    \/ \E n \in Name : PrivMsgUser(f, n)
    \/ \E c \in Chan : UserCommand(f, c)

Spec == Init /\ [][Next]_vars

-----------------------------------------------------------------------------
(***************************************************************************)
(* Every channel of the repository has a member and an operator, its two   *)
(* records of the membership agree, and no member holds an invitation,     *)
(* whatever sequence of joins, kicks, mode changes and disconnections led  *)
(* there.                                                                  *)
(***************************************************************************)
ChannelsSound == \A c \in Chan : Exists(c) => Sound(channels[c])

(***************************************************************************)
(* No channel keeps a descriptor whose user is gone: the next client to    *)
(* get that descriptor would find itself a member.                         *)
(***************************************************************************)
MembersAreUsers == \A c \in Chan : Exists(c) => channels[c].members \subseteq Registered

(***************************************************************************)
(* Nobody is added to an existing channel against its modes: a newcomer of *)
(* an invite-only channel held an invitation, and a channel with a limit   *)
(* is not above it after the newcomer is in.                               *)
(***************************************************************************)
AdmissionIsAllowed ==
  \A c \in Chan : \A f \in Fd :
    Exists(c) /\ ~ Member(f, c) /\ Member(f, c)' =>
      /\ channels[c].inviteOnly => f \in channels[c].invited
      /\ channels[c].limit > 0 => Cardinality(channels'[c].members) <= channels[c].limit

AdmissionObeysModes == [][AdmissionIsAllowed]_vars

(***************************************************************************)
(* When the operators of a channel have all left it, the one new operator  *)
(* is the member who joined first of those who stayed, whatever parts,     *)
(* kicks and rejoins there were before.                                    *)
(***************************************************************************)
SuccessionIsBySeniority ==
  \A c \in Chan :
    Exists(c) /\ Exists(c)' /\ channels[c].ops \cap channels'[c].members = {} =>
      \E i \in DOMAIN channels[c].joinOrder :
        LET order == channels[c].joinOrder
        IN  /\ order[i] \in channels'[c].members
            /\ \A j \in 1 .. i - 1 : order[j] \notin channels'[c].members
            /\ channels'[c].ops = {order[i]}

OldestSucceeds == [][SuccessionIsBySeniority]_vars

(***************************************************************************)
(* A descriptor without a user holds no invitation: the diagram of the     *)
(* commands has a disconnection "remove fd from all channels"              *)
(* (assets/uml/IRC-CodeExecutionDiagram.uml:197).                          *)
(***************************************************************************)
InvitationsAreForUsers ==
  \A c \in Chan : Exists(c) => channels[c].invited \subseteq Registered

=============================================================================
