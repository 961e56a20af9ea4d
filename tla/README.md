# ft_irc in TLA+

A verification project for the IRC server in this repository: a single-threaded
C++98 program that serves any number of clients from one `poll()` loop. The
modules model what the server does with connections, users and channels; TLC
checks them on small instances and TLAPS proves the properties that matter most
for every number of clients, names, channels and texts.

Line numbers refer to the files of the repository.

## The system

| Component | Keeps | Operations | Code |
|---|---|---|---|
| Event loop | `connections` (fd to `Connection`: output buffer), the poll set, the listening socket | `create_listener`, `init`, `close_all`, `run`, `handleConnection`, `handlePollIn`, `handlePollOut`, `disconnect`, arming of `POLLOUT` | `core/Server.cpp`, `network/` |
| Framer | bytes after the last CR LF, by fd | `processRawData`, `clearClient` | `parser/IrcMessageFramer.cpp` |
| Parser | nothing | `parseMessage` | `parser/IrcParser.cpp` |
| Dispatcher | nothing | chooses the command, which checks what it needs and answers with an error; collects the replies | `CommandHandler/`, `parser/ParserAndDispatch.cpp` |
| Registration | a `ClientState` by fd; a `User` by name and by fd | PASS, NICK, USER, `createUser`, `removeUserByFileDescriptor` | `commands/{Pass,Nick,User}Command.cpp`, `core/UserRepository.cpp`, `core/ClientStateRepository.cpp` |
| Channels | by name: members as a set and as a join order, operators, invitations, modes, topic | the methods of `Channel`, `removeUserFromAllChannels` | `core/Channel.cpp`, `core/ChannelRepository.cpp` |
| Channel commands | nothing of their own | JOIN, PART, KICK, INVITE, TOPIC, PRIVMSG | `commands/` |
| MODE | nothing of its own | letters `itklo`: parsing, validation, application, announcement | `commands/ModeCommand.cpp` |
| CAP, PING, startup | nothing | constant answers; argument checks | `commands/CapCommand.cpp`, `main.cpp` |

How they interact: `poll()` finds a descriptor readable; the loop calls
`handlePollIn`, which reads once, has the framer cut lines, has each line parsed
and dispatched, and appends the replies to the sender's `outBuffer`. A command
that has something for other clients puts it in their `User.outbox`; after the
batch `POLLOUT` is armed for everybody with a nonempty outbox. `handlePollOut`
moves the outbox behind the buffer and sends what the socket takes. When
`recv()` returns 0, `disconnect` tells the channels of the user, takes the
descriptor out of every repository, closes it and erases it from the poll set
the loop is walking. The next `accept()` may return the same number.

Everything is keyed by descriptor, and nothing has a generation number. That is
the main source of hard behaviour:

- whatever a disconnection forgets is inherited by a stranger;
- one fact is stored in several places (membership twice, users twice,
  registration in `ClientState` and in `UserRepository`);
- commands may come in any order, and a departure may happen by PART, KICK or
  disconnection, each with messages to send before and after the change;
- clients act between any two steps of the loop: they stop reading, close or
  reset, and `send()` may take part of a buffer;
- the loop erases from and appends to the vector it is iterating over.

What makes each component correct:

- registration: the repositories agree, only those who gave the password are
  users, and a complete handshake is refused only for a nickname in use;
- channels: no empty channel, no channel without an operator, no member without
  a user, admission by the modes, succession by seniority;
- messages: what a client is told adds up to the state of the server;
- event loop: the poll set matches the connections, output is neither lost nor
  doubled nor left waiting, dead connections are given up;
- framer and parser: messages reach the commands as they were sent, in order,
  however the bytes are cut;
- dispatcher: at any time of the handshake a command does what it is for or is
  refused without a trace, names resolve to the right descriptor, replies are
  addressed to the one who gets them;
- startup and shutdown: no descriptor is lost.

## Modules

| Module | Models | State |
|---|---|---|
| `Users` | what the commands may assume of users: connected or not, with a name or not | `connected`, `nameOf` |
| `Registration` | PASS, NICK, USER, `createUser`, the user part of `disconnect`; implements `Users` | `state`, `usersByName`, `usersByFd`, `connected`; history `gavePassword` |
| `Channel` | the class `Channel`, as operators on records; `Sound` | none |
| `ModeCommand` | `ModeCommand::execute` on one channel, as operators | none |
| `ChannelCommands` | all commands of registered users and the channel part of `disconnect`; extends `Users` and `ModeCommand` | `channels`, `sent`, and those of `Users` |
| `ClientView` | the clients: what each knows from its messages; composes with `ChannelCommands` | `view` |
| `ModeAnnouncement` | a channel, a copy that follows its MODE messages, and the errors | `channel`, `told`, `unanswered` |
| `EventLoop` | `main` once its arguments are right: `create_listener`, `init`, `Server::run` and its handlers, `close_all`; the peers and their sockets | process, loop, sockets, history |
| `Framer` | `processRawData` of `IrcMessageFramer`, as operators | none |
| `IrcParser` | `parseMessage`, as operators | none |
| `Input` | clients that compose messages or send any bytes, `processData` and `clearClient`; extends `Framer` and `IrcParser` | `stream`, `meant`, `taken`, `buffer`, `dispatched`; history `extracted` |
| `Dispatcher` | `dispatch` with every command, its checks, errors and replies; extends `Registration`, instantiates `ChannelCommands` on the same users | those of both, and `wire` |
| `RegistrationProofs`, `ChannelProofs`, `ChannelCommandsProofs`, `ClientViewProofs`, `ModeAnnouncementProofs`, `DispatcherProofs`, `EventLoopProofs`, `InputProofs` | the theorems | |
| `MC*` | constants that a .cfg cannot write | |

How modules fit: `Registration` implements `Users` (`ImplementsUsers`, checked
and proved), and `ChannelCommands` is built on `Users`. So the channel commands
see one atomic step `Enter` where the program has a sequence of PASS, NICK and
USER, and nothing is lost by it. `Dispatcher` is the composition: it runs the
actions of `Registration` and of `ChannelCommands` on one set of repositories,
behind the checks each command makes, and implements `ChannelCommands`
(`ImplementsChannelCommands`), in which a command has its checks as guards and
nobody sends one too early. `Input` ends where `Dispatcher` begins, with a
payload; its words and the model values of `Dispatcher` are not connected.
`EventLoop` in turn abstracts a command to what
it produces: a registration, a reply to the sender, messages in outboxes.

Correspondence that is not one to one:

- A command runs to its end before anything else happens (one thread, no
  callbacks), so a command is one action, with every change it makes: KICK is
  the notice, the removal, the closing of an empty channel, the promotion and
  its announcement. A command that fails a check only answers its sender: in
  `Dispatcher` that is a step that changes `wire`, in `ChannelCommands` none. A
  refused JOIN is a step of both all the same, because `JoinCommand` gets or
  creates the channel first.
- A command of `Dispatcher` lists its checks in the order of the code, each with
  the numerics it answers; `Refusal` is the answer of the first that fails. Of a
  reply the numeric and the addressee are kept. `Incomplete` stands for a
  parameter too few in any command, `Unknown` for anything that is no command.
- `Depart` is the whole of `disconnect` on the repositories, users and channels
  together; its part in the poll set and the buffers is in `EventLoop`.
- `Listener` in `EventLoop` is the descriptor `create_listener` ends up with; a
  candidate that is rejected gets its descriptor and loses it in one step, since
  nothing else runs then.
- `Leave` is the common tail of PART and KICK; `Abandoned` is what
  `removeUserFromAllChannels` does to one channel, which announces no promotion.
- `sent` has the messages of the last step only. `ClientView` reads them at
  once: there is one queue per client and it is first in, first out for these
  messages (`LanesAreFifo` of `EventLoop`), so reading later gives the same view.
- `Channel` has one field for a key and its flag, and one for a limit and its
  flag: MODE stores neither an empty key nor a limit below 1.
- `ApplyModes` is defined by the last request about each field. The code has
  three loops, each of which assigns in the order of the line. `Kept` stands for
  its loops that go over a list and pass over some of the entries.
- In `EventLoop`, `at` is the loop index and each handler call is one step;
  peers move in between. A socket is what the handlers see of a Linux TCP
  socket: readable, with room, and the state of the other end. An error that was
  reported once becomes an end of file for `recv()` and SIGPIPE for `send()`.
  What a `recv()` brings is any combination of registration, reply and messages.
- Numbers of texts start anew when everything has been sent; this only keeps
  them bounded.

## Runs

| Run | Instance | Shows |
|---|---|---|
| `registration` | 3 descriptors, 2 names, a right and a wrong password | types, agreement of the repositories, the password, refusals, `ImplementsUsers` |
| `channel_commands` | 3 clients, 3 names, 1 channel, one-letter MODE lines and two-letter handovers, key, limit 2 | soundness of channels, no member without a user, admission, succession |
| `client_view` | 3 clients, 1 channel, a topic, MODE lines about `o` and `t` | views match the server, no stray message |
| `client_view_two` | 2 clients, 2 channels | the same where a disconnection leaves two channels at once |
| `mode_announcement` | 2 members and an outsider, every line of up to 2 letters, one of them no mode, with up to 2 arguments | the announcement says what was done, errors the rest |
| `event_loop` | up to 2 addresses to listen on, 2 clients that may be reset, 2 texts each, 1 in the backlog | poll set, descriptors, arming, order and completeness of output |
| `event_loop_delivery` | 2 clients, one of which may reset its connection, 1 text each, 1 in the backlog | liveness: input is read, output sent, closed and reset connections given up |
| `input` | one or more messages of up to 12 bytes together in every layout (one space after a prefix), and every stream of up to 6 bytes over CR, LF, space, colon and a letter, cut everywhere | framing, parsing, order |
| `dispatcher` | 2 clients, 2 names, 1 channel, MODE lines `+i` and `+l-o+k` with a name for each argument | the composition: checks, errors, replies, lookup by name, what a disconnection leaves |
| `nick_after_registration` | 2 descriptors, 2 names | a disagreement, below |
| `stale_invitations` | 3 clients, 1 channel | a disagreement, below |
| `sigpipe` | 1 client, 1 text | a fault, below |

Why the bounds are enough to be interesting:

- Three descriptors let two clients compete for a name while a third comes and
  goes; two names make a clash possible and three leave everybody a name.
- Three members give a succession a choice, and let somebody leave while two
  others watch. A limit of 2 can be reached, exceeded (set while three are in)
  and fallen below. Channels do not influence each other except in
  `disconnect`, which `client_view_two` covers.
- Two letters are the shortest line with a contradiction (`+i-i`, `-o a +o a`)
  and with an argument that runs out. The announcement is a fold over letters.
- Two texts are needed for a partial `send()` and for a reply that meets a
  message; two clients for an erased entry with another behind it; a backlog of
  1 with all descriptors in use for an `accept()` that fails.
- Six bytes hold three line ends, and `CR CR LF LF` in every cut. Twelve bytes
  hold a prefix, a command, two parameters and a trailing one, or two messages
  with parameters, or four bare ones.
- In `dispatcher` two clients are enough for a clash, a takeover of a name, a
  kick and an invitation; three are in `registration` and `channel_commands`,
  whose behaviour it is shown to have. Its MODE lines need not be many, because
  `mode_announcement` has them all: one that keeps newcomers out, and one that
  is half refused.
- Two addresses let one fail before another is tried.

Symmetry is used for descriptors and names in runs without temporal properties
beyond single steps, where no constant tells them apart.

`CHECK_DEADLOCK FALSE` is set for the event loop only: after `poll()` fails, or
the process is killed, nothing happens any more.

Every property has a mutant, a plausible mistake in one modelled definition
(an entry left behind, a test off by one, a message sent after the change
instead of before it) that makes TLC find the property violated. The mutants are
the operators called `...Mutant`, in front of the definition they vary.

## Fairness

Only `EventLoop` has liveness. It assumes

- `WF_vars(ServerStep)`: the only thread runs whenever `poll()` would return. The
  loop never waits elsewhere, all sockets being nonblocking;
- `WF_vars(PeerUnblocks(f))`: a client that has left `send()` no room reads on or
  goes away. Without it the server keeps such a client and its output for ever;
  the code has no timeout.

Nothing is assumed of clients otherwise, nor of the order in which `poll()`
reports descriptors: it reports all that are ready. `InputIsRead` holds although
an erased entry makes the loop pass over the one behind it, because `revents` is
computed anew by the next `poll()`, which has to report that descriptor again.

`DeadPeersAreDropped` covers the client that resets its connection:
`handlePollIn` ignores the error (`IgnoreError`), and as POLLIN stays armed the
next pass reads the end of file and disconnects. In between the client may be
sent something, which ends the server (`sigpipe`, below), and a server that has
ended is no counterexample to any of the three properties (`Over`).

## Proofs

Assumptions are the named ASSUMEs only: sentinels are no members of the sets
they are sentinels for, names are texts, `LimitOf` maps texts to naturals,
`ChanOrder` lists the channel names, the bounds of `EventLoop` are numbers, the
lines of `ModeAnnouncement` are letters and texts. What the client of `Input`
composes is made of words as the grammar of IRC has them, and has neither CR nor
LF (`WordsAssumption`); the bytes it may send instead are any. In
`ModeAnnouncement` somebody is on the channel, and a member is found by its name; that `findUserByUsername` does find
it is `LookupFindsTheUserHolds` of `DispatcherProofs`. No set need be finite but
the descriptors of `EventLoop`, whose `accept()` counts the free ones, and the
members in `ModeAnnouncement`, who have joined one after the other.

`RegistrationProofs`. The invariant is not inductive as it stands: that a
registration is backed by the password needs to be known of the flag before it
is known of the user. `IndInv` adds `FlagsAreEarned` (a set password flag was
earned by this connection, a set nickname flag has a nickname behind it). PASS,
NICK and USER are reduced to one lemma on `Settle`, their common tail. From
`IndInv` follow type correctness, `RegisteredIffUser`, `MapsAgree`,
`UsersGavePassword`, the action property `HandshakeFailsOnlyOnClash` and the
refinement `ImplementsUsers`.

`ChannelProofs` has the facts about the methods, for any sets of descriptors and
texts: what adding and removing does to the set and the vector, that
`EnsureOperator` makes a consistent nonempty channel sound by promoting its first
member or nobody, and that no MODE line moves a member or makes an operator of a
stranger. `Consistent` is `Sound` without the operator: what holds between a
removal and the promotion.

It also has what the proofs about messages need: folds over lists. `FoldLeft` of
the community modules is a recursive function on the subsets of the indices, so
it must first be shown to exist. `FoldExists` builds it, one index after the
other, by `SetInduction` (a set of naturals with 0 and every successor has all),
which takes a set where the library's induction takes an operator. `KeptTrace`
then gives the list of intermediate results as a function of the number of
letters, and what is said of them is proved by `SetInduction` again. The same
path leads to `ReadingTrace` in `ClientViewProofs` and to `HeardTrace` in
`ModeAnnouncementProofs`.

`ChannelCommandsProofs`. `TypeOK /\ ChannelsSound /\ MembersAreUsers` is
inductive. Commands that change one channel go through `OneEntryChanges`;
`disconnect` changes many and has a lemma of its own. For the two action
properties, `ThreeWays` says that a step leaves the members of an existing
channel alone, or adds one by an admitted JOIN, or removes one. Admission then is
a matter of cardinalities (the membership is finite because the join order is a
sequence), and succession of what removal does to the order.

`ClientViewProofs`. The invariant `ViewInv` is that of `ChannelCommands`, with
`UsersOK` (no two users have the same name) and, for each client
and channel, `Sees`: the client knows whether it is in, got nothing of the
channel while it was out, and, if it is in, its picture has the members and the
topic, and the operators but at most one. The properties alone are not inductive,
since they say nothing of those who are connected and have no name yet. A command
sends a client nothing about the channel, or up to three messages; the lemmas
`ToldNothing`, `ToldOnce`, `ToldTwice` and `ToldThrice` say what it knows then,
and there is one lemma for each command, which compares that with the new channel.
Two need more. A MODE line is read letter by letter, and the client ends up with
the operators that the last letter about each member leaves. A disconnection
leaves several channels, each member hears of each channel it shares, and the
promotion of which nobody hears is the one operator a client may miss: it takes
place only when no operator is left, so nobody ever misses two.

`ModeAnnouncementProofs`. `ModeInv` says that the copy is the channel, that the
channel is sound and that no letter is unaccounted for. The announced letters are
applied from left to right, the server's requests mode by mode. `LastWriterWins`
says what a value is that some of n steps overwrite; each field of the copy is
such a value, overwritten by the letters about it, and so is, for each user,
whether it is an operator. `ApplyModesFields` says the same of the server's
result, and `ReadingIsApplying` puts the fields together. For the letters,
`OneFateEach` goes through the checks of a letter and `FiveParts` counts.

`DispatcherProofs`. Seen from `Registration` a command of a user is a stutter, so
`IndInv` of the handshake is an invariant of the whole server. Seen from
`ChannelCommands` the handshake is one `Enter`, which needs the invariant (the new
user was none before), or nothing; a command that passes its checks is the action
of the same name; a refused one leaves the repositories alone. That is
`ImplementsChannelCommands`, and what `ChannelCommandsProofs` says of channels
holds of the server for it. Lookup through the two maps finds the right user
because they are inverse to each other, and an error reaches the name others
find its receiver under because commands take it from the map by descriptor when
they answer, whatever nickname the client asked for since. That a closed descriptor
leaves nothing behind needs both halves: the flags and maps from `IndInv`, the
memberships from `MembersAreUsers` of the channel commands. For
`ErrorsChangeNothing` and `WelcomedOnRegistration` each command is taken apart
into the checks that answer and the action that runs when none does.

`EventLoopProofs`. The facts about lists come first: where the loop goes on,
what arming, erasing and appending do to the entries. The invariant has the
types, `PollSetMatches`, `DescriptorsOwned`, `OutputArmed` and
`NothingForStrangers`: a descriptor that is no connection has empty queues.
Without the last `OutputArmed` is not inductive, since `handleConnection` appends
an entry that is not armed for whatever the number's last owner left behind.
There is one lemma for each handler, which says what it does to the list, to
the queues and to their agreement; `StaysUp` puts that together.

The second half of `EventLoopProofs` is about delivery (`DeliveryInv`). What has
been sent to a client, then its buffer, then its outbox, is one sequence, whose texts are numbered as they were produced and
ordered within replies and within messages. A message goes to the end of it. A
reply goes before the outbox, and the order among replies survives because an
outbox holds messages only, which has to be part of the invariant. A partial
`send()` and the flush of the outbox move the cuts and leave the sequence as it
is; `disconnect` empties it. `TypeCorrect` of `EventLoop` is proved there, because
how long a queue gets is known from the numbers in it.

`InputProofs`. The framer goes up a line and the parser calls itself further on in
it; both are recursive functions, and the library's theorems on recursion take an
operator. `ClimbExists` and `DescentExists` build such functions from sets
instead, as `FoldExists` does, and `UpInduction` and `DownInduction` are induction
over a set; all rest on the least element of a set of naturals (`MinIsLeast`).
Then:

- `FramedFacts`: what `processRawData` cuts, with the line ends put back and the
  rest behind it, is what it was given, and nothing cut hides a line end. With
  that, `InputInv` (lines and buffer are what was received, payloads are the
  lines parsed) is inductive, however `recv()` cuts, and says more than
  `FramesWhatWasSent`.
- `GetArgsFacts` and `ParseMessageFacts`: whatever the line is, `parseMessage`
  returns words, apart from a last parameter; `WordsAreWords` follows.
- `LineReadsBack`: `parseMessage` undoes what the client does to write a message,
  with or without a prefix, for any number of spaces at the start, between the
  words and at the end, and for any last parameter after a colon. After a prefix
  there is exactly one space. `LineParts` says at which index each part of the line is, and
  `ArgsReadBack` goes over the parameters from the last to the first.
- `SameLines`: bytes can be cut into lines without line ends in one way only. So
  what has been framed of a composed stream is the first of the lines composed
  (`MeantInv`), and `ReadAsMeant` follows.

Only model-checked: liveness, whose proofs under fairness are out of TLAPS's
reach. What the three `violation` runs show is a counterexample and needs no
proof.

## Disagreements

1. `sigpipe`. `Socket::sendData` calls `send()` with flags 0
   (`network/Socket.cpp:54`) and nothing ignores SIGPIPE. If a client resets,
   `recv()` reports the error once and `handlePollIn` takes it for transient
   (`Server.cpp:227`); `handlePollOut` may then send to the dead connection,
   which ends the process. `Server.cpp:270` says it runs "until a fatal poll
   error occurs".
2. `stale_invitations`. `removeUserFromAllChannels` skips channels the
   descriptor is no member of (`ChannelRepository.cpp:48`), so invitations
   survive a disconnection and pass to the next client on the descriptor. The
   diagram at `assets/uml/IRC-CodeExecutionDiagram.uml:197` has "remove fd from
   all channels".
3. `nick_after_registration`. NICK after registration changes only
   `ClientState.nickname` (`NickCommand.cpp:31`); the name others must use stays
   the old one. The diagram at line 102 has NICK update the user or the map.

Also met, and not runs of their own:

- a reply written to `outBuffer` passes messages that were enqueued before it
  but still wait in the outbox (`Server.cpp:199`); `LanesAreFifo` states the
  order that is kept;
- a promotion caused by a disconnection is announced to nobody
  (`ChannelRepository.cpp:55`); `ViewOfOperators` says how far behind that
  leaves the clients: by at most one operator;
- PRIVMSG to a channel needs no membership, and JOIN's refusal has nothing left
  to undo, since a new channel admits everybody;
- two spaces after a prefix give an empty command (`IrcParser.cpp`), one gives
  the command; `ReadAsMeant` therefore writes one;
- the usage text names ports 1024-65535, `isValidPort` accepts 1-65535;
- `main` returns 0 also when no listener could be opened (`Server.cpp:153`);
- a handshake that fails because the nickname is taken is not answered at all;
  `ErrorReply.hpp` has 431 for a missing nickname and nothing for a used one,
  and NICK sends neither;
- a nickname may be empty or contain spaces: replies to an empty one are
  addressed to `*` (`CommandGuards.hpp:12`) and a `+o` for it has no argument;
- a MODE argument that begins with a sign is taken for letters if it comes right
  after the letters (`ModeCommand.cpp:65`), so `+k -x` asks for a mode `x`;
- the diagram at line 120 has replies put into the outbox; they go to
  `outBuffer`.

## Not modelled

- The checks of `main`'s arguments: wrong ones end it before anything is opened.
- Nicknames that are empty or have spaces (see above): names are nonempty words.
- QUIT: the server does not know the command, although `closeAfterFlush`
  (`Server.cpp:200`) and the diagram (line 193) provide for it; no code sets the
  flag, so its branches cannot be taken.
- `send()` returning 0, which it does not for a nonempty buffer.
- The text of replies, beyond numeric and addressee, and the handler of
  exceptions in `Dispatcher::dispatch`: nothing throws but a failing allocation.
- Memory: buffers grow without a limit in the code; the bounds of the models
  (`MaxOut`, `MaxBytes`, `MaxComposed`, `MaxBacklog`) are bounds of the check.

## Plan

Done, in the order of importance: registration and its refinement; channels,
MODE and the commands on them; the clients' views; the event loop with startup,
safety and liveness; framer and parser, and the pipeline of both; the dispatcher,
which puts registration and commands together and implements the latter; proofs
of every safety property of all of them.

Next:

1. An abstract specification of delivery (a queue per client and lane, a channel
   that may be cut) that `EventLoop` implements.
2. `EventLoop` with the bytes of `Framer`: a line cut by two `recv()` calls, with a
   disconnection of another client in between.
