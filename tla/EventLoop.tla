------------------------------ MODULE EventLoop ------------------------------
(***************************************************************************)
(* The life of the process: main opens the listening socket, and then      *)
(* Server::run is the poll loop that moves everything in and out of the    *)
(* server (src/src/core/Server.cpp).  The commands are abstracted to what  *)
(* they produce: a recv may register its client, append replies to its     *)
(* Connection.outBuffer and enqueue messages in the User.outbox of anybody.*)
(*                                                                         *)
(* One pass of the loop is several steps, one for each handler call, and   *)
(* peers act between any two of them: only poll() and the handlers touch   *)
(* a socket.  A text is known by its number among those produced for its   *)
(* client, and send() may stop after any of them.                          *)
(*                                                                         *)
(* The sockets are Linux TCP sockets, modelled by what the handlers see of *)
(* them.                                                                   *)
(***************************************************************************)
EXTENDS Naturals, Sequences, FiniteSets, SequencesExt

CONSTANTS Fd,          \* descriptors of clients
          Resets,      \* bound: descriptors whose connections may be reset
  Listener,    \* the descriptor of serverSocket
          MaxCandidates,  \* bound: addresses getaddrinfo() returns
          MaxBacklog,  \* bound: clients waiting to be accepted
          MaxOut       \* bound: texts produced for one connection

ASSUME EventLoopAssumption ==
  /\ Listener \notin Fd /\ IsFiniteSet(Fd)
  /\ MaxCandidates \in Nat
  /\ MaxBacklog \in Nat
  /\ MaxOut \in Nat

VARIABLES
  server,       \* "starting", "up", "killed" by a signal, "stopped": main returns
  candidates,   \* addresses create_listener has not tried yet
  opened,       \* descriptors of sockets the process has open
  connections,  \* the keys of Server::connections
  registered,   \* those with a User
  outBuffer,    \* Connection.outBuffer
  outbox,       \* User.outbox
  pfds,         \* PollSet.pfds: descriptor, armed events, returned events
  at,           \* the index i of the loop, 0 while in poll()
  backlog,      \* clients the kernel has for accept()
  peer,         \* what became of the other end of each connection
  input,        \* bytes are waiting for recv()
  room,         \* send() would accept bytes
  sentOff,      \* history: what send() accepted, in order
  produced      \* history: how many texts were produced

process == <<server, candidates, opened>>
loop    == <<process, connections, registered, outBuffer, outbox, pfds, at>>
sockets == <<backlog, peer, input, room>>
history == <<sentOff, produced>>
vars    == <<loop, sockets, history>>

Lane    == {"reply", "message"}
Text    == [lane : Lane, n : 1 .. MaxOut]
Queue   == UNION {[1 .. n -> Text] : n \in 0 .. MaxOut}
Event   == {"in", "out"}
Pollfd  == [fd : Fd \cup {Listener}, events : SUBSET Event, revents : SUBSET Event]

(***************************************************************************)
(* The other end: open; closed in an orderly way; reset, with the error    *)
(* still to be reported; or broken, where recv() reports the end and       *)
(* send() raises SIGPIPE.                                                  *)
(***************************************************************************)
Peer == {"open", "closed", "reset", "broken"}

TypeOK ==
  /\ server \in {"starting", "up", "killed", "stopped"}
  /\ candidates \in 0 .. MaxCandidates
  /\ opened \subseteq Fd \cup {Listener}
  /\ connections \subseteq Fd
  /\ registered \subseteq connections
  /\ outBuffer \in [Fd -> Queue] /\ outbox \in [Fd -> Queue]
  /\ pfds \in Seq(Pollfd)
  /\ at \in 0 .. Len(pfds)
  /\ backlog \in 0 .. MaxBacklog
  /\ peer \in [Fd -> Peer]
  /\ input \in [Fd -> BOOLEAN] /\ room \in [Fd -> BOOLEAN]
  /\ sentOff \in [Fd -> Queue]
  /\ produced \in [Fd -> 0 .. MaxOut]

\* main has found its arguments right; getaddrinfo() may find no address.
Init ==
  /\ server = "starting"
  /\ candidates \in 0 .. MaxCandidates
  /\ opened = {}
  /\ connections = {} /\ registered = {}
  /\ outBuffer = [f \in Fd |-> <<>>] /\ outbox = [f \in Fd |-> <<>>]
  /\ pfds = <<>>
  /\ at = 0
  /\ backlog = 0
  /\ peer = [f \in Fd |-> "open"]
  /\ input = [f \in Fd |-> FALSE] /\ room = [f \in Fd |-> TRUE]
  /\ sentOff = [f \in Fd |-> <<>>]
  /\ produced = [f \in Fd |-> 0]

-----------------------------------------------------------------------------
(* main, Server::init and create_listener                                  *)

\* No address is left to try: init returns at once, and so does main.
GiveUp ==
  /\ server = "starting" /\ candidates = 0
  /\ server' = "stopped"
  /\ UNCHANGED <<candidates, opened, pfds>>

\* An address for which setsockopt(), bind() or listen() fails has its socket
\* closed again; without socket() there is nothing to close.
RejectCandidate ==
  /\ server = "starting" /\ candidates > 0
  /\ \E socket \in SUBSET {Listener} : opened' = (opened \cup socket) \ socket
  /\ candidates' = candidates - 1
  /\ UNCHANGED <<server, pfds>>

\* The first that will listen is it; run() begins with only the listener.
Listen ==
  /\ server = "starting" /\ candidates > 0
  /\ server' = "up"
  /\ candidates' = 0
  /\ opened' = opened \cup {Listener}
  /\ pfds' = <<[fd |-> Listener, events |-> {"in"}, revents |-> {}]>>

Start ==
  /\ GiveUp \/ RejectCandidate \/ Listen
  /\ UNCHANGED <<connections, registered, outBuffer, outbox, at, sockets, history>>

-----------------------------------------------------------------------------
(* The peers and the kernel.                                               *)

PeerConnects ==
  /\ backlog < MaxBacklog
  /\ backlog' = backlog + 1
  /\ UNCHANGED <<loop, peer, input, room, history>>

PeerSends(f) ==
  /\ f \in connections /\ peer[f] = "open"
  /\ input' = [input EXCEPT ![f] = TRUE]
  /\ UNCHANGED <<loop, backlog, peer, room, history>>

PeerReads(f) ==
  /\ f \in connections /\ peer[f] = "open" /\ ~ room[f]
  /\ room' = [room EXCEPT ![f] = TRUE]
  /\ UNCHANGED <<loop, backlog, peer, input, history>>

PeerCloses(f) ==
  /\ f \in connections /\ peer[f] = "open"
  /\ peer' = [peer EXCEPT ![f] = "closed"]
  /\ UNCHANGED <<loop, backlog, input, room, history>>

\* A reset after an orderly close is reported as a broken pipe.
PeerResets(f) ==
  /\ f \in connections \cap Resets /\ peer[f] \in {"open", "closed"}
  /\ peer' = [peer EXCEPT ![f] = IF @ = "open" THEN "reset" ELSE "broken"]
  /\ UNCHANGED <<loop, backlog, input, room, history>>

Dead(f)     == peer[f] \in {"reset", "broken"}
Readable(f) == input[f] \/ peer[f] # "open"
Writable(f) == room[f] \/ Dead(f)

-----------------------------------------------------------------------------
(* poll()                                                                  *)

Ready(p) ==
  IF p.fd = Listener THEN IF backlog > 0 THEN {"in"} ELSE {}
  ELSE {e \in p.events : IF e = "in" THEN Readable(p.fd) ELSE Writable(p.fd)}

\* Mutant: back in poll() the index is still past the end.
ContinueAtTypeMutant(i, list) ==
  LET busy == {j \in i .. Len(list) : list[j].revents # {}}
  IN  /\ pfds' = list
      /\ at' = IF busy = {} THEN Len(list) + 1 ELSE CHOOSE j \in busy : \A k \in busy : j <= k

\* The loop, at index i of list, passes over what poll() had nothing for; at
\* the end of the list it is back in poll().
ContinueAt(i, list) ==
  LET busy == {j \in i .. Len(list) : list[j].revents # {}}
  IN  /\ pfds' = list
      /\ at' = IF busy = {} THEN 0 ELSE CHOOSE j \in busy : \A k \in busy : j <= k

Poll ==
  /\ at = 0
  /\ \E i \in DOMAIN pfds : Ready(pfds[i]) # {}
  /\ ContinueAt(1, [i \in DOMAIN pfds |-> [pfds[i] EXCEPT !.revents = Ready(pfds[i])]])
  /\ UNCHANGED <<process, connections, registered, outBuffer, outbox, sockets, history>>

\* Mutant: the poll set is cleared first.
CloseAllMutant == pfds' = <<>> /\ opened' = opened \ {Listener}

\* close_all(): the sockets the poll set lists, and the listener.
CloseAll ==
  /\ opened' = opened \ ({Listener} \cup {f \in connections : \E i \in DOMAIN pfds : pfds[i].fd = f})
  /\ pfds' = <<>>

\* poll() itself fails: the loop ends.
PollFails ==
  /\ at = 0
  /\ server' = "stopped"
  /\ CloseAll
  /\ UNCHANGED <<candidates, connections, registered, outBuffer, outbox, at, sockets, history>>

Serves(f, e) == at # 0 /\ pfds[at].fd = f /\ e \in pfds[at].revents

-----------------------------------------------------------------------------
(* handleConnection                                                        *)

\* accept() until there is nobody left, or no descriptor.
Accepted ==
  LET free == Fd \ opened
      n    == IF backlog < Cardinality(free) THEN backlog ELSE Cardinality(free)
  IN  {new \in [1 .. n -> free] : IsInjective(new)}

HandleConnection ==
  /\ Serves(Listener, "in")
  /\ \E new \in Accepted :
       LET list == pfds \o [i \in DOMAIN new |->
                              [fd |-> new[i], events |-> {"in"}, revents |-> {}]]
       IN  /\ connections' = connections \cup Range(new)
           /\ opened' = opened \cup Range(new)
           /\ backlog' = backlog - Len(new)
           /\ ContinueAt(at + 1, [list EXCEPT ![at].revents = {}])
  /\ UNCHANGED <<server, candidates, registered, outBuffer, outbox, peer, input, room, history>>

-----------------------------------------------------------------------------
(* handlePollIn and disconnect                                             *)

\* Mutant: POLLOUT replaces POLLIN.
ArmMutant(list, F) ==
  [i \in DOMAIN list |-> IF list[i].fd \in F THEN [list[i] EXCEPT !.events = {"out"}]
                         ELSE list[i]]

\* set_pollout_for_fd, for every descriptor in F.
Arm(list, F) ==
  [i \in DOMAIN list |-> IF list[i].fd \in F THEN [list[i] EXCEPT !.events = @ \cup {"out"}]
                         ELSE list[i]]

\* Mutant: only the descriptor being served is looked at.
PendingOutboxesMutant(users, boxes) == {f \in users : boxes[f] # <<>> /\ f = pfds[at].fd}

\* arm_pollout_for_pending_outboxes sets the bit for these.
PendingOutboxes(users, boxes) == {f \in users : boxes[f] # <<>>}

\* poll() had bytes for the descriptor at index at, and they are being read.
PolledIn == [pfds EXCEPT ![at].revents = @ \ {"in"}]

\* What send() is given: the outbox follows what is left in the buffer.
ToSend(f) == outBuffer[f] \o outbox[f]

\* The number of the last text for g; a client that has been sent all there
\* was starts anew, which keeps the numbers bounded.
Numbered(g) == IF ToSend(g) = <<>> THEN 0 ELSE produced[g]

\* A reply for each client in R, and after it a message for each in G.
Produced(R, G) ==
  [g \in Fd |-> IF g \notin R \cup G THEN produced[g]
                ELSE Numbered(g) + Cardinality({g} \cap R) + Cardinality({g} \cap G)]
Replied(R) ==
  [g \in Fd |-> IF g \notin R THEN outBuffer[g]
                ELSE Append(outBuffer[g], [lane |-> "reply", n |-> Numbered(g) + 1])]
Enqueued(R, G) ==
  [g \in Fd |-> IF g \notin G THEN outbox[g]
                ELSE Append(outbox[g], [lane |-> "message", n |-> Produced(R, G)[g]])]
SentBefore(F) ==
  [g \in Fd |-> IF g \in F /\ ToSend(g) = <<>> THEN <<>> ELSE sentOff[g]]

\* recv() got bytes; what they do makes users the registered clients, sends
\* replies to the clients in R and messages to those in G.
Receive(f, R, users, G) ==
  /\ \A g \in Fd : Produced(R, G)[g] <= MaxOut
  /\ input' = [input EXCEPT ![f] = FALSE]
  /\ registered' = users
  /\ produced' = Produced(R, G)
  /\ sentOff' = SentBefore(R \cup G)
  /\ outBuffer' = Replied(R)
  /\ outbox' = Enqueued(R, G)
  /\ ContinueAt(at, Arm(PolledIn, R \cup PendingOutboxes(users, outbox')))
  /\ UNCHANGED <<process, connections, backlog, peer, room>>

\* Mutant: an error ends the interest in reading.
IgnoreErrorMutant(f) ==
  /\ peer' = [peer EXCEPT ![f] = "broken"]
  /\ ContinueAt(at, [PolledIn EXCEPT ![at].events = @ \ {"in"}])
  /\ UNCHANGED <<process, connections, registered, outBuffer, outbox, backlog, input, room, history>>

\* recv() reports the reset, once, and the handler ignores the error.
IgnoreError(f) ==
  /\ peer' = [peer EXCEPT ![f] = "broken"]
  /\ ContinueAt(at, PolledIn)
  /\ UNCHANGED <<process, connections, registered, outBuffer, outbox, backlog, input, room, history>>

\* Mutant: the entry stays.
EraseMutant(list, i) == list

\* pfds.erase
Erase(list, i) == RemoveAt(list, i)

\* disconnect(): users in G are told, then everything of f goes.  Index at of
\* what is left of the poll set is passed over.
Disconnect(f, G) ==
  LET left == Erase(pfds, at)
  IN  /\ \A g \in Fd : Produced({}, G)[g] <= MaxOut
      /\ connections' = connections \ {f}
      /\ opened' = opened \ {f}
      /\ registered' = registered \ {f}
      /\ produced' = [Produced({}, G) EXCEPT ![f] = 0]
      /\ sentOff' = [SentBefore(G) EXCEPT ![f] = <<>>]
      /\ outBuffer' = [outBuffer EXCEPT ![f] = <<>>]
      /\ outbox' = [Enqueued({}, G) EXCEPT ![f] = <<>>]
      /\ ContinueAt(at + 1, IF f \in registered
                            THEN Arm(left, PendingOutboxes(registered', outbox')) ELSE left)
      /\ peer' = [peer EXCEPT ![f] = "open"]
      /\ input' = [input EXCEPT ![f] = FALSE]
      /\ room' = [room EXCEPT ![f] = TRUE]
      /\ UNCHANGED <<server, candidates, backlog>>

HandlePollIn(f) ==
  /\ Serves(f, "in")
  /\ \/ /\ input[f]
        /\ \E R \in SUBSET {f} : \E users \in {registered, registered \cup {f}} :
             \E G \in SUBSET users : Receive(f, R, users, G)
     \/ ~ input[f] /\ peer[f] = "reset" /\ IgnoreError(f)
     \/ /\ ~ input[f] /\ peer[f] \in {"closed", "broken"}
        /\ \E G \in SUBSET (IF f \in registered THEN registered \ {f} ELSE {}) : Disconnect(f, G)

-----------------------------------------------------------------------------
(* handlePollOut                                                           *)

\* Mutant: a partial send is taken for a complete one.
SendMutant(f, n) ==
  /\ sentOff' = [sentOff EXCEPT ![f] = @ \o SubSeq(ToSend(f), 1, n)]
  /\ outBuffer' = [outBuffer EXCEPT ![f] = <<>>]
  /\ UNCHANGED <<server, peer, room>>

\* send() takes n texts; a buffer it could not empty leaves it no room.
Send(f, n) ==
  /\ sentOff' = [sentOff EXCEPT ![f] = @ \o SubSeq(ToSend(f), 1, n)]
  /\ outBuffer' = [outBuffer EXCEPT ![f] = SubSeq(ToSend(f), n + 1, Len(ToSend(f)))]
  /\ \E more \in BOOLEAN : /\ n < Len(ToSend(f)) => ~ more
                           /\ n = 0 => more = room[f]   \* nothing to send: not called
                           /\ room' = [room EXCEPT ![f] = more]
  /\ UNCHANGED <<server, peer>>

\* send() returns -1, or ends the process.
SendFails(f) ==
  /\ outBuffer' = [outBuffer EXCEPT ![f] = ToSend(f)]
  /\ server' = IF peer[f] = "broken" THEN "killed" ELSE server
  /\ peer' = [peer EXCEPT ![f] = "broken"]
  /\ UNCHANGED <<room, sentOff>>

HandlePollOut(f) ==
  /\ Serves(f, "out") /\ "in" \notin pfds[at].revents
  /\ \/ ToSend(f) # <<>> /\ Dead(f) /\ SendFails(f)
     \/ /\ ToSend(f) = <<>> \/ ~ Dead(f)
        /\ \E n \in 0 .. Len(ToSend(f)) : (n = 0 <=> ToSend(f) = <<>>) /\ Send(f, n)
  /\ outbox' = [outbox EXCEPT ![f] = <<>>]
  /\ ContinueAt(at + 1, [pfds EXCEPT ![at].revents = {},
                           ![at].events = IF outBuffer'[f] = <<>> THEN @ \ {"out"} ELSE @])
  /\ UNCHANGED <<candidates, opened, connections, registered, backlog, input, produced>>

-----------------------------------------------------------------------------
ServerStep ==
  \/ Start
  \/ /\ server = "up"
     /\ Poll \/ HandleConnection \/ \E f \in Fd : HandlePollIn(f) \/ HandlePollOut(f)

Next ==
  \/ ServerStep
  \/ server = "up" /\ PollFails
  \/ server = "up" /\ PeerConnects
  \/ \E f \in Fd : /\ server = "up"
                   /\ \/ PeerSends(f) \/ PeerReads(f) \/ PeerCloses(f) \/ PeerResets(f)

\* A peer that has left no room reads on, or goes away.
PeerUnblocks(f) ==
  /\ server = "up" /\ ~ room[f]
  /\ PeerReads(f) \/ PeerCloses(f) \/ PeerResets(f)

(***************************************************************************)
(* The only thread of the server runs whenever poll() returns, and no peer *)
(* keeps its connection and stops reading for good.                        *)
(***************************************************************************)
Fairness == WF_vars(ServerStep) /\ \A f \in Fd : WF_vars(PeerUnblocks(f))

Spec == Init /\ [][Next]_vars /\ Fairness

-----------------------------------------------------------------------------
(***************************************************************************)
(* The poll set lists the listener and every connection once, whatever     *)
(* order entries were appended and erased in during a pass.                *)
(***************************************************************************)
PollSetMatches ==
  server \in {"up", "killed"} =>
    /\ IsInjective([i \in DOMAIN pfds |-> pfds[i].fd])
    /\ {pfds[i].fd : i \in DOMAIN pfds} = connections \cup {Listener}

(***************************************************************************)
(* Every socket the process has open is the listener or one the loop can   *)
(* still reach through connections, whichever addresses were tried before  *)
(* and whoever came and went; when main returns, none is left open.        *)
(***************************************************************************)
DescriptorsOwned ==
  /\ server = "up" => opened = connections \cup {Listener}
  /\ server \in {"starting", "stopped"} => opened = {}

(***************************************************************************)
(* Output never waits with nobody to send it: POLLOUT is armed exactly for *)
(* the clients something is queued for, whichever handler queued it.  The  *)
(* other half is that poll() is not woken for nothing.                     *)
(***************************************************************************)
OutputArmed ==
  \A i \in DOMAIN pfds :
    pfds[i].fd # Listener => ("out" \in pfds[i].events <=> ToSend(pfds[i].fd) # <<>>)

\* The texts produced for f, in the order they get to it.
Stream(f) == sentOff[f] \o ToSend(f)

(***************************************************************************)
(* Through partial sends, failed sends and reuse of descriptors, each text *)
(* produced for a connection is sent or queued once and none is left over  *)
(* from an earlier connection; replies keep their order, messages theirs.  *)
(* Their common order is not kept: a reply passes the outbox.              *)
(***************************************************************************)
LanesAreFifo ==
  \A f \in Fd :
    LET all == Stream(f)
    IN  /\ Len(all) = produced[f]
        /\ {all[i].n : i \in DOMAIN all} = 1 .. produced[f]
        /\ \A i, j \in DOMAIN all : i < j /\ all[i].lane = all[j].lane => all[i].n < all[j].n

(***************************************************************************)
(* No client can end the server: it runs "until a fatal poll error occurs" *)
(* (Server.cpp:270).                                                       *)
(***************************************************************************)
OnlyPollEndsTheServer == server # "killed"

-----------------------------------------------------------------------------
Over(f) == server # "up" \/ f \notin connections

(***************************************************************************)
(* What a client sent is read, although a disconnection makes the loop     *)
(* skip the descriptor behind it, and however others come and go.          *)
(***************************************************************************)
InputIsRead == \A f \in Fd : input[f] ~> ~ input[f] \/ Over(f)

\* The numbers of the texts that wait for f.
Queued(f) == {t.n : t \in ToSet(ToSend(f))}

(***************************************************************************)
(* What is queued for a client is sent, also when another client's command *)
(* queued it and whoever leaves meanwhile.                                 *)
(***************************************************************************)
OutputIsSent ==
  \A f \in Fd : \A n \in 1 .. MaxOut : n \in Queued(f) ~> n \notin Queued(f) \/ Over(f)

(***************************************************************************)
(* A connection whose peer closed or reset it is given up, or the server   *)
(* has ended: handlePollIn ignores the error recv() reports for a reset,   *)
(* and it takes the next pass, with recv() returning 0 for the socket that *)
(* is still readable, to disconnect the client.                            *)
(***************************************************************************)
DeadPeersAreDropped ==
  \A f \in Fd : f \in connections /\ peer[f] # "open" ~> Over(f)

=============================================================================
