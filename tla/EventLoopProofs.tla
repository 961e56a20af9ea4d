--------------------------- MODULE EventLoopProofs ---------------------------
(***************************************************************************)
(* Proofs about EventLoop, for any number of clients and any bounds: the   *)
(* poll set, the open descriptors and the armed events, then what is       *)
(* delivered.  Each handler rewrites the poll set with a few operations on *)
(* lists, whose facts come first.                                          *)
(***************************************************************************)
EXTENDS EventLoop, FiniteSetTheorems, SequenceTheorems, WellFoundedInduction, TLAPS

\* The entries of list are for the descriptors in C and the listener, one each.
Lists(list, C) ==
  /\ \A i, j \in DOMAIN list : list[i].fd = list[j].fd => i = j
  /\ {list[i].fd : i \in DOMAIN list} = C \cup {Listener}

\* OutputArmed for a list and for queues that are yet to be stored.
Armed(list, out, box) ==
  \A i \in DOMAIN list :
    LET g == list[i].fd
    IN  g # Listener => ("out" \in list[i].events <=> out[g] # <<>> \/ box[g] # <<>>)

AnyText == [lane : Lane, n : Nat]

ClientTypes ==
  /\ connections \subseteq Fd /\ registered \subseteq connections
  /\ outBuffer \in [Fd -> Seq(AnyText)] /\ outbox \in [Fd -> Seq(AnyText)]
  /\ produced \in [Fd -> Nat]
  /\ backlog \in Nat

Types ==
  /\ ClientTypes
  /\ pfds \in Seq(Pollfd)
  /\ at \in 0 .. Len(pfds)

\* Nothing is queued for a descriptor without a connection.
NothingForStrangers ==
  \A f \in Fd \ connections : outBuffer[f] = <<>> /\ outbox[f] = <<>>

IndInv ==
  /\ Types
  /\ NothingForStrangers
  /\ PollSetMatches
  /\ DescriptorsOwned
  /\ OutputArmed
  /\ server = "starting" => connections = {} /\ pfds = <<>>

-----------------------------------------------------------------------------
(* Lists and queues.                                                       *)

\* A nonempty set of naturals has a least element.
LEMMA LeastExists ==
  ASSUME NEW S, S \subseteq Nat, S # {}
  PROVE  \E m \in S : \A k \in S : m <= k
<1> DEFINE R == OpToRel(<, Nat)
<1>1. IsWellFoundedOn(R, Nat)
  BY NatLessThanWellFounded, Zenon
<1>2. \A x, y \in Nat : y < x => <<y, x>> \in R
  BY DEF OpToRel
<1> HIDE DEF R
<1>3. PICK m \in S : \A k \in S : ~ (<<k, m>> \in R)
  BY <1>1, WFMin
<1>4. ASSUME NEW k \in S PROVE m <= k
  <2>1. m \in Nat /\ k \in Nat /\ ~ (k < m)
    BY <1>2, <1>3
  <2> QED BY <2>1
<1> QED BY <1>4

\* The loop goes on at an entry of the list, or in poll().
LEMMA ContinueAtStays ==
  ASSUME NEW list \in Seq(Pollfd), NEW i \in Nat \ {0}, ContinueAt(i, list)
  PROVE  pfds' = list /\ at' \in 0 .. Len(list)
<1> DEFINE busy == {j \in i .. Len(list) : list[j].revents # {}}
<1>1. pfds' = list
      /\ at' = IF busy = {} THEN 0 ELSE CHOOSE j \in busy : \A k \in busy : j <= k
  BY DEF ContinueAt
<1>2. busy \subseteq 1 .. Len(list) /\ Len(list) \in Nat
  OBVIOUS
<1> HIDE DEF busy
<1>3. ASSUME busy # {} PROVE at' \in 0 .. Len(list)
  <2> DEFINE IsLeast(j) == \A k \in busy : j <= k
  <2>1. busy \subseteq Nat
    BY <1>2
  <2>2. \E j \in busy : IsLeast(j)
    BY <1>3, <2>1, LeastExists
  <2>3. at' = CHOOSE j \in busy : IsLeast(j)
    BY <1>1, <1>3
  <2> HIDE DEF IsLeast
  <2>4. at' \in busy
    BY <2>2, <2>3, Zenon
  <2> QED BY <1>2, <2>4
<1>4. ASSUME busy = {} PROVE at' \in 0 .. Len(list)
  <2>1. at' = 0
    BY <1>1, <1>4
  <2> QED BY <1>2, <2>1
<1>5. pfds' = list
  BY <1>1
<1> QED BY <1>3, <1>4, <1>5

\* Events may change; the descriptors listed do not.
LEMMA SameDescriptors ==
  ASSUME NEW C, NEW list, NEW new, Lists(list, C), DOMAIN new = DOMAIN list,
         \A i \in DOMAIN list : new[i].fd = list[i].fd
  PROVE  Lists(new, C)
BY DEF Lists

LEMMA ArmSetsEvents ==
  ASSUME NEW list \in Seq(Pollfd), NEW F
  PROVE  /\ Arm(list, F) \in Seq(Pollfd)
         /\ DOMAIN Arm(list, F) = DOMAIN list
         /\ \A i \in DOMAIN list :
              /\ Arm(list, F)[i].fd = list[i].fd
              /\ "out" \in Arm(list, F)[i].events <=>
                   list[i].fd \in F \/ "out" \in list[i].events
<1>1. DOMAIN Arm(list, F) = DOMAIN list /\ DOMAIN list = 1 .. Len(list) /\ Len(list) \in Nat
  BY DEF Arm
<1>2. ASSUME NEW i \in DOMAIN list
      PROVE  /\ Arm(list, F)[i] \in Pollfd
             /\ Arm(list, F)[i].fd = list[i].fd
             /\ "out" \in Arm(list, F)[i].events <=>
                  list[i].fd \in F \/ "out" \in list[i].events
  <2>1. list[i] \in Pollfd
    OBVIOUS
  <2>2. Arm(list, F)[i] = IF list[i].fd \in F
                          THEN [list[i] EXCEPT !.events = list[i].events \cup {"out"}]
                          ELSE list[i]
    BY DEF Arm
  <2>3. CASE list[i].fd \in F
    <3>1. "out" \in Event
      BY DEF Event
    <3> QED BY <2>1, <2>2, <2>3, <3>1 DEF Pollfd
  <2>4. CASE list[i].fd \notin F
    BY <2>1, <2>2, <2>4
  <2> QED BY <2>3, <2>4
<1>3. Arm(list, F) \in [1 .. Len(list) -> Pollfd]
  <2>1. Arm(list, F) = [i \in 1 .. Len(list) |-> Arm(list, F)[i]]
    BY <1>1 DEF Arm
  <2> QED BY <1>1, <1>2, <2>1
<1> QED BY <1>1, <1>2, <1>3

\* Each entry of what is left was in the list, and only entry k is gone.
LEMMA EraseLeaves ==
  ASSUME NEW list \in Seq(Pollfd), NEW k \in DOMAIN list
  PROVE  /\ Erase(list, k) \in Seq(Pollfd)
         /\ DOMAIN Erase(list, k) = 1 .. Len(list) - 1
         /\ \A i \in DOMAIN Erase(list, k) :
              Erase(list, k)[i] = IF i < k THEN list[i] ELSE list[i + 1]
<1> DEFINE front == SubSeq(list, 1, k - 1)
           back  == SubSeq(list, k + 1, Len(list))
<1>1. Len(list) \in Nat /\ k \in 1 .. Len(list)
  OBVIOUS
<1>2. /\ front \in Seq(Pollfd) /\ Len(front) = k - 1
      /\ \A i \in 1 .. k - 1 : front[i] = list[i]
  BY <1>1
<1>3. /\ back \in Seq(Pollfd) /\ Len(back) = Len(list) - k
      /\ \A i \in 1 .. Len(list) - k : back[i] = list[i + k]
  BY <1>1
<1> HIDE DEF front, back
<1>4. Erase(list, k) = front \o back
  BY DEF Erase, RemoveAt, front, back
<1>5. /\ front \o back \in Seq(Pollfd)
      /\ Len(front \o back) = Len(list) - 1
      /\ \A i \in 1 .. Len(list) - 1 :
           (front \o back)[i] = IF i < k THEN front[i] ELSE back[i - (k - 1)]
  <2>1. /\ front \o back \in Seq(Pollfd)
        /\ Len(front \o back) = Len(front) + Len(back)
        /\ \A i \in 1 .. Len(front) + Len(back) :
             (front \o back)[i] = IF i <= Len(front) THEN front[i] ELSE back[i - Len(front)]
    BY <1>2, <1>3, ConcatProperties
  <2>2. Len(front) + Len(back) = Len(list) - 1
    BY <1>1, <1>2, <1>3
  <2>3. \A i \in 1 .. Len(list) - 1 : i <= Len(front) <=> i < k
    BY <1>1, <1>2
  <2> QED BY <1>2, <2>1, <2>2, <2>3
<1>6. ASSUME NEW i \in 1 .. Len(list) - 1
      PROVE  (front \o back)[i] = IF i < k THEN list[i] ELSE list[i + 1]
  <2>1. CASE i < k
    BY <1>1, <1>2, <1>5, <2>1
  <2>2. CASE ~ i < k
    <3>1. i - (k - 1) \in 1 .. Len(list) - k /\ (i - (k - 1)) + k = i + 1
      BY <1>1, <2>2
    <3>2. back[i - (k - 1)] = list[(i - (k - 1)) + k]
      BY <1>3, <3>1
    <3> QED BY <1>5, <2>2, <3>1, <3>2
  <2> QED BY <2>1, <2>2
<1>7. DOMAIN (front \o back) = 1 .. Len(list) - 1
  BY <1>1, <1>5
<1> HIDE DEF Erase
<1> QED BY <1>4, <1>5, <1>6, <1>7

LEMMA EraseUnlists ==
  ASSUME NEW C, NEW list \in Seq(Pollfd), Lists(list, C), NEW k \in DOMAIN list,
         list[k].fd # Listener
  PROVE  Lists(Erase(list, k), C \ {list[k].fd})
<1> DEFINE left == Erase(list, k)
<1>1. /\ DOMAIN list = 1 .. Len(list) /\ Len(list) \in Nat
      /\ DOMAIN left = 1 .. Len(list) - 1
      /\ \A i \in DOMAIN left : left[i] = IF i < k THEN list[i] ELSE list[i + 1]
  BY EraseLeaves
<1> HIDE DEF left
<1>2. \A i, j \in DOMAIN left : left[i].fd = left[j].fd => i = j
  <2> SUFFICES ASSUME NEW i \in DOMAIN left, NEW j \in DOMAIN left, left[i].fd = left[j].fd
               PROVE  i = j
    OBVIOUS
  <2> DEFINE a == IF i < k THEN i ELSE i + 1
             b == IF j < k THEN j ELSE j + 1
  <2>1. a \in DOMAIN list /\ b \in DOMAIN list /\ left[i] = list[a] /\ left[j] = list[b]
    BY <1>1
  <2>2. a = b
    BY <2>1 DEF Lists
  <2> QED BY <1>1, <2>2
<1>3. {left[i].fd : i \in DOMAIN left} = {list[i].fd : i \in DOMAIN list} \ {list[k].fd}
  <2>1. ASSUME NEW i \in DOMAIN left
        PROVE  left[i].fd \in {list[j].fd : j \in DOMAIN list} \ {list[k].fd}
    <3> DEFINE a == IF i < k THEN i ELSE i + 1
    <3>1. k \in Nat /\ i \in Nat
      BY <1>1
    <3>2. a \in DOMAIN list /\ a # k /\ left[i] = list[a]
      BY <1>1, <3>1
    <3> HIDE DEF a
    <3> QED BY <3>2 DEF Lists
  <2>2. ASSUME NEW a \in DOMAIN list, list[a].fd # list[k].fd
        PROVE  \E i \in DOMAIN left : left[i].fd = list[a].fd
    <3>1. a \in Nat /\ k \in Nat /\ a # k
      BY <1>1, <2>2
    <3>2. CASE a < k
      <4>1. a \in DOMAIN left /\ left[a] = list[a]
        BY <1>1, <3>1, <3>2
      <4> QED BY <4>1
    <3>3. CASE a > k
      <4>1. a - 1 \in DOMAIN left /\ ~ a - 1 < k /\ (a - 1) + 1 = a
        BY <1>1, <3>1, <3>3
      <4>2. left[a - 1] = list[(a - 1) + 1]
        BY <1>1, <4>1
      <4> QED BY <4>1, <4>2
    <3> QED BY <3>1, <3>2, <3>3
  <2> QED BY <2>1, <2>2
<1> QED BY <1>2, <1>3 DEF Lists, left

LEMMA OutputIsEither ==
  ASSUME NEW s \in Seq(AnyText), NEW t \in Seq(AnyText)
  PROVE  s \o t # <<>> <=> s # <<>> \/ t # <<>>
BY ConcatEqualIffEmpty

-----------------------------------------------------------------------------
(* The invariant while the loop runs.                                      *)

LEMMA WhileUp ==
  ASSUME IndInv, server = "up"
  PROVE  /\ Lists(pfds, connections)
         /\ opened = connections \cup {Listener}
         /\ Armed(pfds, outBuffer, outbox)
<1> USE DEF IndInv, Types, ClientTypes
<1>1. Lists(pfds, connections)
  BY DEF PollSetMatches, Lists, IsInjective
<1>2. opened = connections \cup {Listener}
  BY DEF DescriptorsOwned
<1>3. Armed(pfds, outBuffer, outbox)
  <2> SUFFICES ASSUME NEW i \in DOMAIN pfds, NEW g, g = pfds[i].fd, g # Listener
               PROVE  "out" \in pfds[i].events <=> outBuffer[g] # <<>> \/ outbox[g] # <<>>
    BY DEF Armed
  <2>1. pfds[i] \in Pollfd
    OBVIOUS
  <2>2. g \in Fd
    BY <2>1 DEF Pollfd
  <2>3. "out" \in pfds[i].events <=> outBuffer[g] \o outbox[g] # <<>>
    BY DEF OutputArmed, ToSend
  <2>4. outBuffer[g] \in Seq(AnyText) /\ outbox[g] \in Seq(AnyText)
    BY <2>2
  <2> QED BY <2>3, <2>4, OutputIsEither
<1> QED BY <1>1, <1>2, <1>3

LEMMA StaysUp ==
  ASSUME Types', server' \in {"up", "killed"}, Lists(pfds', connections'),
         opened' = connections' \cup {Listener}, Armed(pfds', outBuffer', outbox'),
         NothingForStrangers'
  PROVE  IndInv'
<1>1. PollSetMatches'
  BY DEF PollSetMatches, Lists, IsInjective
<1>2. DescriptorsOwned'
  BY DEF DescriptorsOwned
<1>3. OutputArmed'
  <2> SUFFICES ASSUME NEW i \in DOMAIN pfds', NEW g, g = pfds'[i].fd, g # Listener
               PROVE  "out" \in pfds'[i].events <=> outBuffer'[g] \o outbox'[g] # <<>>
    BY DEF OutputArmed, ToSend
  <2>1. pfds'[i] \in Pollfd
    BY DEF Types
  <2>2. g \in Fd
    BY <2>1 DEF Pollfd
  <2>3. outBuffer'[g] \in Seq(AnyText) /\ outbox'[g] \in Seq(AnyText)
    BY <2>2 DEF Types, ClientTypes
  <2> QED BY <2>3, OutputIsEither DEF Armed
<1> QED BY <1>1, <1>2, <1>3 DEF IndInv

\* The descriptor a handler is called for is one of a connection.
LEMMA ServedIsConnected ==
  ASSUME IndInv, server = "up", NEW f \in Fd, NEW e, Serves(f, e)
  PROVE  /\ at \in DOMAIN pfds /\ at \in Nat /\ pfds[at] \in Pollfd /\ pfds[at].fd = f
         /\ f \in connections
         /\ f # Listener
<1>1. at \in DOMAIN pfds /\ at \in Nat /\ pfds[at].fd = f /\ pfds[at] \in Pollfd
  BY DEF Serves, IndInv, Types
<1> QED BY <1>1, WhileUp, EventLoopAssumption DEF Lists

-----------------------------------------------------------------------------
(* Startup, poll() and accept().                                           *)

LEMMA StartKeepsIndInv ==
  ASSUME IndInv, Start
  PROVE  IndInv'
<1> USE DEF IndInv, Types, ClientTypes, Start
<1>1. CASE GiveUp \/ RejectCandidate
  <2>1. opened = {} /\ opened' = {} /\ server' \in {"starting", "stopped"} /\ server = "starting"
    BY <1>1 DEF GiveUp, RejectCandidate, DescriptorsOwned
  <2>2. UNCHANGED <<pfds, connections, registered, outBuffer, outbox, produced, at, backlog>>
    BY <1>1 DEF GiveUp, RejectCandidate, history, sockets
  <2> QED BY <2>1, <2>2 DEF NothingForStrangers, PollSetMatches, DescriptorsOwned,
          OutputArmed, ToSend
<1>2. CASE Listen
  <2> DEFINE first == [fd |-> Listener, events |-> {"in"}, revents |-> {}]
  <2>1. /\ server' = "up" /\ opened' = {Listener} /\ connections' = {}
        /\ pfds' = <<first>> /\ at' = at
        /\ UNCHANGED <<connections, registered, outBuffer, outbox, produced, backlog>>
    BY <1>2 DEF Listen, DescriptorsOwned, history, sockets
  <2>2. first \in Pollfd /\ at = 0
    BY <1>2 DEF Pollfd, Event, Listen
  <2> HIDE DEF first
  <2>3. DOMAIN pfds' = {1} /\ pfds'[1] = first /\ Len(pfds') = 1 /\ pfds' \in Seq(Pollfd)
    BY <2>1, <2>2
  <2>4. first.fd = Listener
    BY DEF first
  <2>5. Types' /\ NothingForStrangers'
    BY <2>1, <2>2, <2>3 DEF NothingForStrangers
  <2>6. Lists(pfds', connections')
    BY <2>1, <2>3, <2>4 DEF Lists
  <2>7. Armed(pfds', outBuffer', outbox')
    BY <2>3, <2>4 DEF Armed
  <2> QED BY <2>1, <2>5, <2>6, <2>7, StaysUp
<1> QED BY <1>1, <1>2

\* A handler ends by going on with a new list.
LEMMA GoesOn ==
  ASSUME NEW list \in Seq(Pollfd), NEW i \in Nat \ {0}, ContinueAt(i, list),
         ClientTypes', server' \in {"up", "killed"}, Lists(list, connections'),
         opened' = connections' \cup {Listener}, Armed(list, outBuffer', outbox'),
         NothingForStrangers'
  PROVE  IndInv'
<1>1. pfds' = list /\ at' \in 0 .. Len(list)
  BY ContinueAtStays
<1> QED BY <1>1, StaysUp DEF Types

LEMMA SameArms ==
  ASSUME NEW list, NEW new, NEW out, NEW box, Armed(list, out, box), DOMAIN new = DOMAIN list,
         \A i \in DOMAIN list : /\ new[i].fd = list[i].fd
                                /\ "out" \in new[i].events <=> "out" \in list[i].events
  PROVE  Armed(new, out, box)
BY DEF Armed

\* A list with one entry replaced by one for the same descriptor.
LEMMA EntryChanges ==
  ASSUME NEW C, NEW list \in Seq(Pollfd), NEW k \in DOMAIN list, NEW p \in Pollfd,
         p.fd = list[k].fd, Lists(list, C)
  PROVE  /\ [list EXCEPT ![k] = p] \in Seq(Pollfd)
         /\ Lists([list EXCEPT ![k] = p], C)
         /\ DOMAIN [list EXCEPT ![k] = p] = DOMAIN list
         /\ \A i \in DOMAIN list : [list EXCEPT ![k] = p][i] = IF i = k THEN p ELSE list[i]
<1> DEFINE new == [list EXCEPT ![k] = p]
<1>1. /\ new \in Seq(Pollfd) /\ DOMAIN new = DOMAIN list
      /\ \A i \in DOMAIN list : new[i] = IF i = k THEN p ELSE list[i]
  BY ExceptSeq
<1> HIDE DEF new
<1>2. Lists(new, C)
  BY <1>1, SameDescriptors
<1> QED BY <1>1, <1>2 DEF new

\* What poll() returned may be cleared.
LEMMA ReventsChange ==
  ASSUME NEW C, NEW list \in Seq(Pollfd), NEW k \in DOMAIN list, NEW R \in SUBSET Event,
         Lists(list, C), NEW out, NEW box, Armed(list, out, box)
  PROVE  /\ [list EXCEPT ![k].revents = R] \in Seq(Pollfd)
         /\ Lists([list EXCEPT ![k].revents = R], C)
         /\ Armed([list EXCEPT ![k].revents = R], out, box)
<1> DEFINE p == [list[k] EXCEPT !.revents = R]
<1>1. p \in Pollfd /\ p.fd = list[k].fd /\ p.events = list[k].events
  <2>1. list[k] \in Pollfd
    OBVIOUS
  <2> QED BY <2>1 DEF Pollfd
<1>2. [list EXCEPT ![k].revents = R] = [list EXCEPT ![k] = p]
  OBVIOUS
<1> HIDE DEF p
<1> QED BY <1>1, <1>2, EntryChanges, SameArms

LEMMA PollKeepsIndInv ==
  ASSUME IndInv, server = "up", Poll
  PROVE  IndInv'
<1> USE DEF Poll, process
<1> DEFINE list == [i \in DOMAIN pfds |-> [pfds[i] EXCEPT !.revents = Ready(pfds[i])]]
<1>1. DOMAIN pfds = 1 .. Len(pfds) /\ Len(pfds) \in Nat
  BY DEF IndInv, Types
<1>2. ASSUME NEW i \in DOMAIN pfds
      PROVE  list[i] \in Pollfd /\ list[i].fd = pfds[i].fd /\ list[i].events = pfds[i].events
  <2>1. pfds[i] \in Pollfd
    BY DEF IndInv, Types
  <2>2. Ready(pfds[i]) \in SUBSET Event
    BY <2>1 DEF Ready, Pollfd, Event
  <2> QED BY <2>1, <2>2 DEF Pollfd
<1>3. list \in Seq(Pollfd) /\ DOMAIN list = DOMAIN pfds
  <2>1. list \in [1 .. Len(pfds) -> Pollfd]
    BY <1>1, <1>2
  <2> QED BY <1>1, <2>1
<1>4. ContinueAt(1, list)
  OBVIOUS
<1> HIDE DEF list
<1>5. Lists(list, connections') /\ Armed(list, outBuffer', outbox')
  BY <1>2, <1>3, WhileUp, SameDescriptors, SameArms
<1>6. opened' = connections' \cup {Listener} /\ server' = "up"
  BY WhileUp
<1>7. ClientTypes' /\ NothingForStrangers'
  BY DEF IndInv, Types, ClientTypes, NothingForStrangers, sockets, history
<1> QED BY <1>3, <1>4, <1>5, <1>6, <1>7, GoesOn

\* close_all() leaves nothing open.
LEMMA PollFailsKeepsIndInv ==
  ASSUME IndInv, server = "up", PollFails
  PROVE  IndInv'
<1>1. opened' = {}
  <2>1. connections \subseteq {f \in connections : \E i \in DOMAIN pfds : pfds[i].fd = f}
    BY WhileUp DEF Lists
  <2> QED BY <2>1, WhileUp DEF PollFails, CloseAll
<1>2. pfds' = <<>> /\ at' = 0 /\ server' = "stopped"
  BY DEF PollFails, CloseAll
<1>3. UNCHANGED <<connections, registered, outBuffer, outbox, produced, backlog>>
  BY DEF PollFails, sockets, history
<1>4. Types' /\ NothingForStrangers'
  <2>1. pfds' \in Seq(Pollfd) /\ at' \in 0 .. Len(pfds')
    BY <1>2
  <2> QED BY <1>3, <2>1 DEF IndInv, Types, ClientTypes, NothingForStrangers
<1>5. PollSetMatches' /\ DescriptorsOwned'
  BY <1>1, <1>2 DEF PollSetMatches, DescriptorsOwned
<1>6. OutputArmed'
  BY <1>2 DEF OutputArmed
<1> QED BY <1>2, <1>4, <1>5, <1>6 DEF IndInv

\* The entries of ext are for the descriptors in D, none of them in C.
Fresh(ext, C, D) ==
  /\ \A i, j \in DOMAIN ext : ext[i].fd = ext[j].fd => i = j
  /\ {ext[i].fd : i \in DOMAIN ext} = D
  /\ D \cap (C \cup {Listener}) = {}

\* The entries of both are those of list and of ext, the former in their places.
Joins(both, list, ext) ==
  /\ DOMAIN list \subseteq DOMAIN both
  /\ \A i \in DOMAIN both : \/ i \in DOMAIN list /\ both[i] = list[i]
                            \/ \E j \in DOMAIN ext : both[i] = ext[j]

\* Entries for new descriptors are appended.
LEMMA AppendedLists ==
  ASSUME NEW C, NEW D, NEW list \in Seq(Pollfd), Lists(list, C),
         NEW ext \in Seq(Pollfd), Fresh(ext, C, D)
  PROVE  /\ list \o ext \in Seq(Pollfd)
         /\ Lists(list \o ext, C \cup D)
         /\ Joins(list \o ext, list, ext)
<1> DEFINE both == list \o ext
           n    == Len(ext)
<1>1. n \in Nat /\ DOMAIN ext = 1 .. n
  OBVIOUS
<1>2. Len(list) \in Nat /\ DOMAIN list = 1 .. Len(list)
  OBVIOUS
<1>3. /\ both \in Seq(Pollfd)
      /\ DOMAIN both = 1 .. Len(list) + n
      /\ \A i \in 1 .. Len(list) + n :
           both[i] = IF i <= Len(list) THEN list[i] ELSE ext[i - Len(list)]
  BY <1>1, <1>2, ConcatProperties
<1> HIDE DEF n, both
<1>4. \A j \in 1 .. n : Len(list) + j \in DOMAIN both /\ both[Len(list) + j] = ext[j]
  <2> SUFFICES ASSUME NEW j \in 1 .. n
               PROVE  Len(list) + j \in DOMAIN both /\ both[Len(list) + j] = ext[j]
    OBVIOUS
  <2>1. /\ Len(list) + j \in 1 .. Len(list) + n /\ ~ Len(list) + j <= Len(list)
        /\ (Len(list) + j) - Len(list) = j
    BY <1>1, <1>2
  <2>2. both[Len(list) + j] = ext[(Len(list) + j) - Len(list)]
    BY <1>3, <2>1
  <2> QED BY <1>3, <2>1, <2>2
<1>5. ASSUME NEW i \in DOMAIN both
      PROVE  \/ i \in DOMAIN list /\ both[i] = list[i]
             \/ \E j \in 1 .. n : i = Len(list) + j /\ both[i] = ext[j]
  <2>1. CASE i <= Len(list)
    BY <1>2, <1>3, <2>1
  <2>2. CASE ~ i <= Len(list)
    <3>1. i - Len(list) \in 1 .. n /\ i = Len(list) + (i - Len(list))
      BY <1>1, <1>2, <1>3, <2>2
    <3>2. both[i] = ext[i - Len(list)]
      BY <1>3, <2>2
    <3> QED BY <3>1, <3>2
  <2> QED BY <2>1, <2>2
<1>6. DOMAIN list \subseteq DOMAIN both /\ \A i \in DOMAIN list : both[i] = list[i]
  BY <1>1, <1>2, <1>3
<1>7. \A i, j \in DOMAIN both : both[i].fd = both[j].fd => i = j
  <2> SUFFICES ASSUME NEW i \in DOMAIN both, NEW j \in DOMAIN both, both[i].fd = both[j].fd
               PROVE  i = j
    OBVIOUS
  <2>1. \A k \in DOMAIN list : list[k].fd \in C \cup {Listener}
    BY DEF Lists
  <2>2. \A k \in 1 .. n : ext[k].fd \in D
    BY <1>1 DEF Fresh
  <2>3. CASE both[i].fd \in C \cup {Listener}
    <3>1. i \in DOMAIN list /\ both[i] = list[i] /\ j \in DOMAIN list /\ both[j] = list[j]
      BY <1>5, <2>2, <2>3 DEF Fresh
    <3> QED BY <3>1 DEF Lists
  <2>4. CASE both[i].fd \notin C \cup {Listener}
    <3>1. PICK k \in 1 .. n : i = Len(list) + k /\ both[i] = ext[k]
      BY <1>5, <2>1, <2>4
    <3>2. PICK m \in 1 .. n : j = Len(list) + m /\ both[j] = ext[m]
      BY <1>5, <2>1, <2>4
    <3>3. k = m
      BY <1>1, <3>1, <3>2 DEF Fresh
    <3> QED BY <3>1, <3>2, <3>3
  <2> QED BY <2>3, <2>4
<1>8. {both[i].fd : i \in DOMAIN both} = (C \cup D) \cup {Listener}
  <2>1. ASSUME NEW i \in DOMAIN both PROVE both[i].fd \in (C \cup D) \cup {Listener}
    <3>1. CASE i \in DOMAIN list /\ both[i] = list[i]
      BY <3>1 DEF Lists
    <3>2. ASSUME NEW j \in 1 .. n, both[i] = ext[j] PROVE both[i].fd \in D
      BY <1>1, <3>2 DEF Fresh
    <3> QED BY <1>5, <3>1, <3>2
  <2>2. ASSUME NEW g \in C \cup {Listener} PROVE g \in {both[i].fd : i \in DOMAIN both}
    <3>1. PICK i \in DOMAIN list : g = list[i].fd
      BY DEF Lists
    <3> QED BY <1>6, <3>1
  <2>3. ASSUME NEW g \in D PROVE g \in {both[i].fd : i \in DOMAIN both}
    <3>1. PICK j \in DOMAIN ext : g = ext[j].fd
      BY DEF Fresh
    <3> QED BY <1>1, <1>4, <3>1
  <2> QED BY <2>1, <2>2, <2>3
<1> QED BY <1>1, <1>3, <1>5, <1>6, <1>7, <1>8 DEF Lists, Joins, both

LEMMA HandleConnectionKeepsIndInv ==
  ASSUME IndInv, server = "up", HandleConnection
  PROVE  IndInv'
<1>1. PICK new \in Accepted :
        LET list == pfds \o [i \in DOMAIN new |->
                               [fd |-> new[i], events |-> {"in"}, revents |-> {}]]
        IN  /\ connections' = connections \cup Range(new)
            /\ opened' = opened \cup Range(new)
            /\ backlog' = backlog - Len(new)
            /\ ContinueAt(at + 1, [list EXCEPT ![at].revents = {}])
  BY DEF HandleConnection
<1> DEFINE free == Fd \ opened
           n    == IF backlog < Cardinality(free) THEN backlog ELSE Cardinality(free)
<1>2. new \in [1 .. n -> free] /\ IsInjective(new)
  BY DEF Accepted
<1>3. n \in Nat /\ backlog - n \in Nat
  <2>1. Cardinality(free) \in Nat
    BY EventLoopAssumption, FS_Subset, FS_CardinalityType
  <2>2. backlog \in Nat
    BY DEF IndInv, Types, ClientTypes
  <2> HIDE DEF free
  <2>3. CASE backlog < Cardinality(free)
    <3>1. n = backlog
      BY <2>3
    <3> QED BY <2>2, <3>1
  <2>4. CASE ~ backlog < Cardinality(free)
    <3>1. n = Cardinality(free)
      BY <2>4
    <3> HIDE DEF n
    <3> QED BY <2>1, <2>2, <2>4, <3>1
  <2> QED BY <2>3, <2>4
<1> HIDE DEF n
<1>4. DOMAIN new = 1 .. n /\ Len(new) = n
  <2>1. new \in Seq(free)
    BY <1>2, <1>3
  <2> QED BY <1>2, <1>3, <2>1
<1>5. free = Fd \ (connections \cup {Listener})
  BY WhileUp
<1> DEFINE ext  == [i \in 1 .. n |-> [fd |-> new[i], events |-> {"in"}, revents |-> {}]]
           list == pfds \o ext
<1>6. ContinueAt(at + 1, [list EXCEPT ![at].revents = {}])
  BY <1>1, <1>4
<1>7. \A i \in 1 .. n : /\ ext[i] \in Pollfd /\ ext[i].fd = new[i]
                         /\ new[i] \in Fd \ (connections \cup {Listener})
                         /\ "out" \notin ext[i].events
  <2>1. ASSUME NEW i \in 1 .. n PROVE new[i] \in Fd \ (connections \cup {Listener})
    BY <1>2, <1>5
  <2> QED BY <2>1 DEF Pollfd, Event
<1>8. ext \in Seq(Pollfd) /\ DOMAIN ext = 1 .. n
  <2>1. ext \in [1 .. n -> Pollfd]
    BY <1>7
  <2> QED BY <1>3, <2>1
<1> HIDE DEF free, ext
<1>9. Range(new) \cap (connections \cup {Listener}) = {} /\ Range(new) \subseteq Fd
  BY <1>4, <1>7 DEF Range
<1>10. Fresh(ext, connections, Range(new))
  <2>1. \A i, j \in DOMAIN ext : ext[i].fd = ext[j].fd => i = j
    BY <1>2, <1>7, <1>8 DEF IsInjective
  <2>2. {ext[i].fd : i \in DOMAIN ext} = Range(new)
    BY <1>4, <1>7, <1>8 DEF Range
  <2> QED BY <1>9, <2>1, <2>2 DEF Fresh
<1>11. /\ list \in Seq(Pollfd)
       /\ Lists(list, connections \cup Range(new))
       /\ Joins(list, pfds, ext)
  <2>1. Lists(pfds, connections) /\ pfds \in Seq(Pollfd)
    BY WhileUp DEF IndInv, Types
  <2> QED BY <1>8, <1>10, <2>1, AppendedLists
<1> HIDE DEF list
<1>12. Armed(list, outBuffer, outbox)
  <2> SUFFICES ASSUME NEW i \in DOMAIN list, list[i].fd # Listener
               PROVE  "out" \in list[i].events <=>
                        outBuffer[list[i].fd] # <<>> \/ outbox[list[i].fd] # <<>>
    BY DEF Armed
  <2>1. CASE i \in DOMAIN pfds /\ list[i] = pfds[i]
    BY <2>1, WhileUp DEF Armed
  <2>2. ASSUME NEW j \in DOMAIN ext, list[i] = ext[j]
        PROVE  "out" \in list[i].events <=>
                 outBuffer[list[i].fd] # <<>> \/ outbox[list[i].fd] # <<>>
    BY <1>7, <1>8, <2>2 DEF IndInv, NothingForStrangers
  <2> QED BY <1>11, <2>1, <2>2 DEF Joins
<1>13. at \in DOMAIN list /\ at + 1 \in Nat \ {0}
  BY <1>11 DEF Joins, HandleConnection, Serves, IndInv, Types
<1>14. /\ [list EXCEPT ![at].revents = {}] \in Seq(Pollfd)
       /\ Lists([list EXCEPT ![at].revents = {}], connections')
       /\ Armed([list EXCEPT ![at].revents = {}], outBuffer', outbox')
  <2>1. connections' = connections \cup Range(new) /\ outBuffer' = outBuffer /\ outbox' = outbox
    BY <1>1 DEF HandleConnection
  <2> QED BY <1>12, <1>13, <1>11, <2>1, ReventsChange DEF Event
<1>15. ClientTypes' /\ NothingForStrangers'
  BY <1>1, <1>3, <1>4, <1>9 DEF HandleConnection, IndInv, Types, ClientTypes, NothingForStrangers, history
<1>16. opened' = connections' \cup {Listener} /\ server' = "up"
  BY <1>1, WhileUp DEF HandleConnection
<1> QED BY <1>6, <1>13, <1>14, <1>15, <1>16, GoesOn

-----------------------------------------------------------------------------
(* recv(), disconnect() and send().                                        *)

\* Exactly the clients that are sent something have something queued anew.
LEMMA QueuesGrow ==
  ASSUME ClientTypes, NEW R, NEW G
  PROVE  /\ Produced(R, G) \in [Fd -> Nat]
         /\ Replied(R) \in [Fd -> Seq(AnyText)]
         /\ Enqueued(R, G) \in [Fd -> Seq(AnyText)]
         /\ \A g \in Fd : /\ Replied(R)[g] # <<>> <=> g \in R \/ outBuffer[g] # <<>>
                          /\ Enqueued(R, G)[g] # <<>> <=> g \in G \/ outbox[g] # <<>>
<1>1. ASSUME NEW S, NEW g PROVE Cardinality({g} \cap S) \in Nat
  <2>1. IsFiniteSet({g} \cap S)
    BY FS_Singleton, FS_Intersection
  <2> QED BY <2>1, FS_CardinalityType
<1>2. ASSUME NEW g \in Fd PROVE Numbered(g) \in Nat
  BY DEF Numbered, ClientTypes
<1>3. ASSUME NEW g \in Fd PROVE Produced(R, G)[g] \in Nat
  <2> DEFINE more == Numbered(g) + Cardinality({g} \cap R) + Cardinality({g} \cap G)
  <2>1. more \in Nat
    <3>1. Cardinality({g} \cap R) \in Nat /\ Cardinality({g} \cap G) \in Nat
      BY <1>1
    <3> QED BY <1>2, <3>1
  <2>2. Produced(R, G)[g] = IF g \notin R \cup G THEN produced[g] ELSE more
    BY DEF Produced
  <2>3. produced[g] \in Nat
    BY DEF ClientTypes
  <2> HIDE DEF more
  <2> QED BY <2>1, <2>2, <2>3
<1>4. ASSUME NEW g \in Fd
      PROVE  /\ Replied(R)[g] \in Seq(AnyText)
             /\ Replied(R)[g] # <<>> <=> g \in R \/ outBuffer[g] # <<>>
  <2> DEFINE t == [lane |-> "reply", n |-> Numbered(g) + 1]
  <2>1. t \in AnyText
    BY <1>2 DEF AnyText, Lane
  <2>2. outBuffer[g] \in Seq(AnyText)
    BY DEF ClientTypes
  <2>3. Replied(R)[g] = IF g \notin R THEN outBuffer[g] ELSE Append(outBuffer[g], t)
    BY DEF Replied
  <2> HIDE DEF t
  <2> QED BY <2>1, <2>2, <2>3, AppendProperties
<1>5. ASSUME NEW g \in Fd
      PROVE  /\ Enqueued(R, G)[g] \in Seq(AnyText)
             /\ Enqueued(R, G)[g] # <<>> <=> g \in G \/ outbox[g] # <<>>
  <2> DEFINE t == [lane |-> "message", n |-> Produced(R, G)[g]]
  <2>1. t \in AnyText
    BY <1>3 DEF AnyText, Lane
  <2>2. outbox[g] \in Seq(AnyText)
    BY DEF ClientTypes
  <2>3. Enqueued(R, G)[g] = IF g \notin G THEN outbox[g] ELSE Append(outbox[g], t)
    BY DEF Enqueued
  <2> HIDE DEF t
  <2> QED BY <2>1, <2>2, <2>3, AppendProperties
<1>6. Produced(R, G) \in [Fd -> Nat]
  BY <1>3 DEF Produced
<1>7. Replied(R) \in [Fd -> Seq(AnyText)]
  BY <1>4 DEF Replied
<1>8. Enqueued(R, G) \in [Fd -> Seq(AnyText)]
  BY <1>5 DEF Enqueued
<1> QED BY <1>4, <1>5, <1>6, <1>7, <1>8

\* Arming the clients something is queued for anew leaves the list armed.
LEMMA ArmedAgain ==
  ASSUME NEW list \in Seq(Pollfd), NEW out, NEW box, Armed(list, out, box),
         NEW F, NEW more, NEW others,
         \A i \in DOMAIN list :
           LET g == list[i].fd
           IN  g # Listener => ( more[g] # <<>> \/ others[g] # <<>>
                                 <=> g \in F \/ out[g] # <<>> \/ box[g] # <<>> )
  PROVE  Armed(Arm(list, F), more, others)
<1> SUFFICES ASSUME NEW i \in DOMAIN Arm(list, F), NEW g, g = Arm(list, F)[i].fd, g # Listener
             PROVE  "out" \in Arm(list, F)[i].events <=> more[g] # <<>> \/ others[g] # <<>>
  BY DEF Armed
<1>1. i \in DOMAIN list /\ g = list[i].fd
  BY ArmSetsEvents
<1>2. "out" \in Arm(list, F)[i].events <=> g \in F \/ "out" \in list[i].events
  BY <1>1, ArmSetsEvents
<1>3. "out" \in list[i].events <=> out[g] # <<>> \/ box[g] # <<>>
  BY <1>1 DEF Armed
<1> QED BY <1>1, <1>2, <1>3

\* PolledIn keeps the list as it must be.
LEMMA PolledInStays ==
  ASSUME IndInv, server = "up", at \in DOMAIN pfds
  PROVE  /\ PolledIn \in Seq(Pollfd)
         /\ Lists(PolledIn, connections)
         /\ Armed(PolledIn, outBuffer, outbox)
<1> DEFINE R == pfds[at].revents \ {"in"}
<1>1. R \in SUBSET Event
  <2>1. pfds[at] \in Pollfd
    BY DEF IndInv, Types
  <2> QED BY <2>1 DEF Pollfd
<1>2. PolledIn = [pfds EXCEPT ![at].revents = R]
  BY DEF PolledIn
<1>3. pfds \in Seq(Pollfd)
  BY DEF IndInv, Types
<1> HIDE DEF R
<1> QED BY <1>1, <1>2, <1>3, WhileUp, ReventsChange

LEMMA ReceiveKeepsIndInv ==
  ASSUME IndInv, server = "up", NEW f \in Fd, Serves(f, "in"),
         NEW R, R \subseteq {f}, NEW users, users \in {registered, registered \cup {f}},
         NEW G, G \subseteq users, Receive(f, R, users, G)
  PROVE  IndInv'
<1> DEFINE F    == R \cup PendingOutboxes(users, outbox')
           list == Arm(PolledIn, F)
<1>1. /\ registered' = users /\ produced' = Produced(R, G)
      /\ outBuffer' = Replied(R) /\ outbox' = Enqueued(R, G)
      /\ ContinueAt(at, list)
      /\ UNCHANGED <<server, opened, connections, backlog>>
  BY DEF Receive, process
<1>2. /\ at \in DOMAIN pfds /\ at \in Nat \ {0} /\ f \in connections
  BY ServedIsConnected DEF Serves
<1>3. ClientTypes /\ users \subseteq connections /\ NothingForStrangers
  BY <1>2 DEF IndInv, Types, ClientTypes
<1>4. ClientTypes'
  BY <1>1, <1>3, QueuesGrow DEF ClientTypes
<1>5. NothingForStrangers'
  <2> SUFFICES ASSUME NEW g \in Fd \ connections
               PROVE  Replied(R)[g] = <<>> /\ Enqueued(R, G)[g] = <<>>
    BY <1>1 DEF NothingForStrangers
  <2>1. g \notin R /\ g \notin G /\ outBuffer[g] = <<>> /\ outbox[g] = <<>>
    BY <1>2, <1>3 DEF NothingForStrangers
  <2> QED BY <1>3, <2>1, QueuesGrow
<1>6. list \in Seq(Pollfd) /\ Lists(list, connections')
  BY <1>1, <1>2, PolledInStays, ArmSetsEvents, SameDescriptors
<1>7. Armed(list, outBuffer', outbox')
  <2>1. PolledIn \in Seq(Pollfd) /\ Armed(PolledIn, outBuffer, outbox)
    BY <1>2, PolledInStays
  <2>2. ASSUME NEW g \in Fd
        PROVE  outBuffer'[g] # <<>> \/ outbox'[g] # <<>>
                 <=> g \in F \/ outBuffer[g] # <<>> \/ outbox[g] # <<>>
    BY <1>1, <1>3, QueuesGrow DEF PendingOutboxes
  <2>3. ASSUME NEW i \in DOMAIN PolledIn, PolledIn[i].fd # Listener
        PROVE  PolledIn[i].fd \in Fd
    <3>1. PolledIn[i] \in Pollfd
      BY <2>1
    <3> QED BY <2>3, <3>1 DEF Pollfd
  <2> HIDE DEF F
  <2>4. \A i \in DOMAIN PolledIn :
          LET g == PolledIn[i].fd
          IN  g # Listener => ( outBuffer'[g] # <<>> \/ outbox'[g] # <<>>
                                <=> g \in F \/ outBuffer[g] # <<>> \/ outbox[g] # <<>> )
    BY <2>2, <2>3
  <2> DEFINE more == outBuffer'
             others == outbox'
             polled == PolledIn
  <2> HIDE DEF more, others, polled
  <2>5. Armed(Arm(polled, F), more, others)
    BY <2>1, <2>4, ArmedAgain DEF more, others, polled
  <2> QED BY <2>5 DEF more, others, polled
<1>8. opened' = connections' \cup {Listener} /\ server' = "up"
  BY <1>1, WhileUp
<1> HIDE DEF list
<1> QED BY <1>1, <1>2, <1>4, <1>5, <1>6, <1>7, <1>8, GoesOn

LEMMA IgnoreErrorKeepsIndInv ==
  ASSUME IndInv, server = "up", NEW f \in Fd, Serves(f, "in"), IgnoreError(f)
  PROVE  IndInv'
<1>1. at \in DOMAIN pfds /\ at \in Nat \ {0}
  BY ServedIsConnected DEF Serves
<1>2. ContinueAt(at, PolledIn) /\ PolledIn \in Seq(Pollfd) /\ Lists(PolledIn, connections')
      /\ Armed(PolledIn, outBuffer', outbox')
  BY <1>1, PolledInStays DEF IgnoreError
<1>3. ClientTypes' /\ NothingForStrangers'
  BY DEF IgnoreError, IndInv, Types, ClientTypes, NothingForStrangers, history
<1>4. opened' = connections' \cup {Listener} /\ server' = "up"
  BY WhileUp DEF IgnoreError, process
<1> QED BY <1>1, <1>2, <1>3, <1>4, GoesOn

\* Whoever is told of it, the entry erased is the only one for f.
LEMMA DisconnectKeepsIndInv ==
  ASSUME IndInv, server = "up", NEW f \in Fd, Serves(f, "in"),
         NEW G \in SUBSET (IF f \in registered THEN registered \ {f} ELSE {}),
         Disconnect(f, G)
  PROVE  IndInv'
<1> DEFINE left == Erase(pfds, at)
           F    == PendingOutboxes(registered', outbox')
           list == IF f \in registered THEN Arm(left, F) ELSE left
           box  == Enqueued({}, G)
<1>1. /\ connections' = connections \ {f} /\ opened' = opened \ {f}
      /\ registered' = registered \ {f}
      /\ produced' = [Produced({}, G) EXCEPT ![f] = 0]
      /\ outBuffer' = [outBuffer EXCEPT ![f] = <<>>]
      /\ outbox' = [box EXCEPT ![f] = <<>>]
      /\ ContinueAt(at + 1, list)
      /\ server' = server /\ backlog' = backlog
  BY DEF Disconnect
<1>2. at \in DOMAIN pfds /\ at + 1 \in Nat \ {0} /\ pfds[at].fd = f /\ f # Listener
  BY ServedIsConnected
<1>3. ClientTypes /\ NothingForStrangers /\ pfds \in Seq(Pollfd) /\ G \subseteq registered
  BY DEF IndInv, Types
<1>4. /\ box \in [Fd -> Seq(AnyText)] /\ Produced({}, G) \in [Fd -> Nat]
      /\ \A g \in Fd : box[g] # <<>> <=> g \in G \/ outbox[g] # <<>>
  BY <1>3, QueuesGrow
<1> HIDE DEF box
<1>5. \A g \in Fd \ {f} : outBuffer'[g] = outBuffer[g] /\ outbox'[g] = box[g]
  BY <1>1, <1>3, <1>4 DEF ClientTypes
<1>6. ClientTypes'
  <2>1. <<>> \in Seq(AnyText)
    OBVIOUS
  <2> QED BY <1>1, <1>3, <1>4, <2>1 DEF ClientTypes
<1>7. NothingForStrangers'
  <2> SUFFICES ASSUME NEW g \in Fd, g \notin connections'
               PROVE  outBuffer'[g] = <<>> /\ outbox'[g] = <<>>
    BY DEF NothingForStrangers
  <2>1. CASE g = f
    BY <1>1, <1>3, <1>4, <2>1 DEF ClientTypes
  <2>2. CASE g # f
    <3>1. g \notin connections /\ g \notin G
      BY <1>1, <1>3, <2>2 DEF ClientTypes
    <3>2. outBuffer[g] = <<>> /\ outbox[g] = <<>>
      BY <1>3, <3>1 DEF NothingForStrangers
    <3> QED BY <1>4, <1>5, <2>2, <3>1, <3>2
  <2> QED BY <2>1, <2>2
<1>8. /\ left \in Seq(Pollfd) /\ Lists(left, connections')
      /\ \A i \in DOMAIN left : \E j \in DOMAIN pfds : left[i] = pfds[j]
  <2>1. Lists(left, connections \ {pfds[at].fd})
    BY <1>2, <1>3, WhileUp, EraseUnlists
  <2>2. ASSUME NEW i \in DOMAIN left PROVE \E j \in DOMAIN pfds : left[i] = pfds[j]
    <3>1. i \in 1 .. Len(pfds) - 1 /\ left[i] = IF i < at THEN pfds[i] ELSE pfds[i + 1]
      BY <1>2, <1>3, EraseLeaves
    <3>2. i \in DOMAIN pfds /\ i + 1 \in DOMAIN pfds
      BY <1>3, <3>1
    <3> QED BY <3>1, <3>2
  <2> QED BY <1>1, <1>2, <1>3, <2>1, <2>2, EraseLeaves
<1> HIDE DEF left
<1>9. Armed(left, outBuffer, outbox)
  BY <1>8, WhileUp DEF Armed
<1>10. \A i \in DOMAIN left : left[i].fd # Listener => left[i].fd \in Fd \ {f}
  <2> SUFFICES ASSUME NEW i \in DOMAIN left, left[i].fd # Listener PROVE left[i].fd \in Fd \ {f}
    OBVIOUS
  <2>1. left[i].fd \in connections'
    BY <1>8 DEF Lists
  <2> QED BY <1>1, <1>3, <2>1 DEF ClientTypes
<1>11. list \in Seq(Pollfd) /\ Lists(list, connections')
  BY <1>8, ArmSetsEvents, SameDescriptors
<1>12. Armed(list, outBuffer', outbox')
  <2>1. CASE f \in registered
    <3>1. ASSUME NEW g \in Fd \ {f}
          PROVE  outBuffer'[g] # <<>> \/ outbox'[g] # <<>>
                   <=> g \in F \/ outBuffer[g] # <<>> \/ outbox[g] # <<>>
      BY <1>1, <1>3, <1>4, <1>5, <2>1 DEF PendingOutboxes
    <3> HIDE DEF F
    <3>2. \A i \in DOMAIN left :
            LET g == left[i].fd
            IN  g # Listener => ( outBuffer'[g] # <<>> \/ outbox'[g] # <<>>
                                  <=> g \in F \/ outBuffer[g] # <<>> \/ outbox[g] # <<>> )
      BY <1>10, <3>1
    <3> DEFINE more   == outBuffer'
               others == outbox'
    <3> HIDE DEF more, others
    <3>3. Armed(Arm(left, F), more, others)
      BY <1>8, <1>9, <3>2, ArmedAgain DEF more, others
    <3> QED BY <2>1, <3>3 DEF more, others
  <2>2. CASE f \notin registered
    <3>1. ASSUME NEW g \in Fd \ {f}
          PROVE  outBuffer'[g] = outBuffer[g] /\ (outbox'[g] # <<>> <=> outbox[g] # <<>>)
      BY <1>4, <1>5, <2>2
    <3> QED BY <1>9, <1>10, <2>2, <3>1 DEF Armed
  <2> QED BY <2>1, <2>2
<1>13. opened' = connections' \cup {Listener} /\ server' = "up"
  BY <1>1, <1>2, WhileUp
<1> HIDE DEF list
<1> QED BY <1>1, <1>2, <1>6, <1>7, <1>11, <1>12, <1>13, GoesOn

\* Whatever send() does, what is left for f is left in its buffer.
LEMMA HandlePollOutLeaves ==
  ASSUME ClientTypes, server = "up", NEW f \in Fd, HandlePollOut(f)
  PROVE  /\ server' \in {"up", "killed"}
         /\ outBuffer' \in [Fd -> Seq(AnyText)] /\ outbox' \in [Fd -> Seq(AnyText)]
         /\ \A g \in Fd \ {f} : outBuffer'[g] = outBuffer[g] /\ outbox'[g] = outbox[g]
         /\ outbox'[f] = <<>>
         /\ outBuffer'[f] # <<>> => outBuffer[f] # <<>> \/ outbox[f] # <<>>
<1> DEFINE all == ToSend(f)
<1>1. all \in Seq(AnyText) /\ (all # <<>> <=> outBuffer[f] # <<>> \/ outbox[f] # <<>>)
  <2>1. outBuffer[f] \in Seq(AnyText) /\ outbox[f] \in Seq(AnyText)
    BY DEF ClientTypes
  <2> QED BY <2>1, OutputIsEither DEF ToSend
<1>2. outbox' = [outbox EXCEPT ![f] = <<>>]
  BY DEF HandlePollOut
<1>3. PICK s \in Seq(AnyText) : /\ outBuffer' = [outBuffer EXCEPT ![f] = s]
                                /\ s # <<>> => all # <<>>
  <2>1. CASE SendFails(f)
    BY <1>1, <2>1 DEF SendFails
  <2>2. ASSUME NEW n \in 0 .. Len(all), Send(f, n)
        PROVE  \E s \in Seq(AnyText) : /\ outBuffer' = [outBuffer EXCEPT ![f] = s]
                                       /\ s # <<>> => all # <<>>
    <3> DEFINE s == SubSeq(all, n + 1, Len(all))
    <3>1. outBuffer' = [outBuffer EXCEPT ![f] = s]
      BY <2>2 DEF Send
    <3> HIDE DEF all
    <3>2. s \in Seq(AnyText)
      BY <1>1
    <3>3. all = <<>> => s = <<>>
      <4>1. Len(all) \in Nat /\ (all = <<>> => Len(all) = 0)
        BY <1>1
      <4> QED BY <1>1, <4>1
    <3> HIDE DEF s
    <3> QED BY <3>1, <3>2, <3>3
  <2> QED BY <2>1, <2>2 DEF HandlePollOut
<1> HIDE DEF all
<1>4. server' \in {"up", "killed"}
  BY DEF HandlePollOut, Send, SendFails
<1>5. outBuffer' \in [Fd -> Seq(AnyText)] /\ outBuffer'[f] = s
      /\ \A g \in Fd \ {f} : outBuffer'[g] = outBuffer[g]
  BY <1>3 DEF ClientTypes
<1>6. outbox' \in [Fd -> Seq(AnyText)] /\ outbox'[f] = <<>>
      /\ \A g \in Fd \ {f} : outbox'[g] = outbox[g]
  <2>1. <<>> \in Seq(AnyText)
    OBVIOUS
  <2> QED BY <1>2, <2>1 DEF ClientTypes
<1> QED BY <1>1, <1>3, <1>4, <1>5, <1>6

LEMMA HandlePollOutKeepsIndInv ==
  ASSUME IndInv, server = "up", NEW f \in Fd, HandlePollOut(f)
  PROVE  IndInv'
<1> DEFINE E    == IF outBuffer'[f] = <<>> THEN pfds[at].events \ {"out"} ELSE pfds[at].events
           p    == [pfds[at] EXCEPT !.revents = {}, !.events = E]
           list == [pfds EXCEPT ![at] = p]
<1>1. ClientTypes /\ NothingForStrangers /\ pfds \in Seq(Pollfd)
  BY DEF IndInv, Types
<1>2. /\ at \in DOMAIN pfds /\ at + 1 \in Nat \ {0} /\ f \in connections
      /\ pfds[at] \in Pollfd /\ pfds[at].fd = f /\ f # Listener
  BY ServedIsConnected DEF HandlePollOut
<1>3. /\ UNCHANGED <<opened, connections, registered, backlog, produced>>
      /\ ContinueAt(at + 1, [pfds EXCEPT ![at].revents = {},
                              ![at].events = IF outBuffer'[f] = <<>> THEN @ \ {"out"} ELSE @])
  BY DEF HandlePollOut
<1>4. [pfds EXCEPT ![at].revents = {},
         ![at].events = IF outBuffer'[f] = <<>> THEN @ \ {"out"} ELSE @] = list
  BY <1>1, <1>2 DEF Pollfd
<1>5. /\ p \in Pollfd /\ p.fd = f
      /\ "out" \in p.events <=> outBuffer'[f] # <<>> /\ "out" \in pfds[at].events
  BY <1>2 DEF Pollfd
<1> HIDE DEF p
<1>6. /\ list \in Seq(Pollfd) /\ Lists(list, connections) /\ DOMAIN list = DOMAIN pfds
      /\ \A i \in DOMAIN pfds : list[i] = IF i = at THEN p ELSE pfds[i]
  BY <1>1, <1>2, <1>5, WhileUp, EntryChanges
<1> HIDE DEF list
<1>7. ClientTypes'
  BY <1>1, <1>3, HandlePollOutLeaves DEF ClientTypes
<1>8. NothingForStrangers'
  BY <1>1, <1>2, <1>3, HandlePollOutLeaves DEF NothingForStrangers
<1>9. Armed(list, outBuffer', outbox')
  <2> SUFFICES ASSUME NEW i \in DOMAIN pfds, NEW g, g = list[i].fd, g # Listener
               PROVE  "out" \in list[i].events <=> outBuffer'[g] # <<>> \/ outbox'[g] # <<>>
    BY <1>6 DEF Armed
  <2>1. CASE i = at
    <3>1. list[i] = p /\ g = f
      BY <1>5, <1>6, <2>1
    <3>2. "out" \in pfds[at].events <=> outBuffer[f] # <<>> \/ outbox[f] # <<>>
      BY <1>2, WhileUp DEF Armed
    <3> QED BY <1>1, <1>5, <3>1, <3>2, HandlePollOutLeaves
  <2>2. CASE i # at
    <3>1. list[i] = pfds[i] /\ g = pfds[i].fd
      BY <1>6, <2>2
    <3>2. g \in Fd \ {f}
      <4>1. g # f
        BY <1>2, <2>2, <3>1, WhileUp DEF Lists
      <4>2. pfds[i] \in Pollfd
        BY <1>1
      <4> QED BY <3>1, <4>1, <4>2 DEF Pollfd
    <3>3. "out" \in pfds[i].events <=> outBuffer[g] # <<>> \/ outbox[g] # <<>>
      BY <3>1, WhileUp DEF Armed
    <3> QED BY <1>1, <3>1, <3>2, <3>3, HandlePollOutLeaves
  <2> QED BY <2>1, <2>2
<1>10. opened' = connections' \cup {Listener} /\ server' \in {"up", "killed"}
  BY <1>1, <1>3, WhileUp, HandlePollOutLeaves
<1>11. Lists(list, connections') /\ ContinueAt(at + 1, list)
  BY <1>3, <1>4, <1>6
<1> QED BY <1>2, <1>6, <1>7, <1>8, <1>9, <1>10, <1>11, GoesOn

-----------------------------------------------------------------------------
(* Every step.                                                             *)

\* Peers touch neither the poll set nor a queue.
LEMMA PeersKeepIndInv ==
  ASSUME IndInv, UNCHANGED <<loop, produced>>, backlog' \in Nat
  PROVE  IndInv'
BY DEF loop, process, IndInv, Types, ClientTypes, NothingForStrangers, PollSetMatches,
   DescriptorsOwned, OutputArmed, ToSend

LEMMA InitEstablishesIndInv ==
  ASSUME Init PROVE IndInv
<1>1. Types
  <2>1. <<>> \in Seq(AnyText) /\ <<>> \in Seq(Pollfd) /\ Len(<<>>) = 0
    OBVIOUS
  <2> QED BY <2>1 DEF Init, Types, ClientTypes
<1>2. NothingForStrangers /\ PollSetMatches /\ DescriptorsOwned
  BY DEF Init, NothingForStrangers, PollSetMatches, DescriptorsOwned
<1>3. OutputArmed
  BY DEF Init, OutputArmed
<1> QED BY <1>1, <1>2, <1>3 DEF Init, IndInv

LEMMA NextKeepsIndInv ==
  ASSUME IndInv, [Next]_vars
  PROVE  IndInv'
<1>1. CASE Start
  BY <1>1, StartKeepsIndInv
<1>2. ASSUME server = "up", Poll PROVE IndInv'
  BY <1>2, PollKeepsIndInv
<1>3. ASSUME server = "up", HandleConnection PROVE IndInv'
  BY <1>3, HandleConnectionKeepsIndInv
<1>4. ASSUME server = "up", NEW f \in Fd, HandlePollIn(f) PROVE IndInv'
  <2>1. Serves(f, "in")
    BY <1>4 DEF HandlePollIn
  <2>2. ASSUME NEW R \in SUBSET {f}, NEW users \in {registered, registered \cup {f}},
               NEW G \in SUBSET users, Receive(f, R, users, G)
        PROVE  IndInv'
    <3>1. R \subseteq {f} /\ users \in {registered, registered \cup {f}} /\ G \subseteq users
      OBVIOUS
    <3> QED BY <1>4, <2>1, <2>2, <3>1, ReceiveKeepsIndInv
  <2>3. CASE IgnoreError(f)
    BY <1>4, <2>1, <2>3, IgnoreErrorKeepsIndInv
  <2>4. ASSUME NEW G \in SUBSET (IF f \in registered THEN registered \ {f} ELSE {}),
               Disconnect(f, G)
        PROVE  IndInv'
    BY <1>4, <2>1, <2>4, DisconnectKeepsIndInv
  <2> QED BY <1>4, <2>2, <2>3, <2>4 DEF HandlePollIn
<1>5. ASSUME server = "up", NEW f \in Fd, HandlePollOut(f) PROVE IndInv'
  BY <1>5, HandlePollOutKeepsIndInv
<1>6. ASSUME server = "up", PollFails PROVE IndInv'
  BY <1>6, PollFailsKeepsIndInv
<1>7. CASE PeerConnects
  BY <1>7, PeersKeepIndInv DEF PeerConnects, IndInv, Types, ClientTypes, history
<1>8. ASSUME NEW f \in Fd, PeerSends(f) \/ PeerReads(f) \/ PeerCloses(f) \/ PeerResets(f)
      PROVE  IndInv'
  <2>1. UNCHANGED <<loop, produced, backlog>>
    BY <1>8 DEF PeerSends, PeerReads, PeerCloses, PeerResets, history
  <2> QED BY <2>1, PeersKeepIndInv DEF IndInv, Types, ClientTypes
<1>9. CASE UNCHANGED vars
  BY <1>9, PeersKeepIndInv DEF vars, sockets, history, IndInv, Types, ClientTypes
<1> QED BY <1>1, <1>2, <1>3, <1>4, <1>5, <1>6, <1>7, <1>8, <1>9 DEF Next, ServerStep

LEMMA IndInvHolds == Spec => []IndInv
BY InitEstablishesIndInv, NextKeepsIndInv, PTL DEF Spec

(***************************************************************************)
(* For any clients, however they come, go and take their output, the poll  *)
(* set of run() lists the listener and every connection exactly once.      *)
(***************************************************************************)
THEOREM PollSetMatchesHolds == Spec => []PollSetMatches
<1>1. IndInv => PollSetMatches
  BY DEF IndInv
<1> QED BY <1>1, IndInvHolds, PTL

(***************************************************************************)
(* No descriptor leaks: those open are the listener and the connections'   *)
(* while the server runs, and none is open when main returns (close_all).  *)
(***************************************************************************)
THEOREM DescriptorsOwnedHolds == Spec => []DescriptorsOwned
<1>1. IndInv => DescriptorsOwned
  BY DEF IndInv
<1> QED BY <1>1, IndInvHolds, PTL

(***************************************************************************)
(* POLLOUT is armed exactly for the clients that something is queued for,  *)
(* whichever of handlePollIn, disconnect and handlePollOut queued or sent  *)
(* it.                                                                     *)
(***************************************************************************)
THEOREM OutputArmedHolds == Spec => []OutputArmed
<1>1. IndInv => OutputArmed
  BY DEF IndInv
<1> QED BY <1>1, IndInvHolds, PTL

-----------------------------------------------------------------------------
(* What is delivered: none of the texts for a client is lost, doubled or   *)
(* inherited, whatever send() takes.                                       *)

\* The texts of s are numbered 1 to k, replies in order and messages in order.
Fifo(s, k) ==
  /\ s \in Seq(AnyText)
  /\ Len(s) = k
  /\ {s[i].n : i \in DOMAIN s} = 1 .. k
  /\ \A i, j \in DOMAIN s : i < j /\ s[i].lane = s[j].lane => s[i].n < s[j].n

\* A new reply can pass what is in an outbox because it passes no reply there.
MessagesOnly(t) == \A i \in DOMAIN t : t[i].lane = "message"

\* The inductive invariant of delivery: all that was produced for a client is on its way, once.
DeliveryInv ==
  /\ IndInv
  /\ sentOff \in [Fd -> Seq(AnyText)]
  /\ \A f \in Fd : Fifo(Stream(f), produced[f]) /\ MessagesOnly(outbox[f])

-----------------------------------------------------------------------------
(* Queues.                                                                 *)

LEMMA NothingIsFifo == Fifo(<<>>, 0) /\ MessagesOnly(<<>>)
<1>1. <<>> \in Seq(AnyText) /\ Len(<<>>) = 0 /\ DOMAIN <<>> = {} /\ 1 .. 0 = {}
  OBVIOUS
<1>2. Fifo(<<>>, 0)
  BY <1>1 DEF Fifo
<1> QED BY <1>1, <1>2 DEF MessagesOnly

\* The next text may come before t, if nothing in t is on its lane.
LEMMA InsertKeepsFifo ==
  ASSUME NEW s \in Seq(AnyText), NEW t \in Seq(AnyText), NEW k \in Nat, Fifo(s \o t, k),
         NEW x \in AnyText, x.n = k + 1, \A i \in DOMAIN t : t[i].lane # x.lane
  PROVE  Fifo((s \o <<x>>) \o t, k + 1)
<1> DEFINE a    == Len(s)
           both == s \o t
           new  == (s \o <<x>>) \o t
           from(i) == IF i <= a THEN i ELSE i - 1
<1>1. a \in Nat /\ Len(t) \in Nat /\ DOMAIN t = 1 .. Len(t)
  OBVIOUS
<1>2. /\ a + Len(t) = k /\ DOMAIN both = 1 .. k
      /\ \A i \in 1 .. k : both[i] = IF i <= a THEN s[i] ELSE t[i - a]
  BY <1>1, ConcatProperties DEF Fifo
<1>3. /\ s \o <<x>> \in Seq(AnyText) /\ Len(s \o <<x>>) = a + 1
      /\ \A i \in 1 .. a + 1 : (s \o <<x>>)[i] = IF i <= a THEN s[i] ELSE x
  BY <1>1
<1>4. /\ new \in Seq(AnyText) /\ Len(new) = (a + 1) + Len(t)
      /\ \A i \in 1 .. (a + 1) + Len(t) :
           new[i] = IF i <= a + 1 THEN (s \o <<x>>)[i] ELSE t[i - (a + 1)]
  BY <1>3, ConcatProperties
<1> HIDE DEF both, new, a
<1>5. a \in Nat /\ a <= k /\ (a + 1) + Len(t) = k + 1 /\ DOMAIN new = 1 .. k + 1
  <2>1. a \in Nat /\ a <= k /\ (a + 1) + Len(t) = k + 1
    BY <1>1, <1>2
  <2>2. DOMAIN new = 1 .. Len(new)
    BY <1>4, LenProperties
  <2> QED BY <1>4, <2>1, <2>2
<1>6. new[a + 1] = x /\ a + 1 \in DOMAIN new
  BY <1>1, <1>2, <1>3, <1>4, <1>5
<1>7. ASSUME NEW i \in DOMAIN new, i # a + 1
      PROVE  from(i) \in DOMAIN both /\ new[i] = both[from(i)]
  <2>1. CASE i <= a
    <3>1. i \in 1 .. k /\ i \in 1 .. a + 1 /\ i \in 1 .. (a + 1) + Len(t) /\ i <= a + 1
      BY <1>5, <2>1
    <3>2. new[i] = s[i]
      BY <1>3, <1>4, <2>1, <3>1
    <3> QED BY <1>2, <2>1, <3>1, <3>2
  <2>2. CASE ~ i <= a
    <3>1. /\ i - 1 \in 1 .. k /\ ~ i - 1 <= a /\ (i - 1) - a = i - (a + 1)
          /\ i \in 1 .. (a + 1) + Len(t) /\ ~ i <= a + 1
      BY <1>5, <1>7, <2>2
    <3> QED BY <1>2, <1>4, <2>2, <3>1
  <2> QED BY <2>1, <2>2
<1>8. ASSUME NEW i \in DOMAIN both
      PROVE  \E j \in DOMAIN new : new[j] = both[i]
  <2>1. CASE i <= a
    <3>1. i \in DOMAIN new /\ i # a + 1 /\ from(i) = i
      BY <1>1, <1>2, <1>5, <2>1
    <3> QED BY <1>7, <3>1
  <2>2. CASE ~ i <= a
    <3>1. i + 1 \in DOMAIN new /\ i + 1 # a + 1 /\ from(i + 1) = i
      BY <1>1, <1>2, <1>5, <2>2
    <3> QED BY <1>7, <3>1
  <2> QED BY <2>1, <2>2
<1>9. {new[i].n : i \in DOMAIN new} = 1 .. k + 1
  <2>1. {both[i].n : i \in DOMAIN both} = 1 .. k
    BY DEF Fifo, both
  <2>2. ASSUME NEW i \in DOMAIN new PROVE new[i].n \in 1 .. k + 1
    <3>1. CASE i = a + 1
      BY <1>6, <3>1
    <3>2. CASE i # a + 1
      <4>1. new[i].n \in 1 .. k
        BY <1>7, <2>1, <3>2
      <4> QED BY <4>1
    <3> QED BY <3>1, <3>2
  <2>3. ASSUME NEW m \in 1 .. k + 1 PROVE \E i \in DOMAIN new : new[i].n = m
    <3>1. CASE m = k + 1
      BY <1>6, <3>1
    <3>2. CASE m # k + 1
      <4>1. m \in 1 .. k
        BY <3>2
      <4>2. PICK i \in DOMAIN both : both[i].n = m
        BY <2>1, <4>1
      <4> QED BY <1>8, <4>2
    <3> QED BY <3>1, <3>2
  <2> QED BY <2>2, <2>3
<1>10. ASSUME NEW i \in DOMAIN new, NEW j \in DOMAIN new, i < j, new[i].lane = new[j].lane
       PROVE  new[i].n < new[j].n
  <2>1. CASE i # a + 1 /\ j # a + 1
    <3>1. from(i) < from(j)
      BY <1>1, <1>5, <1>10, <2>1
    <3> QED BY <1>7, <1>10, <2>1, <3>1 DEF Fifo, both
  <2>2. CASE i = a + 1
    <3>1. j - (a + 1) \in DOMAIN t /\ new[j] = t[j - (a + 1)]
      BY <1>1, <1>4, <1>5, <1>10, <2>2
    <3> QED BY <1>6, <1>10, <2>2, <3>1
  <2>3. CASE j = a + 1 /\ i # a + 1
    <3>1. new[i].n \in 1 .. k
      BY <1>7, <2>3 DEF Fifo, both
    <3> QED BY <1>6, <2>3, <3>1
  <2> QED BY <2>1, <2>2, <2>3
<1>11. new \in Seq(AnyText) /\ Len(new) = k + 1
  BY <1>4, <1>5
<1> QED BY <1>9, <1>10, <1>11 DEF Fifo, new

-----------------------------------------------------------------------------
(* What the handlers do to the queues of one client.                       *)

LEMMA CountsOneOrNone ==
  ASSUME NEW g, NEW S
  PROVE  Cardinality({g} \cap S) = IF g \in S THEN 1 ELSE 0
<1>1. CASE g \in S
  <2>1. {g} \cap S = {g}
    BY <1>1
  <2> QED BY <1>1, <2>1, FS_Singleton
<1>2. CASE g \notin S
  <2>1. {g} \cap S = {}
    BY <1>2
  <2> QED BY <1>2, <2>1, FS_EmptySet
<1> QED BY <1>1, <1>2

\* Concatenation is kept from the provers where only its associativity counts.
Texts == Seq(AnyText)
Cat(s, t) == s \o t

LEMMA CatAssociates ==
  \A s, t, u \in Texts : Cat(s, t) \in Texts /\ Cat(Cat(s, t), u) = Cat(s, Cat(t, u))
<1> SUFFICES ASSUME NEW s \in Texts, NEW t \in Texts, NEW u \in Texts
             PROVE  s \o t \in Texts /\ (s \o t) \o u = s \o (t \o u)
  BY DEF Cat
<1>1. (s \o t) \o u = s \o (t \o u)
  BY ConcatAssociative DEF Texts
<1> QED BY <1>1 DEF Texts

\* A reply goes behind the buffer and before the outbox.
LEMMA ReplyIsInserted ==
  ASSUME NEW a \in Seq(AnyText), NEW out \in Seq(AnyText), NEW box \in Seq(AnyText),
         NEW k \in Nat, Fifo(a \o (out \o box), k), MessagesOnly(box),
         NEW x \in AnyText, x.lane = "reply", x.n = k + 1
  PROVE  Fifo(a \o (Append(out, x) \o box), k + 1)
<1> DEFINE r == <<x>>
           b == Cat(a, out)
<1>1. r \in Texts /\ a \in Texts /\ out \in Texts /\ box \in Texts
  BY DEF Texts
<1> HIDE DEF r
<1>2. /\ b \in Texts
      /\ Cat(Cat(b, r), box) = Cat(a, Cat(Cat(out, r), box))
      /\ Cat(b, box) = Cat(a, Cat(out, box))
  BY <1>1, CatAssociates
<1> HIDE DEF b
<1>3. \A i \in DOMAIN box : box[i].lane # x.lane
  BY DEF MessagesOnly
<1>4. b \in Seq(AnyText) /\ Fifo(b \o box, k)
  BY <1>2 DEF Cat, Texts
<1>5. Fifo((b \o <<x>>) \o box, k + 1)
  BY <1>3, <1>4, InsertKeepsFifo
<1>6. Append(out, x) = out \o <<x>>
  BY AppendIsConcat
<1>7. (b \o <<x>>) \o box = a \o ((out \o <<x>>) \o box)
  BY <1>2 DEF Cat, r
<1> QED BY <1>5, <1>6, <1>7

\* A message goes behind the outbox, which is behind everything.
LEMMA MessageIsAppended ==
  ASSUME NEW a \in Seq(AnyText), NEW out \in Seq(AnyText), NEW box \in Seq(AnyText),
         NEW k \in Nat, Fifo(a \o (out \o box), k), MessagesOnly(box),
         NEW x \in AnyText, x.lane = "message", x.n = k + 1
  PROVE  Fifo(a \o (out \o Append(box, x)), k + 1) /\ MessagesOnly(Append(box, x))
<1> DEFINE r == <<x>>
           s == Cat(a, Cat(out, box))
<1>1. r \in Texts /\ a \in Texts /\ out \in Texts /\ box \in Texts
  BY DEF Texts
<1> HIDE DEF r
<1>2. /\ s \in Texts
      /\ Cat(s, r) \in Texts
      /\ Cat(s, r) = Cat(a, Cat(out, Cat(box, r)))
  BY <1>1, CatAssociates
<1>3. Fifo(s, k)
  BY DEF Cat
<1> HIDE DEF s
<1>4. Fifo((s \o <<x>>) \o <<>>, k + 1)
  <2> DEFINE none == <<>>
  <2>1. s \in Seq(AnyText) /\ none \in Seq(AnyText) /\ s \o none = s
    BY <1>2, ConcatEmptySeq DEF Texts
  <2>2. \A i \in DOMAIN none : none[i].lane # x.lane
    OBVIOUS
  <2> HIDE DEF none
  <2>3. Fifo((s \o <<x>>) \o none, k + 1)
    BY <1>3, <2>1, <2>2, InsertKeepsFifo
  <2> QED BY <2>3 DEF none
<1>5. Cat(s, r) \o <<>> = Cat(s, r)
  BY <1>2, ConcatEmptySeq DEF Texts
<1>6. Fifo(Cat(s, r), k + 1)
  BY <1>4, <1>5 DEF Cat, r
<1>7. Append(box, x) = box \o <<x>>
  BY AppendIsConcat
<1>8. Fifo(a \o (out \o Append(box, x)), k + 1)
  BY <1>2, <1>6, <1>7 DEF Cat, r
<1>9. MessagesOnly(Append(box, x))
  <2>1. DOMAIN Append(box, x) = 1 .. Len(box) + 1 /\ Len(box) \in Nat /\ DOMAIN box = 1 .. Len(box)
    OBVIOUS
  <2>2. \A i \in 1 .. Len(box) : Append(box, x)[i] = box[i]
    OBVIOUS
  <2>3. Append(box, x)[Len(box) + 1] = x
    OBVIOUS
  <2> QED BY <2>1, <2>2, <2>3 DEF MessagesOnly
<1> QED BY <1>8, <1>9

LEMMA QueueingKeepsFifo ==
  ASSUME DeliveryInv, NEW R, NEW G, NEW g \in Fd
  PROVE  /\ SentBefore(R \cup G)[g] \in Seq(AnyText)
         /\ Fifo(SentBefore(R \cup G)[g] \o (Replied(R)[g] \o Enqueued(R, G)[g]),
                 Produced(R, G)[g])
         /\ MessagesOnly(Enqueued(R, G)[g])
<1> DEFINE a   == SentBefore(R \cup G)[g]
           k   == Numbered(g)
           out == outBuffer[g]
           box == outbox[g]
           x   == [lane |-> "reply", n |-> k + 1]
           k1  == IF g \in R THEN k + 1 ELSE k
           y   == [lane |-> "message", n |-> Produced(R, G)[g]]
<1>1. /\ out \in Seq(AnyText) /\ box \in Seq(AnyText) /\ sentOff[g] \in Seq(AnyText)
      /\ produced[g] \in Nat /\ MessagesOnly(box)
      /\ Fifo(sentOff[g] \o (out \o box), produced[g]) /\ ToSend(g) = out \o box
  BY DEF DeliveryInv, IndInv, Types, ClientTypes, Stream, ToSend
<1>2. a = IF g \in R \cup G /\ out \o box = <<>> THEN <<>> ELSE sentOff[g]
  BY <1>1 DEF SentBefore
<1>3. k = IF out \o box = <<>> THEN 0 ELSE produced[g]
  BY <1>1 DEF Numbered
<1>4. Produced(R, G)[g] = IF g \notin R \cup G THEN produced[g]
                          ELSE k + Cardinality({g} \cap R) + Cardinality({g} \cap G)
  BY DEF Produced
<1>5. Replied(R)[g] = IF g \notin R THEN out ELSE Append(out, x)
  BY DEF Replied
<1>6. Enqueued(R, G)[g] = IF g \notin G THEN box ELSE Append(box, y)
  BY DEF Enqueued
<1>7. CASE g \notin R \cup G
  BY <1>1, <1>2, <1>4, <1>5, <1>6, <1>7
<1>8. CASE g \in R \cup G
  <2>1. k \in Nat /\ k1 \in Nat
    BY <1>1, <1>3
  <2>2. x \in AnyText /\ x.lane = "reply" /\ x.n = k + 1
    BY <2>1 DEF AnyText, Lane
  <2>3. Produced(R, G)[g] = IF g \in G THEN k1 + 1 ELSE k1
    <3>1. Cardinality({g} \cap R) = IF g \in R THEN 1 ELSE 0
      BY CountsOneOrNone
    <3>2. Cardinality({g} \cap G) = IF g \in G THEN 1 ELSE 0
      BY CountsOneOrNone
    <3> HIDE DEF k
    <3> QED BY <1>4, <1>8, <2>1, <3>1, <3>2
  <2>4. y \in AnyText /\ y.lane = "message" /\ y.n = Produced(R, G)[g]
    BY <2>1, <2>3 DEF AnyText, Lane
  <2> HIDE DEF a, k, out, box, x, y
  <2>5. a \in Seq(AnyText) /\ Fifo(a \o (out \o box), k)
    <3>1. CASE out \o box = <<>>
      <4>1. a = <<>> /\ k = 0 /\ <<>> \o <<>> = <<>>
        BY <1>2, <1>3, <1>8, <3>1
      <4> QED BY <3>1, <4>1, NothingIsFifo DEF Fifo
    <3>2. CASE out \o box # <<>>
      BY <1>1, <1>2, <1>3, <3>2
    <3> QED BY <3>1, <3>2
  <2>6. Replied(R)[g] \in Seq(AnyText) /\ Fifo(a \o (Replied(R)[g] \o box), k1)
    <3>1. CASE g \in R
      <4>1. Replied(R)[g] = Append(out, x) /\ k1 = k + 1
        BY <1>5, <3>1
      <4>2. Append(out, x) \in Seq(AnyText)
        BY <1>1, <2>2, AppendProperties
      <4>3. Fifo(a \o (Append(out, x) \o box), k + 1)
        BY <1>1, <2>1, <2>2, <2>5, ReplyIsInserted
      <4> QED BY <4>1, <4>2, <4>3
    <3>2. CASE g \notin R
      BY <1>1, <1>5, <2>5, <3>2
    <3> QED BY <3>1, <3>2
  <2> HIDE DEF k1
  <2>7. CASE g \in G
    <3>1. Enqueued(R, G)[g] = Append(box, y) /\ Produced(R, G)[g] = k1 + 1
      BY <1>6, <2>3, <2>7
    <3> DEFINE mid == Replied(R)[g]
    <3>2. mid \in Seq(AnyText) /\ Fifo(a \o (mid \o box), k1)
      BY <2>6
    <3> HIDE DEF mid
    <3>3. Fifo(a \o (mid \o Append(box, y)), k1 + 1) /\ MessagesOnly(Append(box, y))
      BY <1>1, <2>1, <2>4, <2>5, <3>1, <3>2, MessageIsAppended
    <3> QED BY <2>5, <3>1, <3>3 DEF a, mid
  <2>8. CASE g \notin G
    BY <1>1, <1>6, <2>3, <2>5, <2>6, <2>8 DEF a
  <2> QED BY <2>7, <2>8
<1> QED BY <1>7, <1>8

-----------------------------------------------------------------------------
(* Every step.                                                             *)

\* SentBefore is a function on Fd, as its values show.
LEMMA SentBeforeType ==
  ASSUME DeliveryInv, NEW F
  PROVE  SentBefore(F) \in [Fd -> Seq(AnyText)]
<1>1. \A g \in Fd : sentOff[g] \in Seq(AnyText) /\ <<>> \in Seq(AnyText)
  BY DEF DeliveryInv
<1> QED BY <1>1 DEF SentBefore

LEMMA QueuesAlone ==
  ASSUME DeliveryInv, IndInv', UNCHANGED <<outBuffer, outbox, sentOff, produced>>
  PROVE  DeliveryInv'
BY DEF DeliveryInv, Stream, ToSend

LEMMA ReceiveKeepsDelivery ==
  ASSUME DeliveryInv, IndInv', NEW f, NEW R, NEW users, NEW G, Receive(f, R, users, G)
  PROVE  DeliveryInv'
<1>1. /\ sentOff' = SentBefore(R \cup G) /\ outBuffer' = Replied(R)
      /\ outbox' = Enqueued(R, G) /\ produced' = Produced(R, G)
  BY DEF Receive
<1>2. ASSUME NEW g \in Fd PROVE Fifo(Stream(g), produced[g])' /\ MessagesOnly(outbox[g])'
  BY <1>1, QueueingKeepsFifo DEF Stream, ToSend
<1>3. sentOff' \in [Fd -> Seq(AnyText)]
  BY <1>1, SentBeforeType
<1> QED BY <1>2, <1>3 DEF DeliveryInv

LEMMA DisconnectKeepsDelivery ==
  ASSUME DeliveryInv, IndInv', NEW f \in Fd, NEW G, Disconnect(f, G)
  PROVE  DeliveryInv'
<1> DEFINE sent == SentBefore({} \cup G)
           box  == Enqueued({}, G)
           made == Produced({}, G)
<1>1. /\ sentOff' = [sent EXCEPT ![f] = <<>>] /\ outBuffer' = [outBuffer EXCEPT ![f] = <<>>]
      /\ outbox' = [box EXCEPT ![f] = <<>>] /\ produced' = [made EXCEPT ![f] = 0]
  <2>1. {} \cup G = G
    OBVIOUS
  <2> QED BY <2>1 DEF Disconnect
<1>2. /\ sent \in [Fd -> Seq(AnyText)] /\ box \in [Fd -> Seq(AnyText)] /\ made \in [Fd -> Nat]
      /\ outBuffer \in [Fd -> Seq(AnyText)] /\ <<>> \in Seq(AnyText)
  <2>1. sent \in [Fd -> Seq(AnyText)]
    BY SentBeforeType
  <2>2. box \in [Fd -> Seq(AnyText)] /\ made \in [Fd -> Nat]
    BY QueuesGrow DEF DeliveryInv, IndInv, Types
  <2>3. outBuffer \in [Fd -> Seq(AnyText)] /\ <<>> \in Seq(AnyText)
    BY DEF DeliveryInv, IndInv, Types, ClientTypes
  <2> HIDE DEF sent, box, made
  <2> QED BY <2>1, <2>2, <2>3
<1>3. ASSUME NEW g \in Fd, g # f
      PROVE  /\ sentOff'[g] = sent[g] /\ outbox'[g] = box[g] /\ produced'[g] = made[g]
             /\ outBuffer'[g] = Replied({})[g]
  <2>1. Replied({})[g] = outBuffer[g]
    BY DEF Replied
  <2> HIDE DEF sent, box, made
  <2> QED BY <1>1, <1>2, <1>3, <2>1
<1>4. sentOff'[f] = <<>> /\ outbox'[f] = <<>> /\ produced'[f] = 0 /\ outBuffer'[f] = <<>>
  <2> HIDE DEF sent, box, made
  <2> QED BY <1>1, <1>2
<1>5. ASSUME NEW g \in Fd PROVE Fifo(Stream(g), produced[g])' /\ MessagesOnly(outbox[g])'
  <2>1. CASE g = f
    <3>1. <<>> \o (<<>> \o <<>>) = <<>>
      OBVIOUS
    <3>2. Stream(f)' = <<>>
      BY <1>4, <3>1 DEF Stream, ToSend
    <3> QED BY <1>4, <2>1, <3>2, NothingIsFifo
  <2>2. CASE g # f
    <3>1. /\ Fifo(sent[g] \o (Replied({})[g] \o box[g]), made[g])
          /\ MessagesOnly(box[g])
      BY QueueingKeepsFifo, Zenon
    <3>2. Stream(g)' = sentOff'[g] \o (outBuffer'[g] \o outbox'[g])
      BY DEF Stream, ToSend
    <3> HIDE DEF sent, box, made
    <3> QED BY <1>3, <2>2, <3>1, <3>2
  <2> QED BY <2>1, <2>2
<1>6. sentOff' \in [Fd -> Seq(AnyText)]
  <2> HIDE DEF sent
  <2> QED BY <1>1, <1>2
<1> QED BY <1>5, <1>6 DEF DeliveryInv

\* What send() took and what it left are what it was given.
LEMMA SplitInTwo ==
  ASSUME NEW s \in Seq(AnyText), NEW n \in 0 .. Len(s)
  PROVE  /\ SubSeq(s, 1, n) \in Seq(AnyText) /\ SubSeq(s, n + 1, Len(s)) \in Seq(AnyText)
         /\ SubSeq(s, 1, n) \o SubSeq(s, n + 1, Len(s)) = s
<1>1. n \in Nat /\ Len(s) \in Nat /\ n <= Len(s)
  OBVIOUS
<1>2. SubSeq(s, 1, n) \in Seq(AnyText) /\ SubSeq(s, n + 1, Len(s)) \in Seq(AnyText)
  BY <1>1
<1>3. SubSeq(s, 1, n) \o SubSeq(s, n + 1, Len(s)) = SubSeq(s, 1, Len(s))
  <2> DEFINE m == 1
             l == Len(s)
  <2>1. m \in 1 .. l + 1 /\ n \in m - 1 .. l /\ l \in n .. l
    BY <1>1
  <2>2. l = Len(s)
    OBVIOUS
  <2> HIDE DEF m, l
  <2>3. SubSeq(s, m, n) \o SubSeq(s, n + 1, l) = SubSeq(s, m, l)
    BY <2>1, <2>2, ConcatAdjacentSubSeq
  <2> QED BY <2>2, <2>3 DEF m
<1>4. SubSeq(s, 1, Len(s)) = s
  BY SubSeqFull, Zenon
<1> QED BY <1>2, <1>3, <1>4, Zenon

LEMMA HandlePollOutKeepsDelivery ==
  ASSUME DeliveryInv, IndInv', NEW f \in Fd, HandlePollOut(f)
  PROVE  DeliveryInv'
<1> DEFINE all == ToSend(f)
<1>1. /\ all \in Seq(AnyText) /\ sentOff \in [Fd -> Seq(AnyText)]
      /\ outBuffer \in [Fd -> Seq(AnyText)] /\ outbox \in [Fd -> Seq(AnyText)]
      /\ sentOff[f] \in Seq(AnyText)
  BY ConcatProperties DEF DeliveryInv, IndInv, Types, ClientTypes, ToSend
<1>2. outbox' = [outbox EXCEPT ![f] = <<>>] /\ produced' = produced
  BY DEF HandlePollOut
<1>3. PICK taken \in Seq(AnyText), left \in Seq(AnyText) :
        /\ taken \o left = all
        /\ outBuffer' = [outBuffer EXCEPT ![f] = left]
        /\ sentOff' = [sentOff EXCEPT ![f] = sentOff[f] \o taken]
  <2>1. CASE SendFails(f)
    <3>1. outBuffer' = [outBuffer EXCEPT ![f] = all] /\ sentOff' = sentOff
      BY <2>1 DEF SendFails
    <3> HIDE DEF all
    <3>2. <<>> \in Seq(AnyText) /\ <<>> \o all = all /\ sentOff[f] \o <<>> = sentOff[f]
      BY <1>1, ConcatEmptySeq
    <3>3. sentOff = [sentOff EXCEPT ![f] = sentOff[f]]
      BY <1>1
    <3> DEFINE none == <<>>
    <3>4. /\ none \in Seq(AnyText) /\ none \o all = all
          /\ sentOff' = [sentOff EXCEPT ![f] = sentOff[f] \o none]
      BY <3>1, <3>2, <3>3
    <3> HIDE DEF none
    <3> QED BY <1>1, <3>1, <3>4
  <2>2. ASSUME NEW n \in 0 .. Len(all), Send(f, n)
        PROVE  \E taken \in Seq(AnyText), left \in Seq(AnyText) :
                 /\ taken \o left = all
                 /\ outBuffer' = [outBuffer EXCEPT ![f] = left]
                 /\ sentOff' = [sentOff EXCEPT ![f] = sentOff[f] \o taken]
    <3> DEFINE taken == SubSeq(all, 1, n)
               left  == SubSeq(all, n + 1, Len(all))
    <3>1. /\ outBuffer' = [outBuffer EXCEPT ![f] = left]
          /\ sentOff' = [sentOff EXCEPT ![f] = sentOff[f] \o taken]
      BY <2>2 DEF Send
    <3> HIDE DEF all
    <3>2. taken \in Seq(AnyText) /\ left \in Seq(AnyText) /\ taken \o left = all
      BY <1>1, SplitInTwo
    <3> HIDE DEF taken, left
    <3> QED BY <3>1, <3>2
  <2> QED BY <2>1, <2>2 DEF HandlePollOut
<1>4. Stream(f)' = Stream(f)
  <2> HIDE DEF all
  <2>1. sentOff'[f] = sentOff[f] \o taken /\ outBuffer'[f] = left /\ outbox'[f] = <<>>
    BY <1>1, <1>2, <1>3
  <2>2. left \o <<>> = left
    BY ConcatEmptySeq
  <2>3. (sentOff[f] \o taken) \o left = sentOff[f] \o (taken \o left)
    <3> DEFINE sent == sentOff[f]
    <3>1. sent \in Texts /\ taken \in Texts /\ left \in Texts
      BY <1>1 DEF Texts
    <3> HIDE DEF sent
    <3>2. Cat(Cat(sent, taken), left) = Cat(sent, Cat(taken, left))
      BY <3>1, CatAssociates
    <3> QED BY <3>2 DEF Cat, sent
  <2>4. Stream(f)' = sentOff'[f] \o (outBuffer'[f] \o outbox'[f])
    BY DEF Stream, ToSend
  <2>5. Stream(f) = sentOff[f] \o all
    BY DEF Stream, all
  <2> QED BY <1>3, <2>1, <2>2, <2>3, <2>4, <2>5
<1> HIDE DEF all
<1>5. ASSUME NEW g \in Fd PROVE Fifo(Stream(g), produced[g])' /\ MessagesOnly(outbox[g])'
  <2>1. Fifo(Stream(g), produced[g]) /\ MessagesOnly(outbox[g])
    BY DEF DeliveryInv
  <2>2. CASE g = f
    <3>1. outbox'[f] = <<>>
      BY <1>1, <1>2
    <3> QED BY <1>2, <1>4, <2>1, <2>2, <3>1, NothingIsFifo
  <2>3. CASE g # f
    <3>1. sentOff'[g] = sentOff[g] /\ outBuffer'[g] = outBuffer[g] /\ outbox'[g] = outbox[g]
      BY <1>1, <1>2, <1>3, <2>3
    <3>2. Stream(g)' = Stream(g)
      BY <3>1 DEF Stream, ToSend
    <3> QED BY <1>2, <2>1, <3>1, <3>2
  <2> QED BY <2>2, <2>3
<1>6. sentOff' \in [Fd -> Seq(AnyText)]
  <2>1. sentOff[f] \o taken \in Seq(AnyText)
    BY <1>1, ConcatProperties
  <2> QED BY <1>1, <1>3, <2>1
<1> QED BY <1>5, <1>6 DEF DeliveryInv

LEMMA InitEstablishesDelivery ==
  ASSUME Init PROVE DeliveryInv
<1>1. <<>> \o (<<>> \o <<>>) = <<>> /\ <<>> \in Seq(AnyText)
  OBVIOUS
<1>2. ASSUME NEW f \in Fd
      PROVE  Stream(f) = <<>> /\ produced[f] = 0 /\ outbox[f] = <<>>
  BY <1>1 DEF Init, Stream, ToSend
<1>3. sentOff \in [Fd -> Seq(AnyText)]
  BY <1>1 DEF Init
<1> QED BY <1>2, <1>3, NothingIsFifo, InitEstablishesIndInv DEF DeliveryInv

LEMMA NextKeepsDelivery ==
  ASSUME DeliveryInv, [Next]_vars
  PROVE  DeliveryInv'
<1>1. IndInv'
  BY NextKeepsIndInv DEF DeliveryInv
<1>2. CASE Start \/ Poll \/ PollFails \/ HandleConnection \/ PeerConnects \/ UNCHANGED vars
  <2>1. UNCHANGED <<outBuffer, outbox, sentOff, produced>>
    BY <1>2 DEF Start, Poll, PollFails, HandleConnection, PeerConnects, vars, loop, history
  <2> QED BY <1>1, <2>1, QueuesAlone
<1>3. ASSUME NEW f \in Fd, PeerSends(f) \/ PeerReads(f) \/ PeerCloses(f) \/ PeerResets(f)
      PROVE  DeliveryInv'
  <2>1. UNCHANGED <<outBuffer, outbox, sentOff, produced>>
    BY <1>3 DEF PeerSends, PeerReads, PeerCloses, PeerResets, loop, history
  <2> QED BY <1>1, <2>1, QueuesAlone
<1>4. ASSUME NEW f \in Fd, HandlePollIn(f) PROVE DeliveryInv'
  <2>1. ASSUME NEW R, NEW users, NEW G, Receive(f, R, users, G) PROVE DeliveryInv'
    BY <1>1, <2>1, ReceiveKeepsDelivery
  <2>2. CASE IgnoreError(f)
    BY <1>1, <2>2, QueuesAlone DEF IgnoreError, history
  <2>3. ASSUME NEW G, Disconnect(f, G) PROVE DeliveryInv'
    BY <1>1, <2>3, DisconnectKeepsDelivery
  <2> QED BY <1>4, <2>1, <2>2, <2>3 DEF HandlePollIn
<1>5. ASSUME NEW f \in Fd, HandlePollOut(f) PROVE DeliveryInv'
  BY <1>1, <1>5, HandlePollOutKeepsDelivery
<1> QED BY <1>2, <1>3, <1>4, <1>5 DEF Next, ServerStep

(***************************************************************************)
(* For any clients and any partial or failing sends, every text produced   *)
(* for a connection is sent or queued exactly once and none is left from   *)
(* an earlier connection on its descriptor; replies stay in order, and so  *)
(* do messages.                                                            *)
(***************************************************************************)
THEOREM LanesAreFifoHolds == Spec => []LanesAreFifo
<1>1. DeliveryInv => LanesAreFifo
  BY DEF DeliveryInv, LanesAreFifo, Fifo
<1> QED BY <1>1, InitEstablishesDelivery, NextKeepsDelivery, PTL DEF Spec

-----------------------------------------------------------------------------
(* Types.                                                                  *)

\* What TypeOK says and DeliveryInv does not.
Bounds ==
  /\ server \in {"starting", "up", "killed", "stopped"}
  /\ opened \subseteq Fd \cup {Listener}
  /\ candidates \in 0 .. MaxCandidates
  /\ backlog \in 0 .. MaxBacklog
  /\ peer \in [Fd -> Peer]
  /\ input \in [Fd -> BOOLEAN] /\ room \in [Fd -> BOOLEAN]
  /\ \A f \in Fd : produced[f] <= MaxOut

LEMMA InitIsBounded ==
  ASSUME Init PROVE Bounds
BY EventLoopAssumption DEF Init, Bounds, Peer

LEMMA AcceptedIsCounted ==
  ASSUME backlog \in Nat, NEW new \in Accepted
  PROVE  Len(new) \in Nat
<1>1. Cardinality(Fd \ opened) \in Nat
  BY EventLoopAssumption, FS_Difference, FS_CardinalityType
<1>2. PICK n \in Nat : new \in [1 .. n -> Fd \ opened]
  BY <1>1 DEF Accepted
<1>3. new \in Seq(Fd \ opened)
  BY <1>2
<1> QED BY <1>3

LEMMA NextIsBounded ==
  ASSUME DeliveryInv, DeliveryInv', Bounds, [Next]_vars
  PROVE  Bounds'
<1>1. backlog' \in Nat /\ backlog \in Nat
  BY DEF DeliveryInv, IndInv, Types, ClientTypes
<1>2. CASE Start
  BY <1>2, EventLoopAssumption DEF Start, GiveUp, RejectCandidate, Listen, Bounds, sockets, history
<1>3. CASE Poll \/ PollFails \/ UNCHANGED vars
  BY <1>3 DEF Poll, PollFails, CloseAll, Bounds, vars, loop, process, sockets, history
<1>4. CASE PeerConnects
  BY <1>1, <1>4, EventLoopAssumption DEF PeerConnects, Bounds, loop, process, history
<1>5. CASE HandleConnection
  <2>1. PICK new \in Accepted : /\ opened' = opened \cup Range(new)
                                /\ backlog' = backlog - Len(new)
    BY <1>5 DEF HandleConnection
  <2>2. backlog' <= backlog
    BY <1>1, <2>1, AcceptedIsCounted
  <2>3. Range(new) \subseteq Fd
    BY DEF Accepted, Range
  <2>4. opened' \subseteq Fd \cup {Listener}
    BY <2>1, <2>3 DEF Bounds
  <2> QED BY <1>1, <1>5, <2>2, <2>4, EventLoopAssumption DEF HandleConnection, Bounds, history
<1>6. ASSUME NEW f \in Fd, PeerSends(f) \/ PeerReads(f) \/ PeerCloses(f) \/ PeerResets(f)
      PROVE  Bounds'
  BY <1>6 DEF PeerSends, PeerReads, PeerCloses, PeerResets, Bounds, loop, process, history, Peer
<1>7. ASSUME NEW f \in Fd, HandlePollIn(f) PROVE Bounds'
  <2>1. ASSUME NEW R, NEW users, NEW G, Receive(f, R, users, G) PROVE Bounds'
    BY <2>1 DEF Receive, Bounds, process
  <2>2. CASE IgnoreError(f)
    BY <2>2 DEF IgnoreError, Bounds, process, history, Peer
  <2>3. ASSUME NEW G, Disconnect(f, G) PROVE Bounds'
    <3>1. \A g \in Fd : produced'[g] <= MaxOut
      <4>1. Produced({}, G) = [g \in Fd |-> Produced({}, G)[g]]
        BY DEF Produced
      <4> HIDE DEF Produced
      <4> QED BY <2>3, <4>1, EventLoopAssumption DEF Disconnect
    <3> QED BY <2>3, <3>1 DEF Disconnect, Bounds, Peer
  <2> QED BY <1>7, <2>1, <2>2, <2>3 DEF HandlePollIn
<1>8. ASSUME NEW f \in Fd, HandlePollOut(f) PROVE Bounds'
  BY <1>8 DEF HandlePollOut, Send, SendFails, Bounds, Peer
<1> QED BY <1>2, <1>3, <1>4, <1>5, <1>6, <1>7, <1>8 DEF Next, ServerStep

\* A part of a bounded stream is a bounded queue.
LEMMA PartIsQueue ==
  ASSUME NEW s \in Seq(AnyText), NEW k \in 0 .. MaxOut, Fifo(s, k),
         NEW t \in Seq(AnyText), Len(t) <= Len(s),
         \A i \in DOMAIN t : \E j \in DOMAIN s : t[i] = s[j]
  PROVE  t \in Queue
<1>1. \A j \in DOMAIN s : s[j] \in Text
  <2> SUFFICES ASSUME NEW j \in DOMAIN s PROVE s[j] \in Text
    OBVIOUS
  <2>1. s[j] \in AnyText
    OBVIOUS
  <2>2. s[j].n \in 1 .. k
    BY DEF Fifo
  <2>3. s[j].n \in 1 .. MaxOut
    BY <2>2, EventLoopAssumption
  <2> QED BY <2>1, <2>3 DEF AnyText, Text
<1>2. Len(t) \in 0 .. MaxOut /\ DOMAIN t = 1 .. Len(t)
  BY EventLoopAssumption DEF Fifo
<1>3. t \in [1 .. Len(t) -> Text]
  <2>1. \A i \in 1 .. Len(t) : t[i] \in Text
    BY <1>1, <1>2
  <2>2. t = [i \in 1 .. Len(t) |-> t[i]]
    BY <1>2
  <2> QED BY <2>1, <2>2
<1> QED BY <1>2, <1>3 DEF Queue

LEMMA StreamsAreQueues ==
  ASSUME DeliveryInv, Bounds, NEW f \in Fd
  PROVE  sentOff[f] \in Queue /\ outBuffer[f] \in Queue /\ outbox[f] \in Queue
<1> DEFINE a == sentOff[f]
           b == outBuffer[f]
           c == outbox[f]
           s == a \o (b \o c)
<1>1. a \in Seq(AnyText) /\ b \in Seq(AnyText) /\ c \in Seq(AnyText)
  BY DEF DeliveryInv, IndInv, Types, ClientTypes
<1>2. Fifo(s, produced[f]) /\ produced[f] \in 0 .. MaxOut
  BY EventLoopAssumption DEF DeliveryInv, IndInv, Types, ClientTypes, Bounds, Stream, ToSend
<1> HIDE DEF a, b, c
<1>3. s \in Seq(AnyText) /\ Len(s) = Len(a) + Len(b) + Len(c)
  BY <1>1
<1>4. \A i \in DOMAIN a : i \in DOMAIN s /\ a[i] = s[i]
  BY <1>1, <1>3
<1>5. \A i \in DOMAIN b : i + Len(a) \in DOMAIN s /\ b[i] = s[i + Len(a)]
  BY <1>1, <1>3
<1>6. \A i \in DOMAIN c : i + Len(b) + Len(a) \in DOMAIN s /\ c[i] = s[i + Len(b) + Len(a)]
  <2>1. b \o c \in Seq(AnyText) /\ Len(b \o c) = Len(b) + Len(c)
    BY <1>1
  <2>2. \A i \in DOMAIN c : i + Len(b) \in DOMAIN (b \o c) /\ c[i] = (b \o c)[i + Len(b)]
    BY <1>1
  <2> HIDE DEF s
  <2>3. \A j \in DOMAIN (b \o c) : j + Len(a) \in DOMAIN s /\ (b \o c)[j] = s[j + Len(a)]
    BY <1>1, <2>1 DEF s
  <2> QED BY <2>2, <2>3
<1>7. Len(a) <= Len(s) /\ Len(b) <= Len(s) /\ Len(c) <= Len(s)
  BY <1>1, <1>3
<1> HIDE DEF s
<1>8. a \in Queue
  BY <1>1, <1>2, <1>3, <1>4, <1>7, PartIsQueue
<1>9. b \in Queue
  BY <1>1, <1>2, <1>3, <1>5, <1>7, PartIsQueue
<1>10. c \in Queue
  BY <1>1, <1>2, <1>3, <1>6, <1>7, PartIsQueue
<1> QED BY <1>8, <1>9, <1>10 DEF a, b, c

(***************************************************************************)
(* The variables of the loop and of the sockets keep their types; that the *)
(* queues do depends on the numbers of the texts in them.                  *)
(***************************************************************************)
THEOREM TypeCorrect == Spec => []TypeOK
<1>1. DeliveryInv /\ Bounds => TypeOK
  BY StreamsAreQueues
     DEF DeliveryInv, IndInv, Types, ClientTypes, Bounds, TypeOK
<1>2. Init => DeliveryInv /\ Bounds
  BY InitEstablishesDelivery, InitIsBounded
<1>3. DeliveryInv /\ Bounds /\ [Next]_vars => DeliveryInv' /\ Bounds'
  BY NextKeepsDelivery, NextIsBounded
<1> QED BY <1>1, <1>2, <1>3, PTL DEF Spec

=============================================================================
