-------------------------- MODULE ClientViewProofs ---------------------------
(***************************************************************************)
(* What the clients can know, for any number of clients, channels and      *)
(* names.  The invariant says of each client and each channel what the     *)
(* three properties of ClientView say, and is preserved because each       *)
(* command sends each client either nothing about the channel or exactly   *)
(* what turns the old picture into the new one.                            *)
(***************************************************************************)
EXTENDS ClientView, ChannelCommandsProofs, SequenceTheorems

-----------------------------------------------------------------------------
\* The operators a client knows of, after one more letter.
AfterLetter(known, r) ==
  IF r.mode # "o" THEN known
  ELSE IF r.sign = "+" THEN known \cup {r.arg}
  ELSE known \ {r.arg}

\* What HearModes has after each letter.
LEMMA HearModesTrace ==
  ASSUME NEW S, NEW s \in Seq(S), NEW ops
  PROVE  \E g : /\ g[0] = ops
                /\ \A k \in 0 .. Len(s) - 1 : g[k + 1] = AfterLetter(g[k], s[k + 1])
                /\ HearModes(ops, s) = g[Len(s)]
<1> DEFINE n == Len(s)
           Fold(it) == [t \in SUBSET DOMAIN s |->
                          IF t = {} THEN ops ELSE AfterLetter(it[t \ {Max(t)}], s[Max(t)])]
           h == CHOOSE it : it = Fold(it)
           A == SUBSET (ops \cup {s[i].arg : i \in DOMAIN s})
           step == [p \in A \X (1 .. n) |-> AfterLetter(p[1], s[p[2]])]
<1>1. HearModes(ops, s) = h[DOMAIN s]
  BY DEF HearModes, FoldLeft, MapThenFoldSet, AfterLetter
<1>2. DOMAIN s = 1 .. n /\ n \in Nat /\ ops \in A
  OBVIOUS
<1>3. step \in [A \X (1 .. n) -> A]
  BY DEF AfterLetter
<1>4. PICK it \in [SUBSET (1 .. n) -> A] : IsFold(it, ops, n, step)
  <2> HIDE DEF A, n, step
  <2> QED BY <1>2, <1>3, FoldExists
<1>5. it = Fold(it)
  <2>1. ASSUME NEW t \in SUBSET (1 .. n), t # {}
        PROVE step[<<it[t \ {Max(t)}], Max(t)>>] = AfterLetter(it[t \ {Max(t)}], s[Max(t)])
    <3>1. it[t \ {Max(t)}] \in A /\ Max(t) \in 1 .. n
      BY <1>2, <1>4, <2>1, MaxIsThere
    <3> QED BY <3>1
  <2>2. it = [t \in SUBSET (1 .. n) |-> it[t]]
    OBVIOUS
  <2> HIDE DEF step, n, A
  <2> QED BY <1>2, <1>4, <2>1, <2>2 DEF IsFold
<1>6. h = Fold(h)
  <2> HIDE DEF Fold
  <2> QED BY <1>5
<1> HIDE DEF h
<1>7. \A t \in SUBSET (1 .. n) :
        h[t] = IF t = {} THEN ops ELSE AfterLetter(h[t \ {Max(t)}], s[Max(t)])
  BY <1>2, <1>6
<1> HIDE DEF Fold
<1> DEFINE g == [k \in 0 .. n |-> h[1 .. k]]
<1>8. g[0] = ops /\ HearModes(ops, s) = g[n]
  BY <1>1, <1>2, <1>7, FirstSets
<1>9. ASSUME NEW k \in 0 .. n - 1 PROVE g[k + 1] = AfterLetter(g[k], s[k + 1])
  <2>1. /\ k \in 0 .. n /\ k + 1 \in 0 .. n /\ 1 .. k + 1 \in SUBSET (1 .. n)
        /\ 1 .. k + 1 # {} /\ (1 .. k + 1) \ {k + 1} = 1 .. k /\ Max(1 .. k + 1) = k + 1
    BY <1>2, FirstSets
  <2>2. g[k] = h[1 .. k] /\ g[k + 1] = h[1 .. k + 1]
    BY <2>1
  <2> HIDE DEF g, n
  <2> QED BY <1>7, <2>1, <2>2
<1> HIDE DEF g
<1> QED BY <1>8, <1>9

\* A message is read letter by letter.
LEMMA HearModesSteps ==
  ASSUME NEW S, NEW s \in Seq(S), NEW ops
  PROVE  /\ HearModes(ops, <<>>) = ops
         /\ \A x \in S : HearModes(ops, Append(s, x)) = AfterLetter(HearModes(ops, s), x)
<1>1. HearModes(ops, <<>>) = ops
  <2>1. ASSUME NEW t \in Seq(S), Len(t) = 0 PROVE HearModes(ops, t) = ops
    <3>1. PICK g : /\ g[0] = ops
                   /\ \A k \in 0 .. Len(t) - 1 : g[k + 1] = AfterLetter(g[k], t[k + 1])
                   /\ HearModes(ops, t) = g[Len(t)]
      BY HearModesTrace
    <3> QED BY <2>1, <3>1
  <2>2. <<>> \in Seq(S) /\ Len(<<>>) = 0
    OBVIOUS
  <2> QED BY <2>1, <2>2
<1>2. ASSUME NEW x \in S PROVE HearModes(ops, Append(s, x)) = AfterLetter(HearModes(ops, s), x)
  <2> DEFINE n == Len(s)
             longer == Append(s, x)
  <2>1. /\ longer \in Seq(S) /\ Len(longer) = n + 1 /\ longer[n + 1] = x /\ n \in Nat
        /\ \A i \in 1 .. n : longer[i] = s[i]
    OBVIOUS
  <2> HIDE DEF longer
  <2>2. PICK g : /\ g[0] = ops
                 /\ \A k \in 0 .. n - 1 : g[k + 1] = AfterLetter(g[k], s[k + 1])
                 /\ HearModes(ops, s) = g[n]
    BY HearModesTrace
  <2>3. PICK h : /\ h[0] = ops
                 /\ \A k \in 0 .. n : h[k + 1] = AfterLetter(h[k], longer[k + 1])
                 /\ HearModes(ops, longer) = h[n + 1]
    <3>1. PICK h : /\ h[0] = ops
                   /\ \A k \in 0 .. Len(longer) - 1 : h[k + 1] = AfterLetter(h[k], longer[k + 1])
                   /\ HearModes(ops, longer) = h[Len(longer)]
      BY <2>1, HearModesTrace
    <3>2. 0 .. Len(longer) - 1 = 0 .. n
      BY <2>1
    <3> QED BY <2>1, <3>1, <3>2
  <2> HIDE DEF n
  <2> DEFINE I == {k \in Nat : k <= n => h[k] = g[k]}
  <2>4. 0 \in I
    BY <2>2, <2>3
  <2>5. ASSUME NEW k \in Nat, k \in I PROVE k + 1 \in I
    <3>1. SUFFICES ASSUME k + 1 <= n PROVE h[k + 1] = g[k + 1]
      OBVIOUS
    <3>2. k \in 0 .. n - 1 /\ k \in 0 .. n /\ k + 1 \in 1 .. n /\ h[k] = g[k]
      BY <2>1, <2>5, <3>1
    <3> HIDE DEF I
    <3> QED BY <2>1, <2>2, <2>3, <3>2
  <2>6. n \in I
    <3> HIDE DEF I
    <3> QED BY <2>1, <2>4, <2>5, SetInduction
  <2>7. h[n] = g[n] /\ n \in 0 .. n
    BY <2>1, <2>6
  <2> QED BY <2>1, <2>2, <2>3, <2>7 DEF longer
<1> QED BY <1>1, <1>2

\* The letters of a line that give or take operator status of the user called a.
About(reqs, a) ==
  {i \in DOMAIN reqs : reqs[i].mode = "o" /\ TakesEffect(reqs[i]) /\ reqs[i].arg = a}

\* The last letter about a user decides what a client thinks of it.
LEMMA LastLetterCounts ==
  ASSUME NEW S, NEW reqs \in Seq(S), NEW ops, NEW a
  PROVE  LET known == HearModes(ops, Announced(reqs))
         IN  /\ About(reqs, a) = {} => (a \in known <=> a \in ops)
             /\ \A i \in About(reqs, a) :
                  (\A j \in About(reqs, a) : j <= i) => (a \in known <=> reqs[i].sign = "+")
<1> DEFINE n == Len(reqs)
           T == {r \in Range(reqs) : TakesEffect(r)}
<1>1. n \in Nat /\ DOMAIN reqs = 1 .. n /\ \A i \in 1 .. n : reqs[i] \in S
  OBVIOUS
<1>2. \A i \in 1 .. n : reqs[i] \in T <=> TakesEffect(reqs[i])
  BY DEF Range
<1>3. PICK g : /\ g[0] = <<>>
               /\ \A k \in 0 .. n - 1 :
                    g[k + 1] = IF reqs[k + 1] \in T THEN Append(g[k], reqs[k + 1]) ELSE g[k]
               /\ Announced(reqs) = g[n]
  BY KeptTrace DEF Announced
<1> HIDE DEF n, T
<1> DEFINE known(k) == HearModes(ops, g[k])
           upTo(k)  == {i \in 1 .. k : reqs[i].mode = "o" /\ TakesEffect(reqs[i]) /\ reqs[i].arg = a}
           Right(k) == /\ g[k] \in Seq(S)
                       /\ upTo(k) = {} => (a \in known(k) <=> a \in ops)
                       /\ \A i \in upTo(k) :
                            (\A j \in upTo(k) : j <= i) => (a \in known(k) <=> reqs[i].sign = "+")
           I == {k \in Nat : k <= n => Right(k)}
<1>4. Right(0)
  <2>1. g[0] \in Seq(S) /\ known(0) = ops
    <3>1. <<>> \in Seq(S)
      OBVIOUS
    <3> QED BY <1>3, <3>1, HearModesSteps
  <2>2. upTo(0) = {}
    OBVIOUS
  <2> HIDE DEF known, upTo
  <2> QED BY <2>1, <2>2
<1>5. ASSUME NEW k \in Nat, k + 1 <= n, Right(k) PROVE Right(k + 1)
  <2> DEFINE r == reqs[k + 1]
             about == r.mode = "o" /\ TakesEffect(r) /\ r.arg = a
  <2>1. k \in 0 .. n - 1 /\ k + 1 \in 1 .. n /\ r \in S
    BY <1>1, <1>5
  <2>2. g[k + 1] = IF TakesEffect(r) THEN Append(g[k], r) ELSE g[k]
    BY <1>2, <1>3, <2>1
  <2>3. g[k + 1] \in Seq(S)
    BY <1>5, <2>1, <2>2
  <2>4. known(k + 1) = IF TakesEffect(r) THEN AfterLetter(known(k), r) ELSE known(k)
    BY <1>5, <2>1, <2>2, HearModesSteps
  <2>5. \A i \in upTo(k + 1) : i \in upTo(k) \/ (i = k + 1 /\ about)
    OBVIOUS
  <2>6. /\ about => k + 1 \in upTo(k + 1)
        /\ upTo(k) \subseteq upTo(k + 1)
        /\ ~ about => upTo(k + 1) = upTo(k)
        /\ \A i \in upTo(k + 1) : i \in Nat /\ i <= k + 1
    OBVIOUS
  <2>7. CASE about
    <3>1. a \in known(k + 1) <=> r.sign = "+"
      BY <2>4, <2>7 DEF AfterLetter
    <3>2. \A i \in upTo(k + 1) : (\A j \in upTo(k + 1) : j <= i) => i = k + 1
      BY <2>6, <2>7
    <3> HIDE DEF upTo, known
    <3> QED BY <2>3, <2>6, <2>7, <3>1, <3>2
  <2>8. CASE ~ about
    <3>1. a \in known(k + 1) <=> a \in known(k)
      BY <2>4, <2>8 DEF AfterLetter
    <3> HIDE DEF upTo, known, about
    <3> QED BY <1>5, <2>3, <2>6, <2>8, <3>1
  <2> QED BY <2>7, <2>8
<1> HIDE DEF Right
<1>6. 0 \in I /\ \A k \in Nat : k \in I => k + 1 \in I
  BY <1>1, <1>4, <1>5
<1>7. n \in I
  <2> HIDE DEF I
  <2> QED BY <1>1, <1>6, SetInduction
<1>8. Right(n)
  BY <1>1, <1>7
<1>9. upTo(n) = About(reqs, a)
  BY <1>1 DEF About
<1> HIDE DEF upTo
<1> QED BY <1>3, <1>8, <1>9 DEF Right

-----------------------------------------------------------------------------
\* A client's picture of c after one more message, and after a list of them.
HearOn(c, v, m, me) == IF m.chan = c THEN Hear(v, m, me) ELSE v

Reading(c, v, s, me) ==
  FoldLeft(LAMBDA u, m : IF m.chan = c THEN Hear(u, m, me) ELSE u, v, s)

\* A message that leaves pictures pictures.
Legible(m, me) == \A v \in Picture : Hear(v, m, me) \in Picture

\* g is what the client called me makes of c, message by message.
IsReading(g, c, v, s, me) ==
  /\ g[0] = v
  /\ \A k \in 0 .. Len(s) - 1 : g[k + 1] = HearOn(c, g[k], s[k + 1], me)
  /\ Reading(c, v, s, me) = g[Len(s)]

\* The messages are read one by one.
LEMMA ReadingTrace ==
  ASSUME NEW S, NEW s \in Seq(S), NEW c, NEW me, NEW v \in Picture,
         \A i \in DOMAIN s : Legible(s[i], me)
  PROVE  \E g : IsReading(g, c, v, s, me)
<1> DEFINE n == Len(s)
           Fold(it) == [t \in SUBSET DOMAIN s |->
                          IF t = {} THEN v ELSE HearOn(c, it[t \ {Max(t)}], s[Max(t)], me)]
           h == CHOOSE it : it = Fold(it)
           step == [p \in Picture \X (1 .. n) |-> HearOn(c, p[1], s[p[2]], me)]
<1>1. Reading(c, v, s, me) = h[DOMAIN s]
  BY DEF Reading, FoldLeft, MapThenFoldSet, HearOn
<1>2. DOMAIN s = 1 .. n /\ n \in Nat
  OBVIOUS
<1>3. step \in [Picture \X (1 .. n) -> Picture]
  BY DEF HearOn, Legible
<1>4. PICK it \in [SUBSET (1 .. n) -> Picture] : IsFold(it, v, n, step)
  <2> HIDE DEF n, step
  <2> QED BY <1>2, <1>3, FoldExists
<1>5. it = Fold(it)
  <2>1. ASSUME NEW t \in SUBSET (1 .. n), t # {}
        PROVE step[<<it[t \ {Max(t)}], Max(t)>>] = HearOn(c, it[t \ {Max(t)}], s[Max(t)], me)
    <3>1. it[t \ {Max(t)}] \in Picture /\ Max(t) \in 1 .. n
      BY <1>2, <1>4, <2>1, MaxIsThere
    <3> QED BY <3>1
  <2>2. it = [t \in SUBSET (1 .. n) |-> it[t]]
    OBVIOUS
  <2> HIDE DEF step, n
  <2> QED BY <1>2, <1>4, <2>1, <2>2 DEF IsFold
<1>6. h = Fold(h)
  <2> HIDE DEF Fold
  <2> QED BY <1>5
<1> HIDE DEF h
<1>7. \A t \in SUBSET (1 .. n) :
        h[t] = IF t = {} THEN v ELSE HearOn(c, h[t \ {Max(t)}], s[Max(t)], me)
  BY <1>2, <1>6
<1> HIDE DEF Fold
<1> DEFINE g == [k \in 0 .. n |-> h[1 .. k]]
<1>8. g[0] = v /\ Reading(c, v, s, me) = g[n]
  BY <1>1, <1>2, <1>7, FirstSets
<1>9. ASSUME NEW k \in 0 .. n - 1 PROVE g[k + 1] = HearOn(c, g[k], s[k + 1], me)
  <2>1. /\ k \in 0 .. n /\ k + 1 \in 0 .. n /\ 1 .. k + 1 \in SUBSET (1 .. n)
        /\ 1 .. k + 1 # {} /\ (1 .. k + 1) \ {k + 1} = 1 .. k /\ Max(1 .. k + 1) = k + 1
    BY <1>2, FirstSets
  <2>2. g[k] = h[1 .. k] /\ g[k + 1] = h[1 .. k + 1]
    BY <2>1
  <2> HIDE DEF g, n
  <2> QED BY <1>7, <2>1, <2>2
<1>10. IsReading(g, c, v, s, me)
  <2> HIDE DEF g
  <2> QED BY <1>8, <1>9 DEF IsReading
<1> QED BY <1>10

\* Outboxes of no message, of one, of two and of three.
LEMMA NoReading ==
  ASSUME NEW c, NEW me, NEW v \in Picture
  PROVE  Reading(c, v, <<>>, me) = v
<1>1. ASSUME NEW S, NEW s \in Seq(S), \A i \in DOMAIN s : Legible(s[i], me), Len(s) = 0
      PROVE  Reading(c, v, s, me) = v
  <2>1. PICK g : /\ g[0] = v
                 /\ \A k \in 0 .. Len(s) - 1 : g[k + 1] = HearOn(c, g[k], s[k + 1], me)
                 /\ Reading(c, v, s, me) = g[Len(s)]
    <3>1. PICK g : IsReading(g, c, v, s, me)
      BY <1>1, ReadingTrace
    <3> QED BY <3>1 DEF IsReading
  <2> QED BY <1>1, <2>1
<1>2. <<>> \in Seq({}) /\ Len(<<>>) = 0 /\ DOMAIN <<>> = {}
  OBVIOUS
<1> QED BY <1>1, <1>2

\* To read a list of one message is to hear it.
LEMMA OneReading ==
  ASSUME NEW c, NEW me, NEW v \in Picture, NEW m, Legible(m, me)
  PROVE  Reading(c, v, <<m>>, me) = HearOn(c, v, m, me)
<1> DEFINE s == <<m>>
<1>1. s \in Seq({m}) /\ Len(s) = 1 /\ s[1] = m /\ \A i \in DOMAIN s : s[i] = m
  OBVIOUS
<1> HIDE DEF s
<1>2. PICK g : /\ g[0] = v
               /\ \A k \in 0 .. Len(s) - 1 : g[k + 1] = HearOn(c, g[k], s[k + 1], me)
               /\ Reading(c, v, s, me) = g[Len(s)]
  <2>1. PICK g : IsReading(g, c, v, s, me)
    BY <1>1, ReadingTrace
  <2> QED BY <2>1 DEF IsReading
<1>3. g[0 + 1] = HearOn(c, g[0], s[0 + 1], me)
  BY <1>1, <1>2
<1>4. Reading(c, v, s, me) = HearOn(c, v, m, me)
  BY <1>1, <1>2, <1>3
<1> QED BY <1>4 DEF s

\* Reading two messages is hearing one after the other.
LEMMA TwoReadings ==
  ASSUME NEW c, NEW me, NEW v \in Picture, NEW m1, NEW m2, Legible(m1, me), Legible(m2, me)
  PROVE  Reading(c, v, <<m1, m2>>, me) = HearOn(c, HearOn(c, v, m1, me), m2, me)
<1> DEFINE s == <<m1, m2>>
<1>1. s \in Seq({m1, m2}) /\ Len(s) = 2 /\ s[1] = m1 /\ s[2] = m2
      /\ \A i \in DOMAIN s : s[i] \in {m1, m2}
  OBVIOUS
<1> HIDE DEF s
<1>2. PICK g : /\ g[0] = v
               /\ \A k \in 0 .. Len(s) - 1 : g[k + 1] = HearOn(c, g[k], s[k + 1], me)
               /\ Reading(c, v, s, me) = g[Len(s)]
  <2>1. PICK g : IsReading(g, c, v, s, me)
    BY <1>1, ReadingTrace
  <2> QED BY <2>1 DEF IsReading
<1>3. g[0 + 1] = HearOn(c, g[0], s[0 + 1], me) /\ g[1 + 1] = HearOn(c, g[1], s[1 + 1], me)
  BY <1>1, <1>2
<1>4. Reading(c, v, s, me) = HearOn(c, HearOn(c, v, m1, me), m2, me)
  BY <1>1, <1>2, <1>3
<1> QED BY <1>4 DEF s

\* The same for three, the most one command sends.
LEMMA ThreeReadings ==
  ASSUME NEW c, NEW me, NEW v \in Picture, NEW m1, NEW m2, NEW m3,
         Legible(m1, me), Legible(m2, me), Legible(m3, me)
  PROVE  Reading(c, v, <<m1, m2, m3>>, me)
           = HearOn(c, HearOn(c, HearOn(c, v, m1, me), m2, me), m3, me)
<1> DEFINE s == <<m1, m2, m3>>
<1>1. s \in Seq({m1, m2, m3}) /\ Len(s) = 3 /\ s[1] = m1 /\ s[2] = m2 /\ s[3] = m3
      /\ \A i \in DOMAIN s : s[i] \in {m1, m2, m3}
  OBVIOUS
<1> HIDE DEF s
<1>2. PICK g : /\ g[0] = v
               /\ \A k \in 0 .. Len(s) - 1 : g[k + 1] = HearOn(c, g[k], s[k + 1], me)
               /\ Reading(c, v, s, me) = g[Len(s)]
  <2>1. PICK g : IsReading(g, c, v, s, me)
    BY <1>1, ReadingTrace
  <2> QED BY <2>1 DEF IsReading
<1>3. /\ g[0 + 1] = HearOn(c, g[0], s[0 + 1], me)
      /\ g[1 + 1] = HearOn(c, g[1], s[1 + 1], me)
      /\ g[2 + 1] = HearOn(c, g[2], s[2 + 1], me)
  BY <1>1, <1>2
<1>4. Reading(c, v, s, me) = HearOn(c, HearOn(c, HearOn(c, v, m1, me), m2, me), m3, me)
  BY <1>1, <1>2, <1>3
<1> QED BY <1>4 DEF s

-----------------------------------------------------------------------------
\* What one message does to a picture.

\* The letters of a MODE message that are about operators name users.
Nameable(letters) ==
  \E S : letters \in Seq(S) /\ \A i \in DOMAIN letters : letters[i].mode = "o" => letters[i].arg \in Name

\* Letters about names make a set of names of one.
LEMMA HearModesType ==
  ASSUME NEW ops \in SUBSET Name, NEW letters, Nameable(letters)
  PROVE  HearModes(ops, letters) \in SUBSET Name
<1>1. PICK S : letters \in Seq(S)
  BY DEF Nameable
<1> DEFINE n == Len(letters)
<1>2. PICK g : /\ g[0] = ops
               /\ \A k \in 0 .. n - 1 : g[k + 1] = AfterLetter(g[k], letters[k + 1])
               /\ HearModes(ops, letters) = g[n]
  BY <1>1, HearModesTrace
<1>3. n \in Nat /\ \A i \in 1 .. n : letters[i].mode = "o" => letters[i].arg \in Name
  BY <1>1 DEF Nameable
<1> HIDE DEF n
<1> DEFINE I == {k \in Nat : k <= n => g[k] \in SUBSET Name}
<1>4. 0 \in I
  BY <1>2
<1>5. ASSUME NEW k \in Nat, k \in I PROVE k + 1 \in I
  <2>1. SUFFICES ASSUME k + 1 <= n PROVE g[k + 1] \in SUBSET Name
    OBVIOUS
  <2>2. k \in 0 .. n - 1 /\ k + 1 \in 1 .. n /\ g[k] \in SUBSET Name
    BY <1>3, <1>5, <2>1
  <2> HIDE DEF I
  <2> QED BY <1>2, <1>3, <2>2 DEF AfterLetter
<1>6. n \in I
  <2> HIDE DEF I
  <2> QED BY <1>3, <1>4, <1>5, SetInduction
<1> QED BY <1>2, <1>3, <1>6

\* What the server sends leaves pictures pictures.
LEMMA LegibleMessages ==
  ASSUME NEW m, NEW me,
         m.kind \in {"join", "part", "kick", "names", "mode", "topic", "invite", "341", "324", "privmsg"},
         m.kind = "join" => m.who \in Name,
         m.kind = "names" => m.body.members \in SUBSET Name /\ m.body.ops \in SUBSET Name,
         m.kind = "topic" => m.body \in Text \cup {Empty},
         m.kind = "mode" => Nameable(m.body)
  PROVE  Legible(m, me)
<1> SUFFICES ASSUME NEW v \in Picture PROVE Hear(v, m, me) \in Picture
  BY DEF Legible
<1> DEFINE stray == v.strays \/ Stray(v, m)
           w == [v EXCEPT !.strays = stray]
<1>1. w \in Picture /\ v.strays \in BOOLEAN /\ w.strays \in BOOLEAN /\ w.ops \in SUBSET Name
      /\ w.members \in SUBSET Name
  BY DEF Picture, Stray
<1>2. Hear(v, m, me) =
        CASE m.kind = "join" /\ m.who = me ->
               [Outside EXCEPT !.inside = TRUE, !.members = {me}, !.strays = v.strays]
          [] m.kind = "join" /\ m.who # me -> [w EXCEPT !.members = @ \cup {m.who}]
          [] m.kind \in {"part", "kick"} /\ m.who = me -> [Outside EXCEPT !.strays = w.strays]
          [] m.kind \in {"part", "kick"} /\ m.who # me ->
               [w EXCEPT !.members = @ \ {m.who}, !.ops = @ \ {m.who}]
          [] m.kind = "names" -> [w EXCEPT !.members = m.body.members, !.ops = m.body.ops]
          [] m.kind = "mode" -> [w EXCEPT !.ops = HearModes(@, m.body)]
          [] m.kind = "topic" -> [w EXCEPT !.topic = m.body]
          [] OTHER -> w
  BY DEF Hear
<1> HIDE DEF w
<1>3. CASE m.kind = "join"
  <2> DEFINE mine   == [Outside EXCEPT !.inside = TRUE, !.members = {me}, !.strays = v.strays]
             theirs == [w EXCEPT !.members = w.members \cup {m.who}]
  <2>1. m.who = me => mine \in Picture
    BY <1>1, <1>3 DEF Picture, Outside
  <2>2. theirs \in Picture
    BY <1>1, <1>3 DEF Picture
  <2>3. Hear(v, m, me) = IF m.who = me THEN mine ELSE theirs
    BY <1>2, <1>3
  <2> HIDE DEF mine, theirs
  <2> QED BY <2>1, <2>2, <2>3
<1>4. CASE m.kind \in {"part", "kick"}
  <2> DEFINE mine   == [Outside EXCEPT !.strays = w.strays]
             theirs == [w EXCEPT !.members = w.members \ {m.who}, !.ops = w.ops \ {m.who}]
  <2>1. mine \in Picture
    BY <1>1 DEF Picture, Outside
  <2>2. theirs \in Picture
    BY <1>1 DEF Picture
  <2>3. Hear(v, m, me) = IF m.who = me THEN mine ELSE theirs
    BY <1>2, <1>4
  <2> HIDE DEF mine, theirs
  <2> QED BY <2>1, <2>2, <2>3
<1>5. CASE m.kind = "names"
  BY <1>1, <1>2, <1>5 DEF Picture
<1>6. CASE m.kind = "mode"
  <2>1. HearModes(w.ops, m.body) \in SUBSET Name
    BY <1>1, <1>6, HearModesType
  <2>2. Hear(v, m, me) = [w EXCEPT !.ops = HearModes(w.ops, m.body)]
    BY <1>2, <1>6
  <2> QED BY <1>1, <2>1, <2>2 DEF Picture
<1>7. CASE m.kind = "topic"
  BY <1>1, <1>2, <1>7 DEF Picture
<1>8. CASE m.kind \in {"invite", "341", "324", "privmsg"}
  BY <1>1, <1>2, <1>8
<1> QED BY <1>3, <1>4, <1>5, <1>6, <1>7, <1>8

\* Messages that say nothing of the channel, to a client they are for.
LEMMA HearNothing ==
  ASSUME NEW m, NEW me, NEW v \in Picture, ~ v.strays,
         m.kind \in {"invite", "341"} \/ (m.kind \in {"324", "privmsg"} /\ v.inside)
  PROVE  Hear(v, m, me) = v
BY DEF Hear, Stray, Picture

\* The fields of what a client inside makes of a message.
LEMMA HearTopic ==
  ASSUME NEW m, NEW me, NEW v \in Picture, ~ v.strays, v.inside, m.kind = "topic"
  PROVE  LET w == Hear(v, m, me)
         IN  w.inside /\ ~ w.strays /\ w.members = v.members /\ w.ops = v.ops /\ w.topic = m.body
BY DEF Hear, Stray, Picture

\* The list of names replaces what the client knew.
LEMMA HearNames ==
  ASSUME NEW m, NEW me, NEW v \in Picture, ~ v.strays, v.inside, m.kind = "names"
  PROVE  LET w == Hear(v, m, me)
         IN  /\ w.inside /\ ~ w.strays /\ w.topic = v.topic
             /\ w.members = m.body.members /\ w.ops = m.body.ops
BY DEF Hear, Stray, Picture

\* A MODE message changes the operators and nothing else.
LEMMA HearMode ==
  ASSUME NEW m, NEW me, NEW v \in Picture, ~ v.strays, v.inside, m.kind = "mode"
  PROVE  LET w == Hear(v, m, me)
         IN  /\ w.inside /\ ~ w.strays /\ w.topic = v.topic
             /\ w.members = v.members /\ w.ops = HearModes(v.ops, m.body)
BY DEF Hear, Stray, Picture

\* The reader of its own JOIN is inside; of another it has one more member.
LEMMA HearJoin ==
  ASSUME NEW m, NEW me, NEW v \in Picture, ~ v.strays, m.kind = "join"
  PROVE  LET w == Hear(v, m, me)
         IN  /\ ~ w.strays
             /\ m.who = me => w.inside
             /\ m.who # me => /\ w.inside = v.inside /\ w.topic = v.topic /\ w.ops = v.ops
                              /\ w.members = v.members \cup {m.who}
BY DEF Hear, Stray, Picture, Outside

\* The reader of its own departure is outside; of another it has one member less.
LEMMA HearDeparture ==
  ASSUME NEW m, NEW me, NEW v \in Picture, ~ v.strays, v.inside, m.kind \in {"part", "kick"}
  PROVE  LET w == Hear(v, m, me)
         IN  /\ ~ w.strays
             /\ m.who = me => ~ w.inside
             /\ m.who # me => /\ w.inside /\ w.topic = v.topic
                              /\ w.members = v.members \ {m.who} /\ w.ops = v.ops \ {m.who}
BY DEF Hear, Stray, Picture, Outside

-----------------------------------------------------------------------------
\* A list of messages that are all about channel c.
AboutOnly(s, c, me) ==
  \E S : s \in Seq(S) /\ \A i \in DOMAIN s : Legible(s[i], me) /\ s[i].chan = c

\* Such a list is read to a picture, and says nothing of another channel.
LEMMA ReadingFacts ==
  ASSUME NEW S, NEW s \in Seq(S), NEW me, NEW c, NEW v \in Picture,
         \A i \in DOMAIN s : Legible(s[i], me)
  PROVE  /\ Reading(c, v, s, me) \in Picture
         /\ (\A i \in DOMAIN s : s[i].chan # c) => Reading(c, v, s, me) = v
<1> DEFINE n == Len(s)
<1>1. PICK g : /\ g[0] = v
               /\ \A k \in 0 .. n - 1 : g[k + 1] = HearOn(c, g[k], s[k + 1], me)
               /\ Reading(c, v, s, me) = g[n]
  <2>1. PICK g : IsReading(g, c, v, s, me)
    BY ReadingTrace
  <2> QED BY <2>1 DEF IsReading
<1>2. n \in Nat /\ DOMAIN s = 1 .. n
  OBVIOUS
<1> HIDE DEF n
<1> DEFINE Right(k) == g[k] \in Picture /\ ((\A i \in DOMAIN s : s[i].chan # c) => g[k] = v)
           I == {k \in Nat : k <= n => Right(k)}
<1>3. 0 \in I
  BY <1>1
<1>4. ASSUME NEW k \in Nat, k \in I PROVE k + 1 \in I
  <2>1. SUFFICES ASSUME k + 1 <= n PROVE Right(k + 1)
    OBVIOUS
  <2>2. k \in 0 .. n - 1 /\ k + 1 \in 1 .. n /\ Right(k)
    BY <1>2, <1>4, <2>1
  <2>3. g[k + 1] = HearOn(c, g[k], s[k + 1], me) /\ Legible(s[k + 1], me)
    BY <1>1, <1>2, <2>2
  <2> HIDE DEF I
  <2> QED BY <1>2, <2>2, <2>3 DEF HearOn, Legible
<1>5. n \in I
  <2> HIDE DEF I
  <2> QED BY <1>2, <1>3, <1>4, SetInduction
<1> QED BY <1>1, <1>2, <1>5

\* Lists of up to three messages are about a channel if each message is.
LEMMA ShortLists ==
  ASSUME NEW c, NEW me
  PROVE  /\ AboutOnly(<<>>, c, me)
         /\ \A m1 : Legible(m1, me) /\ m1.chan = c => AboutOnly(<<m1>>, c, me)
         /\ \A m1, m2 : Legible(m1, me) /\ m1.chan = c /\ Legible(m2, me) /\ m2.chan = c
              => AboutOnly(<<m1, m2>>, c, me)
         /\ \A m1, m2, m3 : /\ Legible(m1, me) /\ m1.chan = c /\ Legible(m2, me) /\ m2.chan = c
                            /\ Legible(m3, me) /\ m3.chan = c
              => AboutOnly(<<m1, m2, m3>>, c, me)
<1>1. AboutOnly(<<>>, c, me)
  <2>1. <<>> \in Seq({}) /\ DOMAIN <<>> = {}
    OBVIOUS
  <2> QED BY <2>1 DEF AboutOnly
<1>2. ASSUME NEW m1, Legible(m1, me), m1.chan = c PROVE AboutOnly(<<m1>>, c, me)
  <2>1. <<m1>> \in Seq({m1}) /\ \A i \in DOMAIN <<m1>> : <<m1>>[i] = m1
    OBVIOUS
  <2> QED BY <1>2, <2>1 DEF AboutOnly
<1>3. ASSUME NEW m1, NEW m2, Legible(m1, me), m1.chan = c, Legible(m2, me), m2.chan = c
      PROVE  AboutOnly(<<m1, m2>>, c, me)
  <2>1. <<m1, m2>> \in Seq({m1, m2}) /\ \A i \in DOMAIN <<m1, m2>> : <<m1, m2>>[i] \in {m1, m2}
    OBVIOUS
  <2> QED BY <1>3, <2>1 DEF AboutOnly
<1>4. ASSUME NEW m1, NEW m2, NEW m3, Legible(m1, me), m1.chan = c, Legible(m2, me), m2.chan = c,
             Legible(m3, me), m3.chan = c
      PROVE  AboutOnly(<<m1, m2, m3>>, c, me)
  <2>1. /\ <<m1, m2, m3>> \in Seq({m1, m2, m3})
        /\ \A i \in DOMAIN <<m1, m2, m3>> : <<m1, m2, m3>>[i] \in {m1, m2, m3}
    OBVIOUS
  <2> QED BY <1>4, <2>1 DEF AboutOnly
<1> QED BY <1>1, <1>2, <1>3, <1>4

-----------------------------------------------------------------------------
(***************************************************************************)
(* The invariant: names are unique, and every picture is right.  Of the    *)
(* operators it says that at most one is missing.                          *)
(***************************************************************************)
UsersOK ==
  /\ Registered \subseteq connected
  /\ \A f, g \in Registered : nameOf[f] = nameOf[g] => f = g

Pictured(v, ch) ==
  /\ v.members = NamesOf(ch.members)
  /\ v.topic = ch.topic
  /\ v.ops \subseteq NamesOf(ch.ops)
  /\ \A a, b \in NamesOf(ch.ops) \ v.ops : a = b

Sees(f, c) ==
  /\ ~ view[f][c].strays
  /\ view[f][c].inside <=> Member(f, c)
  /\ Member(f, c) => Pictured(view[f][c], channels[c])

ViewInv ==
  /\ IndInv /\ UsersOK
  /\ view \in [Fd -> [Chan -> Picture]]
  /\ \A f \in Fd : \A c \in Chan : Sees(f, c)

\* What the step makes of the picture client f has of c.
Told(f, c) == Reading(c, view[f][c], sent'[f], nameOf'[f])

\* A picture after the step is the old one with the messages of the step read.
LEMMA ReadGives ==
  ASSUME Read, NEW f \in Fd, NEW c \in Chan
  PROVE  view'[f][c] = IF f \notin connected' THEN Outside ELSE Told(f, c)
BY DEF Read, Told, Reading

\* A client that is not there sees nothing, and there is nothing to see.
LEMMA ClosedSees ==
  ASSUME IndInv', UsersOK', Read, NEW f \in Fd, f \notin connected', NEW c \in Chan
  PROVE  Sees(f, c)' /\ view'[f][c] \in Picture
<1>1. view'[f][c] = Outside
  BY ReadGives
<1>2. ~ Member(f, c)'
  BY DEF IndInv, MembersAreUsers, UsersOK, Member, Exists
<1>3. Outside \in Picture /\ ~ Outside.strays /\ ~ Outside.inside
  BY DEF Outside, Picture
<1> QED BY <1>1, <1>2, <1>3 DEF Sees

\* The picture of c is right after the step.
ToldRight(f, c) ==
  /\ ~ Told(f, c).strays
  /\ Told(f, c).inside <=> Member(f, c)'
  /\ Member(f, c)' => Pictured(Told(f, c), channels'[c])

\* A command about one channel need only tell the truth about that one.
LEMMA OneChannelIsTold ==
  ASSUME ViewInv, IndInv', Read, UNCHANGED users, NEW c \in Chan, NEW ch,
         channels' = [channels EXCEPT ![c] = ch],
         \A f \in connected : AboutOnly(sent'[f], c, nameOf[f]) /\ ToldRight(f, c)
  PROVE  ViewInv'
<1>1. UsersOK' /\ connected' = connected /\ nameOf' = nameOf /\ \A F : NamesOf(F)' = NamesOf(F)
  BY DEF users, ViewInv, UsersOK, Registered, NamesOf
<1>2. ASSUME NEW f \in Fd, NEW d \in Chan PROVE Sees(f, d)' /\ view'[f][d] \in Picture
  <2>1. CASE f \notin connected'
    BY <1>1, <2>1, ClosedSees
  <2>2. CASE f \in connected'
    <3>1. f \in connected /\ view'[f][d] = Told(f, d) /\ view[f][d] \in Picture
      BY <1>1, <2>2, ReadGives DEF ViewInv
    <3>2. PICK S : /\ sent'[f] \in Seq(S)
                   /\ \A i \in DOMAIN sent'[f] : Legible(sent'[f][i], nameOf[f]) /\ sent'[f][i].chan = c
      BY <3>1 DEF AboutOnly
    <3>3. Told(f, d) \in Picture /\ (d # c => Told(f, d) = view[f][d])
      BY <1>1, <3>1, <3>2, ReadingFacts DEF Told
    <3>4. CASE d = c
      <4>1. ToldRight(f, c)
        BY <3>1
      <4> QED BY <1>1, <3>1, <3>3, <3>4, <4>1 DEF ToldRight, Sees, Pictured
    <3>5. CASE d # c
      <4>1. channels'[d] = channels[d]
        BY <3>5 DEF ViewInv, IndInv, TypeOK
      <4>2. Member(f, d)' <=> Member(f, d)
        BY <4>1 DEF Member, Exists
      <4>3. Sees(f, d)
        BY DEF ViewInv
      <4> QED BY <1>1, <3>1, <3>3, <3>5, <4>1, <4>2, <4>3 DEF Sees, Pictured
    <3> QED BY <3>4, <3>5
  <2> QED BY <2>1, <2>2
<1>3. view' \in [Fd -> [Chan -> Picture]]
  BY <1>2 DEF Read
<1> QED BY <1>1, <1>2, <1>3 DEF ViewInv

-----------------------------------------------------------------------------
\* A broadcast goes to the members, each of whom has a user.
LEMMA BroadcastReachesMembers ==
  ASSUME NEW ch, JoinOrderAgrees(ch), ch.members \subseteq Registered
  PROVE  /\ InJoinOrder(ch) = ch.members
         /\ \A m : Broadcast(ch, m) = [g \in Fd |-> IF g \in ch.members THEN <<m>> ELSE <<>>]
<1>1. InJoinOrder(ch) = ch.members
  BY DEF InJoinOrder, JoinOrderAgrees
<1>2. InJoinOrder(ch) \cap Registered = ch.members
  BY <1>1
<1> QED BY <1>1, <1>2 DEF Broadcast, To

\* What the invariant says of one client and one channel.
LEMMA OnePicture ==
  ASSUME ViewInv, NEW f \in Fd, NEW c \in Chan
  PROVE  /\ view[f][c] \in Picture /\ ~ view[f][c].strays
         /\ view[f][c].inside <=> Member(f, c)
         /\ Member(f, c) => Pictured(view[f][c], channels[c])
BY DEF ViewInv, Sees

\* A name of the repository is a nickname.
LEMMA NamesAreNames ==
  ASSUME IndInv
  PROVE  /\ \A F : NamesOf(F) \in SUBSET Name
         /\ \A f \in Registered : nameOf[f] \in Name
BY DEF IndInv, TypeOK, UsersTypeOK, NamesOf, Registered

\* A client is told nothing, or one message about c.
LEMMA ToldNothing ==
  ASSUME ViewInv, UNCHANGED users, NEW c \in Chan, NEW f \in Fd, sent'[f] = <<>>
  PROVE  AboutOnly(sent'[f], c, nameOf[f]) /\ Told(f, c) = view[f][c]
BY ShortLists, NoReading, OnePicture DEF Told

\* A client that gets one message hears it, and nothing else changes for it.
LEMMA ToldOnce ==
  ASSUME ViewInv, UNCHANGED users, NEW c \in Chan, NEW f \in Fd, NEW m,
         sent'[f] = <<m>>, m.chan = c, Legible(m, nameOf[f])
  PROVE  AboutOnly(sent'[f], c, nameOf[f]) /\ Told(f, c) = Hear(view[f][c], m, nameOf[f])
<1>1. view[f][c] \in Picture
  BY OnePicture
<1>2. Reading(c, view[f][c], <<m>>, nameOf[f]) = HearOn(c, view[f][c], m, nameOf[f])
  BY <1>1, OneReading
<1>3. AboutOnly(<<m>>, c, nameOf[f])
  BY ShortLists
<1> QED BY <1>2, <1>3 DEF Told, HearOn, users

\* Who is told nothing keeps a picture that is right if the channel is as it was.
LEMMA NothingIsRight ==
  ASSUME ViewInv, UNCHANGED users, NEW c \in Chan, NEW f \in Fd, Told(f, c) = view[f][c],
         Member(f, c)' <=> Member(f, c),
         Member(f, c) => /\ channels'[c].members = channels[c].members
                         /\ channels'[c].ops = channels[c].ops
                         /\ channels'[c].topic = channels[c].topic
  PROVE  ToldRight(f, c)
BY OnePicture DEF ToldRight, Pictured

-----------------------------------------------------------------------------
\* The two replies of a query, and what is said on a channel.
LEMMA QueriesKeepViews ==
  ASSUME ViewInv, IndInv', Read, NEW f \in Fd, NEW c \in Chan,
         AskTopic(f, c) \/ AskMode(f, c) \/ PrivMsg(f, c)
  PROVE  ViewInv'
<1>1. UNCHANGED users /\ UNCHANGED channels /\ Exists(c)
  BY DEF AskTopic, AskMode, PrivMsg, Member
<1>2. channels' = [channels EXCEPT ![c] = channels[c]]
  BY <1>1 DEF ViewInv, IndInv, TypeOK
<1>3. /\ channels[c] \in ChannelType(Fd, Text) /\ InJoinOrder(channels[c]) = channels[c].members
      /\ channels[c].members \subseteq Registered
  BY <1>1, ExistingChannel, BroadcastReachesMembers DEF ViewInv, Consistent
<1>4. ASSUME NEW g \in Fd
      PROVE  AboutOnly(sent'[g], c, nameOf[g]) /\ ToldRight(g, c)
  <2>1. Member(g, c)' <=> Member(g, c)
    BY <1>1 DEF Member, Exists
  <2>2. CASE sent'[g] = <<>>
    BY <1>1, <2>1, <2>2, ToldNothing, NothingIsRight
  <2>3. ASSUME NEW m, sent'[g] = <<m>>, m.chan = c, Member(g, c),
               m.kind \in {"324", "privmsg"} \/ (m.kind = "topic" /\ m.body = channels[c].topic)
        PROVE  AboutOnly(sent'[g], c, nameOf[g]) /\ ToldRight(g, c)
    <3>1. Legible(m, nameOf[g])
      BY <1>3, <2>3, LegibleMessages DEF ChannelType
    <3>2. AboutOnly(sent'[g], c, nameOf[g]) /\ Told(g, c) = Hear(view[g][c], m, nameOf[g])
      BY <1>1, <2>3, <3>1, ToldOnce
    <3>3. CASE m.kind \in {"324", "privmsg"}
      <4>1. Told(g, c) = view[g][c]
        BY <2>3, <3>2, <3>3, OnePicture, HearNothing
      <4> QED BY <1>1, <2>1, <3>2, <4>1, NothingIsRight
    <3>4. CASE m.kind = "topic" /\ m.body = channels[c].topic
      <4>1. /\ Told(g, c).inside /\ ~ Told(g, c).strays /\ Told(g, c).topic = channels[c].topic
            /\ Told(g, c).members = view[g][c].members /\ Told(g, c).ops = view[g][c].ops
        BY <2>3, <3>2, <3>4, OnePicture, HearTopic
      <4> QED BY <1>1, <2>1, <2>3, <3>2, <4>1, OnePicture DEF ToldRight, Pictured
    <3> QED BY <2>3, <3>3, <3>4
  <2>4. CASE AskTopic(f, c)
    <3> DEFINE m == TopicReply(c, channels[c])
    <3>1. sent'[g] = (IF g = f THEN <<m>> ELSE <<>>) /\ Member(f, c)
      BY <2>4 DEF AskTopic, To
    <3>2. m.chan = c /\ m.kind = "topic" /\ m.body = channels[c].topic
      BY DEF TopicReply, Msg
    <3> HIDE DEF m
    <3> QED BY <2>2, <2>3, <3>1, <3>2
  <2>5. CASE AskMode(f, c)
    <3> DEFINE ch == channels[c]
               m == Msg("324", c, NoName, [inviteOnly |-> ch.inviteOnly, topicLock |-> ch.topicLock,
                                           key |-> ch.key, limit |-> ch.limit])
    <3>1. sent'[g] = (IF g = f THEN <<m>> ELSE <<>>) /\ Member(f, c)
      BY <2>5 DEF AskMode, To
    <3>2. m.chan = c /\ m.kind = "324"
      BY DEF Msg
    <3> HIDE DEF m
    <3> QED BY <2>2, <2>3, <3>1, <3>2
  <2>6. CASE PrivMsg(f, c)
    <3> DEFINE m == Msg("privmsg", c, nameOf[f], Empty)
    <3>1. sent'[g] = <<>> \/ (sent'[g] = <<m>> /\ g \in InJoinOrder(channels[c]))
      BY <2>6 DEF PrivMsg, To
    <3>2. m.chan = c /\ m.kind = "privmsg"
      BY DEF Msg
    <3> HIDE DEF m
    <3> QED BY <1>1, <1>3, <2>2, <2>3, <3>1, <3>2 DEF Member
  <2> QED BY <2>4, <2>5, <2>6
<1>5. connected \subseteq Fd
  BY DEF ViewInv, IndInv, TypeOK, UsersTypeOK
<1> QED BY <1>1, <1>2, <1>4, <1>5, OneChannelIsTold

\* INVITE answers the inviter and tells the guest; a guest may be both.
LEMMA InviteKeepsViews ==
  ASSUME ViewInv, IndInv', Read, NEW f \in Fd, NEW c \in Chan, NEW n \in Name, Invite(f, c, n)
  PROVE  ViewInv'
<1> DEFINE m1 == Msg("invite", c, nameOf[f], Empty)
           m2 == Msg("341", c, n, Empty)
           ch == InviteUser(channels[c], Who[n])
<1>1. /\ UNCHANGED users /\ Exists(c) /\ Member(f, c) /\ ~ Member(Who[n], c)
      /\ channels' = [channels EXCEPT ![c] = ch]
      /\ sent' = To({Who[n]}, m1) ++ To({f}, m2)
  BY DEF Invite, Oper, Member
<1>2. channels'[c] = ch /\ channels[c] \in ChannelType(Fd, Text)
  BY <1>1, ExistingChannel DEF ViewInv, IndInv, TypeOK
<1>3. /\ ch.members = channels[c].members /\ ch.ops = channels[c].ops
      /\ ch.topic = channels[c].topic /\ ch # NoChannel
  <2>1. ch \in ChannelType(Fd, Text)
    <3>1. Who[n] \in Fd
      BY WhoIsAUser DEF Invite
    <3> QED BY <1>2, <3>1 DEF InviteUser, ChannelType
  <2> QED BY <1>2, <2>1, ChannelConstantsAssumption DEF InviteUser, ChannelType
<1>4. m1.chan = c /\ m1.kind = "invite" /\ m2.chan = c /\ m2.kind = "341"
  BY DEF Msg
<1> HIDE DEF m1, m2, ch
<1>5. ASSUME NEW g \in Fd PROVE AboutOnly(sent'[g], c, nameOf[g]) /\ ToldRight(g, c)
  <2>1. Member(g, c)' <=> Member(g, c)
    BY <1>1, <1>2, <1>3 DEF Member, Exists
  <2>2. ASSUME Told(g, c) = view[g][c] PROVE ToldRight(g, c)
    BY <1>1, <1>2, <1>3, <2>1, <2>2, NothingIsRight
  <2>3. \A m \in {m1, m2} : m.chan = c /\ Legible(m, nameOf[g]) /\ Hear(view[g][c], m, nameOf[g]) = view[g][c]
    BY <1>4, LegibleMessages, HearNothing, OnePicture
  <2>4. sent'[g] = (IF g = Who[n] THEN <<m1>> ELSE <<>>) \o (IF g = f THEN <<m2>> ELSE <<>>)
    BY <1>1 DEF To, ++
  <2>5. sent'[g] = <<>> \/ \E m \in {m1, m2} : sent'[g] = <<m>>
    <3>1. \A m : <<m>> \o <<>> = <<m>> /\ <<>> \o <<m>> = <<m>> /\ <<>> \o <<>> = <<>>
      OBVIOUS
    <3>2. ~ (g = Who[n] /\ g = f)
      BY <1>1
    <3> QED BY <2>4, <3>1, <3>2
  <2> QED BY <1>1, <2>2, <2>3, <2>5, ToldNothing, ToldOnce
<1>6. connected \subseteq Fd
  BY DEF ViewInv, IndInv, TypeOK, UsersTypeOK
<1> QED BY <1>1, <1>5, <1>6, OneChannelIsTold

\* TOPIC tells the members.
LEMMA SetTopicKeepsViews ==
  ASSUME ViewInv, IndInv', Read, NEW f \in Fd, NEW c \in Chan, NEW t \in Topic, SetTopic(f, c, t)
  PROVE  ViewInv'
<1> DEFINE m  == Msg("topic", c, nameOf[f], t)
           ch == [channels[c] EXCEPT !.topic = t]
<1>1. /\ UNCHANGED users /\ Exists(c) /\ channels' = [channels EXCEPT ![c] = ch]
      /\ sent' = Broadcast(channels[c], m)
  BY DEF SetTopic, Member
<1>2. /\ channels'[c] = ch /\ channels[c] \in ChannelType(Fd, Text)
      /\ JoinOrderAgrees(channels[c]) /\ channels[c].members \subseteq Registered
  BY <1>1, ExistingChannel DEF ViewInv, IndInv, TypeOK, Consistent
<1>3. /\ ch.members = channels[c].members /\ ch.ops = channels[c].ops
      /\ ch.topic = t /\ ch # NoChannel /\ t \in Text \cup {Empty}
  <2>1. t \in Text \cup {Empty}
    BY ChannelConstantsAssumption
  <2>2. ch \in ChannelType(Fd, Text)
    BY <1>2, <2>1 DEF ChannelType
  <2> QED BY <1>2, <2>1, <2>2, ChannelConstantsAssumption DEF ChannelType
<1>4. m.chan = c /\ m.kind = "topic" /\ m.body = t
  BY DEF Msg
<1> HIDE DEF m, ch
<1>5. ASSUME NEW g \in Fd PROVE AboutOnly(sent'[g], c, nameOf[g]) /\ ToldRight(g, c)
  <2>1. Member(g, c)' <=> Member(g, c)
    BY <1>1, <1>2, <1>3 DEF Member, Exists
  <2>2. sent'[g] = IF g \in channels[c].members THEN <<m>> ELSE <<>>
    BY <1>1, <1>2, BroadcastReachesMembers
  <2>3. CASE g \notin channels[c].members
    <3>1. sent'[g] = <<>> /\ ~ Member(g, c)
      BY <2>2, <2>3 DEF Member
    <3> QED BY <1>1, <2>1, <3>1, ToldNothing, NothingIsRight
  <2>4. CASE g \in channels[c].members
    <3>1. sent'[g] = <<m>> /\ Member(g, c) /\ Legible(m, nameOf[g])
      BY <1>1, <1>3, <1>4, <2>2, <2>4, LegibleMessages DEF Member
    <3>2. AboutOnly(sent'[g], c, nameOf[g]) /\ Told(g, c) = Hear(view[g][c], m, nameOf[g])
      BY <1>1, <1>4, <3>1, ToldOnce
    <3>3. /\ Told(g, c).inside /\ ~ Told(g, c).strays /\ Told(g, c).topic = t
          /\ Told(g, c).members = view[g][c].members /\ Told(g, c).ops = view[g][c].ops
      BY <1>4, <3>1, <3>2, OnePicture, HearTopic
    <3> QED BY <1>2, <1>3, <2>1, <3>1, <3>2, <3>3, OnePicture DEF ToldRight, Pictured
  <2> QED BY <2>3, <2>4
<1>6. connected \subseteq Fd
  BY DEF ViewInv, IndInv, TypeOK, UsersTypeOK
<1> QED BY <1>1, <1>5, <1>6, OneChannelIsTold

-----------------------------------------------------------------------------
\* A step in which every client is told nothing of any channel.
LEMMA SilenceKeepsViews ==
  ASSUME ViewInv, IndInv', UsersOK', Read, UNCHANGED channels,
         \A c \in Chan : Exists(c) =>
           /\ NamesOf(channels[c].members)' = NamesOf(channels[c].members)
           /\ NamesOf(channels[c].ops)' = NamesOf(channels[c].ops),
         \A f \in Fd : \A c \in Chan : f \in connected' => Told(f, c) = view[f][c]
  PROVE  ViewInv'
<1>1. ASSUME NEW f \in Fd, NEW c \in Chan PROVE Sees(f, c)' /\ view'[f][c] \in Picture
  <2>1. CASE f \notin connected'
    BY <2>1, ClosedSees
  <2>2. CASE f \in connected'
    <3>1. view'[f][c] = view[f][c] /\ (Member(f, c)' <=> Member(f, c)) /\ (Member(f, c) => Exists(c))
      BY <2>2, ReadGives DEF Member, Exists
    <3> QED BY <3>1, OnePicture DEF Sees, Pictured
  <2> QED BY <2>1, <2>2
<1>2. view' \in [Fd -> [Chan -> Picture]]
  BY <1>1 DEF Read
<1> QED BY <1>1, <1>2 DEF ViewInv

\* A message to a user is of no channel.
LEMMA PrivMsgUserKeepsViews ==
  ASSUME ViewInv, IndInv', Read, NEW f \in Fd, NEW n \in Name, PrivMsgUser(f, n)
  PROVE  ViewInv'
<1> DEFINE m == Msg("privmsg", NoChannel, nameOf[f], Empty)
<1>1. UNCHANGED users /\ UNCHANGED channels /\ sent' = To({Who[n]}, m)
  BY DEF PrivMsgUser
<1>2. m.chan = NoChannel /\ m.kind = "privmsg"
  BY DEF Msg
<1> HIDE DEF m
<1>3. UsersOK' /\ \A F : NamesOf(F)' = NamesOf(F)
  BY <1>1 DEF users, ViewInv, UsersOK, Registered, NamesOf
<1>4. ASSUME NEW g \in Fd, NEW c \in Chan PROVE Told(g, c) = view[g][c]
  <2>1. sent'[g] = IF g = Who[n] THEN <<m>> ELSE <<>>
    BY <1>1 DEF To
  <2>2. view[g][c] \in Picture /\ Legible(m, nameOf'[g])
    BY <1>2, OnePicture, LegibleMessages
  <2>3. Reading(c, view[g][c], <<m>>, nameOf'[g]) = HearOn(c, view[g][c], m, nameOf'[g])
    BY <2>2, OneReading
  <2>4. Reading(c, view[g][c], <<>>, nameOf'[g]) = view[g][c]
    BY <2>2, NoReading
  <2> QED BY <1>2, <2>1, <2>3, <2>4, NoChannelAssumption DEF Told, HearOn
<1> QED BY <1>1, <1>3, <1>4, SilenceKeepsViews

\* A connection, and a registration: the new user is on no channel.
LEMMA ArrivalKeepsViews ==
  ASSUME ViewInv, IndInv', Read, NEW f \in Fd, Accept(f) \/ \E n \in Name : Enter(f, n)
  PROVE  ViewInv'
<1>1. UNCHANGED channels /\ sent' = Silence
  BY DEF Accept, Enter
<1>2. f \notin Registered /\ UsersOK' /\ \A g \in Fd : g # f => nameOf'[g] = nameOf[g]
  <2>1. CASE Accept(f)
    BY <2>1 DEF Accept, Connect, ViewInv, IndInv, TypeOK, UsersTypeOK, UsersOK, Registered
  <2>2. ASSUME NEW n \in Name, Enter(f, n)
        PROVE  f \notin Registered /\ UsersOK' /\ \A g \in Fd : g # f => nameOf'[g] = nameOf[g]
    <3>1. /\ nameOf' = [nameOf EXCEPT ![f] = n] /\ connected' = connected /\ f \in connected
          /\ f \notin Registered /\ ~ Known(n)
      BY <2>2 DEF Enter, Register
    <3>2. \A g \in Fd : nameOf'[g] = IF g = f THEN n ELSE nameOf[g]
      BY <3>1 DEF ViewInv, IndInv, TypeOK, UsersTypeOK
    <3>3. \A g \in Registered' : g = f \/ g \in Registered
      BY <3>2 DEF Registered
    <3> QED BY <3>1, <3>2, <3>3 DEF ViewInv, UsersOK, Known, Registered
  <2> QED BY <2>1, <2>2
<1>3. ASSUME NEW F \in SUBSET Registered PROVE NamesOf(F)' = NamesOf(F)
  <2>1. \A g \in F : g \in Registered /\ g \in Registered' /\ nameOf'[g] = nameOf[g]
    BY <1>2 DEF Registered
  <2> QED BY <2>1 DEF NamesOf
<1>4. ASSUME NEW c \in Chan, Exists(c)
      PROVE  channels[c].members \in SUBSET Registered /\ channels[c].ops \in SUBSET Registered
  BY <1>4, ExistingChannel DEF ViewInv, Sound, HasOperator
<1>5. ASSUME NEW g \in Fd, NEW c \in Chan PROVE Told(g, c) = view[g][c]
  <2>1. sent'[g] = <<>> /\ view[g][c] \in Picture
    BY <1>1, OnePicture DEF Silence
  <2> QED BY <2>1, NoReading DEF Told
<1>6. \A c \in Chan : Exists(c) =>
           /\ NamesOf(channels[c].members)' = NamesOf(channels[c].members)
           /\ NamesOf(channels[c].ops)' = NamesOf(channels[c].ops)
  BY <1>1, <1>3, <1>4
<1> QED BY <1>1, <1>2, <1>5, <1>6, SilenceKeepsViews

-----------------------------------------------------------------------------
\* The names of a set of users with one more, and with one less.
LEMMA NamesOfSets ==
  ASSUME UsersOK, NEW F \in SUBSET Registered, NEW f \in Registered
  PROVE  /\ NamesOf(F \cup {f}) = NamesOf(F) \cup {nameOf[f]}
         /\ NamesOf(F \ {f}) = NamesOf(F) \ {nameOf[f]}
         /\ nameOf[f] \in NamesOf(F) <=> f \in F
BY DEF UsersOK, NamesOf

\* A client is told two, or three, messages about c.
LEMMA ToldTwice ==
  ASSUME ViewInv, UNCHANGED users, NEW c \in Chan, NEW f \in Fd, NEW m1, NEW m2,
         sent'[f] = <<m1, m2>>, m1.chan = c, m2.chan = c,
         Legible(m1, nameOf[f]), Legible(m2, nameOf[f])
  PROVE  /\ AboutOnly(sent'[f], c, nameOf[f])
         /\ Told(f, c) = Hear(Hear(view[f][c], m1, nameOf[f]), m2, nameOf[f])
<1>1. view[f][c] \in Picture
  BY OnePicture
<1>2. Reading(c, view[f][c], <<m1, m2>>, nameOf[f])
        = HearOn(c, HearOn(c, view[f][c], m1, nameOf[f]), m2, nameOf[f])
  BY <1>1, TwoReadings
<1>3. AboutOnly(<<m1, m2>>, c, nameOf[f])
  BY ShortLists
<1> QED BY <1>2, <1>3 DEF Told, HearOn, users

\* The same for three messages.
LEMMA ToldThrice ==
  ASSUME ViewInv, UNCHANGED users, NEW c \in Chan, NEW f \in Fd, NEW m1, NEW m2, NEW m3,
         sent'[f] = <<m1, m2, m3>>, m1.chan = c, m2.chan = c, m3.chan = c,
         Legible(m1, nameOf[f]), Legible(m2, nameOf[f]), Legible(m3, nameOf[f])
  PROVE  /\ AboutOnly(sent'[f], c, nameOf[f])
         /\ Told(f, c) = Hear(Hear(Hear(view[f][c], m1, nameOf[f]), m2, nameOf[f]), m3, nameOf[f])
<1>1. view[f][c] \in Picture
  BY OnePicture
<1>2. Reading(c, view[f][c], <<m1, m2, m3>>, nameOf[f])
        = HearOn(c, HearOn(c, HearOn(c, view[f][c], m1, nameOf[f]), m2, nameOf[f]), m3, nameOf[f])
  BY <1>1, ThreeReadings
<1>3. AboutOnly(<<m1, m2, m3>>, c, nameOf[f])
  BY ShortLists
<1> QED BY <1>2, <1>3 DEF Told, HearOn, users

\* The channel after a JOIN.
LEMMA AdmittedIs ==
  ASSUME IndInv, NEW f \in Fd, NEW c \in Chan, ~ Member(f, c)
  PROVE  LET old == FoundOrCreated(c)
             ch  == Admitted(c, f)
         IN  /\ old \in ChannelType(Fd, Text) /\ ch # NoChannel
             /\ ch.members = old.members \cup {f} /\ ch.topic = old.topic
             /\ ch.ops = IF Exists(c) THEN old.ops ELSE {f}
<1> DEFINE old == FoundOrCreated(c)
           in  == UninviteUser(AddUser(old, f), f)
           ch  == Admitted(c, f)
<1>1. /\ old \in ChannelType(Fd, Text) /\ f \notin old.members /\ Consistent(old)
      /\ ~ Exists(c) => old.ops = {}
  <2>1. CASE Exists(c)
    BY <2>1, ExistingChannel DEF FoundOrCreated, Member
  <2>2. CASE ~ Exists(c)
    BY <2>2, NewChannelIsConsistent DEF FoundOrCreated, NewChannel
  <2> QED BY <2>1, <2>2
<1>2. in \in ChannelType(Fd, Text) /\ in.members = old.members \cup {f} /\ in.ops = old.ops
  <2> HIDE DEF old
  <2> QED BY <1>1, AddUserAdds
<1>3. in.topic = old.topic
  <2> HIDE DEF old
  <2> QED BY <1>1 DEF UninviteUser, AddUser, ChannelType
<1>4. ch = IF Exists(c) THEN in ELSE [in EXCEPT !.ops = @ \cup {f}]
  <2>1. ch = IF Exists(c) THEN in ELSE AddOperator(in, f)
    BY DEF Admitted
  <2> HIDE DEF ch, in
  <2> QED BY <1>2, <2>1 DEF AddOperator
<1> HIDE DEF ch, in, old
<1>5. ch \in ChannelType(Fd, Text)
  BY <1>2, <1>4 DEF ChannelType
<1>6. /\ ch.members = in.members /\ ch.topic = in.topic
      /\ ch.ops = IF Exists(c) THEN in.ops ELSE in.ops \cup {f}
  BY <1>2, <1>4 DEF ChannelType
<1>7. ch # NoChannel
  BY <1>5, ChannelConstantsAssumption
<1> QED BY <1>1, <1>2, <1>3, <1>6, <1>7 DEF ch, old

\* What one outbox gets of a message, and of one list of messages after another.
LEMMA ToAt ==
  ASSUME NEW g \in Fd, NEW F, NEW m
  PROVE  To(F, m)[g] = IF g \in F THEN <<m>> ELSE <<>>
BY DEF To

\* Of two batches a client gets its part of the first, then its part of the second.
LEMMA ThenAt ==
  ASSUME NEW g \in Fd, NEW a, NEW b
  PROVE  (a ++ b)[g] = a[g] \o b[g]
BY DEF ++

\* Short lists put together.
LEMMA OneThenOne ==
  ASSUME NEW m1, NEW m2
  PROVE  <<m1>> \o <<m2>> = <<m1, m2>>
<1> DEFINE S == {m1, m2}
           s == <<m1>>
           t == <<m2>>
           u == <<m1, m2>>
<1>1. /\ s \in Seq(S) /\ t \in Seq(S) /\ u \in Seq(S) /\ Len(s) = 1 /\ Len(t) = 1 /\ Len(u) = 2
      /\ s[1] = m1 /\ t[1] = m2 /\ u[1] = m1 /\ u[2] = m2
  OBVIOUS
<1> HIDE DEF s, t, u, S
<1>2. s \o t \in Seq(S) /\ Len(s \o t) = 2 /\ (s \o t)[1] = m1 /\ (s \o t)[2] = m2
  BY <1>1, ConcatProperties
<1>3. \A i \in 1 .. 2 : (s \o t)[i] = u[i]
  BY <1>1, <1>2
<1>4. s \o t = u
  BY <1>1, <1>2, <1>3, SeqEqual
<1> QED BY <1>4 DEF s, t, u

\* Two messages and one more are three.
LEMMA TwoThenOne ==
  ASSUME NEW m1, NEW m2, NEW m3
  PROVE  <<m1, m2>> \o <<m3>> = <<m1, m2, m3>>
<1> DEFINE S == {m1, m2, m3}
           s == <<m1, m2>>
           t == <<m3>>
           u == <<m1, m2, m3>>
<1>1. /\ s \in Seq(S) /\ t \in Seq(S) /\ u \in Seq(S) /\ Len(s) = 2 /\ Len(t) = 1 /\ Len(u) = 3
      /\ s[1] = m1 /\ s[2] = m2 /\ t[1] = m3 /\ u[1] = m1 /\ u[2] = m2 /\ u[3] = m3
  OBVIOUS
<1> HIDE DEF s, t, u, S
<1>2. /\ s \o t \in Seq(S) /\ Len(s \o t) = 3
      /\ (s \o t)[1] = m1 /\ (s \o t)[2] = m2 /\ (s \o t)[3] = m3
  <2>1. /\ s \o t \in Seq(S) /\ Len(s \o t) = Len(s) + Len(t)
        /\ \A i \in 1 .. Len(s) + Len(t) :
             (s \o t)[i] = IF i <= Len(s) THEN s[i] ELSE t[i - Len(s)]
    BY <1>1, ConcatProperties
  <2>2. Len(s \o t) = 3 /\ 1 \in 1 .. 3 /\ 2 \in 1 .. 3 /\ 3 \in 1 .. 3
    BY <1>1, <2>1
  <2> QED BY <1>1, <2>1, <2>2
<1>3. \A i \in 1 .. 3 : (s \o t)[i] = u[i]
  BY <1>1, <1>2
<1>4. s \o t = u
  BY <1>1, <1>2, <1>3, SeqEqual
<1> QED BY <1>4 DEF s, t, u

\* An empty batch adds nothing.
LEMMA WithNothing ==
  /\ \A m : <<m>> \o <<>> = <<m>> /\ <<>> \o <<m>> = <<m>>
  /\ <<>> \o <<>> = <<>>
OBVIOUS

\* JOIN tells the members of the newcomer, and the newcomer of the channel.
LEMMA JoinKeepsViews ==
  ASSUME ViewInv, IndInv', Read, NEW f \in Fd, NEW c \in Chan, NEW key, Join(f, c, key)
  PROVE  ViewInv'
<1> USE DEF ViewInv
<1>1. UNCHANGED users /\ f \in Registered /\ ~ Member(f, c)
  BY DEF Join
<1>2. connected \subseteq Fd
  BY DEF IndInv, TypeOK, UsersTypeOK
<1>3. CASE channels' = [channels EXCEPT ![c] = FoundOrCreated(c)] /\ sent' = Silence
           /\ ~ Admits(FoundOrCreated(c), f, key)
  <2>1. Exists(c)
    BY <1>3 DEF Admits, FoundOrCreated, NewChannel
  <2>2. channels' = [channels EXCEPT ![c] = channels[c]] /\ UNCHANGED channels
    BY <1>3, <2>1 DEF FoundOrCreated, IndInv, TypeOK
  <2>3. ASSUME NEW g \in Fd PROVE AboutOnly(sent'[g], c, nameOf[g]) /\ ToldRight(g, c)
    <3>1. sent'[g] = <<>> /\ (Member(g, c)' <=> Member(g, c))
      BY <1>3, <2>2 DEF Silence, Member, Exists
    <3> QED BY <1>1, <2>2, <3>1, ToldNothing, NothingIsRight
  <2> QED BY <1>1, <1>2, <2>2, <2>3, OneChannelIsTold
<1>4. ASSUME NEW ch, ch = Admitted(c, f), channels' = [channels EXCEPT ![c] = ch],
             sent' = Broadcast(ch, Msg("join", c, nameOf[f], Empty))
                       ++ To({f}, TopicReply(c, ch)) ++ To({f}, NamesReply(c, ch))
      PROVE  ViewInv'
  <2> DEFINE old == FoundOrCreated(c)
             m1  == Msg("join", c, nameOf[f], Empty)
             m2  == TopicReply(c, ch)
             m3  == NamesReply(c, ch)
  <2>1. /\ old \in ChannelType(Fd, Text) /\ ch # NoChannel
        /\ ch.members = old.members \cup {f} /\ ch.topic = old.topic
        /\ ch.ops = IF Exists(c) THEN old.ops ELSE {f}
    BY <1>1, <1>4, AdmittedIs
  <2>2. channels'[c] = ch /\ \A g : Member(g, c)' <=> g \in ch.members
    BY <1>4, <2>1 DEF IndInv, TypeOK, Member, Exists
  <2>3. JoinOrderAgrees(ch) /\ ch.ops \subseteq ch.members /\ ch.members \subseteq Registered
    BY <1>1, <2>1, <2>2 DEF IndInv, ChannelsSound, MembersAreUsers, Exists, Sound, HasOperator,
       Registered, users
  <2>4. \A g : g \in old.members <=> Member(g, c)
    BY DEF Member, FoundOrCreated, NewChannel
  <2>5. InJoinOrder(ch) = ch.members /\ InJoinOrder(ch) \cap ch.ops = ch.ops
    BY <2>3, BroadcastReachesMembers
  <2>6. /\ m1.kind = "join" /\ m1.chan = c /\ m1.who = nameOf[f] /\ nameOf[f] \in Name
        /\ m2.kind = "topic" /\ m2.chan = c /\ m2.body = ch.topic /\ ch.topic \in Text \cup {Empty}
        /\ m3.kind = "names" /\ m3.chan = c /\ m3.body.members = NamesOf(ch.members)
        /\ m3.body.ops = NamesOf(ch.ops)
    BY <1>1, <2>1, <2>5, NamesAreNames DEF Msg, TopicReply, NamesReply, ChannelType
  <2>7. \A me : Legible(m1, me) /\ Legible(m2, me) /\ Legible(m3, me)
    <3> HIDE DEF m1, m2, m3
    <3> QED BY <2>6, LegibleMessages, NamesAreNames
  <2> HIDE DEF m1, m2, m3, old
  <2>8. ASSUME NEW g \in Fd
        PROVE  /\ g \notin ch.members /\ g # f => sent'[g] = <<>>
               /\ g \in ch.members /\ g # f => sent'[g] = <<m1>>
               /\ g \in ch.members /\ g = f => sent'[g] = <<m1, m2, m3>>
    <3>1. sent' = (Broadcast(ch, m1) ++ To({f}, m2)) ++ To({f}, m3)
      BY <1>4 DEF m1, m2, m3
    <3>2. sent'[g] = (Broadcast(ch, m1)[g] \o To({f}, m2)[g]) \o To({f}, m3)[g]
      BY <3>1, ThenAt
    <3>3. Broadcast(ch, m1)[g] = IF g \in ch.members THEN <<m1>> ELSE <<>>
      BY <2>3, BroadcastReachesMembers
    <3>4. /\ To({f}, m2)[g] = IF g = f THEN <<m2>> ELSE <<>>
          /\ To({f}, m3)[g] = IF g = f THEN <<m3>> ELSE <<>>
      BY ToAt
    <3>5. CASE g # f
      BY <3>2, <3>3, <3>4, <3>5, WithNothing
    <3>6. CASE g = f
      <4>1. sent'[g] = (<<m1>> \o <<m2>>) \o <<m3>>
        BY <2>1, <3>2, <3>3, <3>4, <3>6
      <4>2. sent'[g] = <<m1, m2>> \o <<m3>>
        BY <4>1, OneThenOne
      <4>3. sent'[g] = <<m1, m2, m3>>
        BY <4>2, TwoThenOne
      <4> QED BY <3>6, <4>3
    <3> QED BY <3>5, <3>6
  <2>9. ASSUME NEW g \in Fd PROVE AboutOnly(sent'[g], c, nameOf[g]) /\ ToldRight(g, c)
    <3>1. /\ g \in ch.members <=> g = f \/ Member(g, c)
          /\ view[g][c] \in Picture /\ ~ view[g][c].strays
      BY <2>1, <2>4, OnePicture
    <3>2. CASE g \notin ch.members
      <4>1. sent'[g] = <<>> /\ ~ Member(g, c) /\ (Member(g, c)' <=> Member(g, c))
        BY <2>2, <2>8, <3>1, <3>2
      <4> QED BY <1>1, <4>1, ToldNothing, NothingIsRight
    <3>3. CASE g = f
      <4>1. sent'[g] = <<m1, m2, m3>>
        BY <2>1, <2>8, <3>3
      <4> DEFINE me == nameOf[g]
                 w1 == Hear(view[g][c], m1, me)
                 w2 == Hear(w1, m2, me)
                 w3 == Hear(w2, m3, me)
      <4>2. AboutOnly(sent'[g], c, nameOf[g]) /\ Told(g, c) = w3
        BY <1>1, <2>6, <2>7, <4>1, ToldThrice
      <4>3. w1 \in Picture /\ w1.inside /\ ~ w1.strays
        BY <2>6, <2>7, <3>1, <3>3, HearJoin DEF Legible
      <4>4. w2 \in Picture /\ w2.inside /\ ~ w2.strays /\ w2.topic = ch.topic
        <5> HIDE DEF w1
        <5> QED BY <2>6, <2>7, <4>3, HearTopic DEF Legible
      <4>5. /\ w3.inside /\ ~ w3.strays /\ w3.topic = ch.topic
            /\ w3.members = NamesOf(ch.members) /\ w3.ops = NamesOf(ch.ops)
        <5> HIDE DEF w2
        <5> QED BY <2>6, <2>7, <4>4, HearNames
      <4> HIDE DEF w3
      <4> QED BY <2>2, <3>1, <3>3, <4>2, <4>5 DEF ToldRight, Pictured
    <3>4. CASE g # f /\ Member(g, c)
      <4>1. sent'[g] = <<m1>>
        BY <2>8, <3>1, <3>4
      <4>2. AboutOnly(sent'[g], c, nameOf[g]) /\ Told(g, c) = Hear(view[g][c], m1, nameOf[g])
        BY <1>1, <2>6, <2>7, <4>1, ToldOnce
      <4>3. /\ Exists(c) /\ old = channels[c] /\ channels[c].members \in SUBSET Registered
            /\ g \in Registered /\ nameOf[g] # nameOf[f]
        <5>1. Exists(c) /\ old = channels[c] /\ channels[c].members \in SUBSET Registered
          BY <3>4, ExistingChannel DEF Member, FoundOrCreated, old
        <5> QED BY <1>1, <2>4, <3>4, <5>1 DEF UsersOK
      <4>4. Pictured(view[g][c], channels[c]) /\ view[g][c].inside
        BY <3>4, OnePicture
      <4> DEFINE w == Told(g, c)
      <4>5. /\ ~ w.strays /\ w.inside /\ w.topic = view[g][c].topic /\ w.ops = view[g][c].ops
            /\ w.members = view[g][c].members \cup {nameOf[f]}
        BY <2>6, <3>1, <4>2, <4>3, <4>4, HearJoin
      <4>6. NamesOf(ch.members) = NamesOf(channels[c].members) \cup {nameOf[f]}
        <5>1. ch.members = channels[c].members \cup {f} /\ UsersOK
          BY <2>1, <4>3
        <5>2. NamesOf(channels[c].members \cup {f}) = NamesOf(channels[c].members) \cup {nameOf[f]}
          BY <1>1, <4>3, <5>1, NamesOfSets
        <5> QED BY <5>1, <5>2
      <4>7. ch.ops = channels[c].ops /\ ch.topic = channels[c].topic
        BY <2>1, <4>3
      <4>8. Pictured(w, ch)
        <5> HIDE DEF w
        <5> QED BY <4>4, <4>5, <4>6, <4>7 DEF Pictured
      <4> QED BY <2>2, <3>1, <3>4, <4>2, <4>5, <4>8 DEF ToldRight
    <3> QED BY <3>1, <3>2, <3>3, <3>4
  <2> QED BY <1>1, <1>2, <1>4, <2>9, OneChannelIsTold
<1> QED BY <1>3, <1>4 DEF Join

-----------------------------------------------------------------------------
\* The message the server sends of its own when it promotes p.
PromotionNews(c, p) ==
  Msg("mode", c, NoName, <<[sign |-> "+", mode |-> "o", arg |-> nameOf[p]]>>)

\* Whoever is promoted is the only operator, and every member is told.
LEMMA PromotionTells ==
  ASSUME NEW c, NEW ch \in ChannelType(Fd, Text), Consistent(ch), ch.members # {},
         ch.members \subseteq Registered
  PROVE  LET next == EnsureOperator(ch)
             p    == Promoted(ch)
         IN  /\ next \in ChannelType(Fd, Text) /\ Sound(next) /\ next # NoChannel
             /\ next.members = ch.members /\ next.topic = ch.topic
             /\ p = NoFd => next.ops = ch.ops /\ Promotion(c, next, p) = Silence
             /\ p # NoFd => /\ p \in ch.members /\ p \in Registered /\ ch.ops = {} /\ next.ops = {p}
                            /\ Promotion(c, next, p)
                                 = [g \in Fd |-> IF g \in ch.members THEN <<PromotionNews(c, p)>> ELSE <<>>]
<1> DEFINE next == EnsureOperator(ch)
           p    == Promoted(ch)
<1>1. /\ next \in ChannelType(Fd, Text) /\ Sound(next) /\ next.members = ch.members
      /\ ch.ops # {} => next.ops = ch.ops
  BY EnsuredIsSound
<1>2. next # NoChannel
  BY <1>1, ChannelConstantsAssumption
<1>3. /\ next.topic = ch.topic
      /\ next.ops = (ch.ops \cap ch.members) \cup ({p} \ {NoFd})
  <2>1. next = [ch EXCEPT !.ops = (ch.ops \cap ch.members) \cup ({p} \ {NoFd})]
    BY DEF EnsureOperator
  <2> HIDE DEF next, p
  <2> QED BY <2>1 DEF ChannelType
<1>4. next.ops # {} /\ next.ops \subseteq ch.members /\ ch.ops \subseteq ch.members
  BY <1>1 DEF Sound, HasOperator, Consistent
<1>5. ch.ops # {} => p = NoFd
  BY <1>4 DEF Promoted
<1>6. p # NoFd => p \in ch.members /\ p \in Registered /\ ch.ops = {} /\ next.ops = {p}
  <2> HIDE DEF next, p
  <2> QED BY <1>3, <1>4, <1>5
<1>7. p = NoFd => next.ops = ch.ops /\ Promotion(c, next, p) = Silence
  <2>1. p = NoFd => next.ops = ch.ops
    <3> HIDE DEF next, p
    <3> QED BY <1>3, <1>4
  <2>2. p = NoFd => Promotion(c, next, p) = Silence
    <3> HIDE DEF next, p
    <3> QED BY DEF Promotion
  <2> QED BY <2>1, <2>2
<1>8. p # NoFd => Promotion(c, next, p)
                    = [g \in Fd |-> IF g \in ch.members THEN <<PromotionNews(c, p)>> ELSE <<>>]
  <2>1. JoinOrderAgrees(next) /\ next.members \subseteq Registered
    BY <1>1 DEF Sound
  <2> HIDE DEF next, p
  <2>2. p # NoFd => Promotion(c, next, p) = Broadcast(next, PromotionNews(c, p))
    BY DEF Promotion, PromotionNews
  <2> QED BY <1>1, <2>1, <2>2, BroadcastReachesMembers
<1> HIDE DEF next, p
<1> QED BY <1>1, <1>2, <1>3, <1>6, <1>7, <1>8 DEF next, p

\* What a member makes of it.
LEMMA HearPromotion ==
  ASSUME IndInv, NEW c, NEW p \in Registered, NEW me, NEW v \in Picture, ~ v.strays, v.inside
  PROVE  LET m == PromotionNews(c, p)
             w == Hear(v, m, me)
         IN  /\ Legible(m, me) /\ m.chan = c
             /\ w.inside /\ ~ w.strays /\ w.topic = v.topic /\ w.members = v.members
             /\ w.ops = v.ops \cup {nameOf[p]}
<1> DEFINE r == [sign |-> "+", mode |-> "o", arg |-> nameOf[p]]
           m == PromotionNews(c, p)
<1>1. nameOf[p] \in Name /\ r.mode = "o" /\ r.sign = "+" /\ r.arg = nameOf[p]
  BY NamesAreNames
<1>2. m.kind = "mode" /\ m.chan = c /\ m.body = <<r>>
  BY DEF PromotionNews, Msg
<1> HIDE DEF r, m
<1>3. <<r>> \in Seq({r}) /\ <<r>> = Append(<<>>, r) /\ <<>> \in Seq({r})
      /\ \A i \in DOMAIN <<r>> : <<r>>[i] = r
  OBVIOUS
<1>4. Nameable(m.body)
  BY <1>1, <1>2, <1>3 DEF Nameable
<1>5. HearModes(v.ops, m.body) = v.ops \cup {nameOf[p]}
  <2>1. HearModes(v.ops, Append(<<>>, r)) = AfterLetter(HearModes(v.ops, <<>>), r)
        /\ HearModes(v.ops, <<>>) = v.ops
    <3> DEFINE S   == {r}
               e   == <<>>
               ops == v.ops
    <3>1. e \in Seq(S) /\ r \in S
      BY <1>3
    <3> HIDE DEF S, ops, e
    <3>2. /\ HearModes(ops, <<>>) = ops
          /\ \A x \in S : HearModes(ops, Append(e, x)) = AfterLetter(HearModes(ops, e), x)
      BY <3>1, HearModesSteps
    <3> QED BY <3>1, <3>2 DEF ops, e
  <2> QED BY <1>1, <1>2, <1>3, <2>1 DEF AfterLetter
<1>6. Legible(m, me)
  BY <1>2, <1>4, LegibleMessages
<1>7. LET w == Hear(v, m, me)
      IN  /\ w.inside /\ ~ w.strays /\ w.topic = v.topic /\ w.members = v.members
          /\ w.ops = HearModes(v.ops, m.body)
  BY <1>2, HearMode
<1> QED BY <1>2, <1>5, <1>6, <1>7 DEF m

\* What a member makes of the news of a promotion.
LEMMA PromotionIsPictured ==
  ASSUME NEW p \in Registered, NEW w, NEW rest, Pictured(w, rest), rest.ops = {},
         NEW next, next.ops = {p}, next.members = rest.members, next.topic = rest.topic,
         NEW u, u.members = w.members, u.topic = w.topic, u.ops = w.ops \cup {nameOf[p]}
  PROVE  Pictured(u, next)
<1>1. NamesOf({}) = {} /\ NamesOf({p}) = {nameOf[p]}
  BY DEF NamesOf
<1>2. u.ops = NamesOf({p})
  BY <1>1 DEF Pictured
<1> QED BY <1>1, <1>2 DEF Pictured

\* A picture of a channel after the departure of f.
LEMMA DepartureIsPictured ==
  ASSUME UsersOK, NEW v, NEW ch, Pictured(v, ch), NEW f \in Registered,
         ch.members \in SUBSET Registered, ch.ops \in SUBSET Registered,
         NEW w, NEW rest,
         rest.members = ch.members \ {f}, rest.ops = ch.ops \ {f}, rest.topic = ch.topic,
         w.members = v.members \ {nameOf[f]}, w.ops = v.ops \ {nameOf[f]}, w.topic = v.topic
  PROVE  Pictured(w, rest)
<1>1. NamesOf(rest.members) = NamesOf(ch.members) \ {nameOf[f]}
  <2>1. NamesOf(ch.members \ {f}) = NamesOf(ch.members) \ {nameOf[f]}
    BY NamesOfSets
  <2> QED BY <2>1
<1>2. NamesOf(rest.ops) = NamesOf(ch.ops) \ {nameOf[f]}
  <2>1. NamesOf(ch.ops \ {f}) = NamesOf(ch.ops) \ {nameOf[f]}
    BY NamesOfSets
  <2> QED BY <2>1
<1> QED BY <1>1, <1>2 DEF Pictured

\* PART and KICK tell those who were there, then those who stay.
LEMMA LeaveKeepsViews ==
  ASSUME ViewInv, IndInv', Read, NEW f \in Registered, NEW c \in Chan, Member(f, c),
         NEW m, m.chan = c, m.kind \in {"part", "kick"}, m.who = nameOf[f], Leave(f, c, m)
  PROVE  ViewInv'
<1> DEFINE ch   == channels[c]
           rest == RemoveUser(ch, f)
           next == EnsureOperator(rest)
           p    == Promoted(rest)
           news == PromotionNews(c, p)
<1>1. /\ UNCHANGED users
      /\ channels' = [channels EXCEPT ![c] = IF rest.members = {} THEN NoChannel ELSE next]
      /\ sent' = Broadcast(ch, m) ++ (IF rest.members = {} THEN Silence ELSE Promotion(c, next, p))
  BY DEF Leave
<1>2. /\ IndInv /\ UsersOK /\ connected \subseteq Fd /\ f \in Fd
      /\ channels \in [Chan -> ChannelType(Fd, Text) \cup {NoChannel}]
  BY DEF ViewInv, IndInv, TypeOK, UsersTypeOK, Registered
<1>3. /\ ch \in ChannelType(Fd, Text) /\ Consistent(ch) /\ JoinOrderAgrees(ch)
      /\ ch.members \in SUBSET Registered /\ ch.ops \in SUBSET Registered
      /\ \A g : g \in ch.members <=> Member(g, c)
  BY <1>2, ExistingChannel DEF Member, Consistent
<1>4. /\ rest \in ChannelType(Fd, Text) /\ Consistent(rest)
      /\ rest.members = ch.members \ {f} /\ rest.ops = ch.ops \ {f}
  <2> HIDE DEF ch
  <2> QED BY <1>3, RemoveUserRemoves
<1>5. rest.topic = ch.topic
  <2> HIDE DEF ch
  <2> QED BY <1>3 DEF RemoveUser, ChannelType
<1> HIDE DEF rest
<1>6. channels'[c] = IF rest.members = {} THEN NoChannel ELSE next
  BY <1>1, <1>2
<1>7. rest.members # {} =>
        /\ next # NoChannel /\ next.members = rest.members /\ next.topic = rest.topic
        /\ p = NoFd => next.ops = rest.ops /\ Promotion(c, next, p) = Silence
        /\ p # NoFd => /\ p \in Registered /\ rest.ops = {} /\ next.ops = {p}
                       /\ Promotion(c, next, p)
                            = [g \in Fd |-> IF g \in rest.members THEN <<news>> ELSE <<>>]
  BY <1>3, <1>4, PromotionTells
<1> HIDE DEF next, p, news
<1>8. \A g \in Fd : Member(g, c)' <=> g \in rest.members
  BY <1>6, <1>7 DEF Member, Exists
<1>9. Broadcast(ch, m) = [g \in Fd |-> IF g \in ch.members THEN <<m>> ELSE <<>>]
  <2> HIDE DEF ch
  <2> QED BY <1>3, BroadcastReachesMembers
<1>10. ASSUME NEW g \in Fd
       PROVE  /\ g \notin ch.members => sent'[g] = <<>>
              /\ g = f => sent'[g] = <<m>>
              /\ g \in rest.members /\ p = NoFd => sent'[g] = <<m>>
              /\ g \in rest.members /\ p # NoFd => sent'[g] = <<m, news>>
  <2> DEFINE b == IF rest.members = {} THEN Silence ELSE Promotion(c, next, p)
  <2>1. sent'[g] = Broadcast(ch, m)[g] \o b[g]
    BY <1>1, ThenAt
  <2>2. Broadcast(ch, m)[g] = IF g \in ch.members THEN <<m>> ELSE <<>>
    BY <1>9
  <2>3. b[g] = IF g \in rest.members /\ p # NoFd THEN <<news>> ELSE <<>>
    BY <1>7 DEF Silence
  <2>4. f \in ch.members /\ (g \in rest.members <=> g \in ch.members /\ g # f)
    BY <1>3, <1>4
  <2> HIDE DEF b, ch
  <2>5. CASE g \in rest.members /\ p # NoFd
    <3>1. sent'[g] = <<m>> \o <<news>>
      BY <2>1, <2>2, <2>3, <2>4, <2>5
    <3>2. sent'[g] = <<m, news>>
      BY <3>1, OneThenOne
    <3> QED BY <2>4, <2>5, <3>2
  <2>6. CASE ~ (g \in rest.members /\ p # NoFd)
    BY <2>1, <2>2, <2>3, <2>4, <2>6, WithNothing
  <2> QED BY <2>5, <2>6
<1>11. \A me : Legible(m, me)
  BY LegibleMessages
<1>12. ASSUME NEW g \in Fd PROVE AboutOnly(sent'[g], c, nameOf[g]) /\ ToldRight(g, c)
  <2> DEFINE v == view[g][c]
             me == nameOf[g]
  <2>1. v \in Picture /\ ~ v.strays /\ (v.inside <=> Member(g, c)) /\ (Member(g, c) => Pictured(v, ch))
    BY OnePicture
  <2>2. CASE g \notin ch.members
    <3>1. sent'[g] = <<>> /\ ~ Member(g, c) /\ ~ Member(g, c)'
      BY <1>3, <1>4, <1>8, <1>10, <2>2
    <3> QED BY <1>1, <3>1, ToldNothing, NothingIsRight
  <2>3. CASE g = f
    <3>1. sent'[g] = <<m>> /\ ~ Member(g, c)' /\ v.inside
      BY <1>4, <1>8, <1>10, <2>1, <2>3
    <3>2. AboutOnly(sent'[g], c, me) /\ Told(g, c) = Hear(v, m, me)
      BY <1>1, <1>11, <3>1, ToldOnce
    <3>3. ~ Told(g, c).strays /\ ~ Told(g, c).inside
      BY <2>1, <2>3, <3>1, <3>2, HearDeparture
    <3> QED BY <3>1, <3>2, <3>3 DEF ToldRight
  <2>4. CASE g \in rest.members
    <3> DEFINE w == Hear(v, m, me)
    <3>1. g \in ch.members /\ g # f /\ Member(g, c) /\ Member(g, c)' /\ rest.members # {}
      BY <1>3, <1>4, <1>8, <2>4
    <3>2. m.who # me
      BY <1>2, <1>3, <3>1 DEF UsersOK
    <3>3. /\ w.inside /\ ~ w.strays /\ w.topic = v.topic
          /\ w.members = v.members \ {nameOf[f]} /\ w.ops = v.ops \ {nameOf[f]}
      BY <2>1, <3>1, <3>2, HearDeparture
    <3>4. w \in Picture
      BY <1>11, <2>1 DEF Legible
    <3> HIDE DEF w
    <3>5. Pictured(w, rest)
      <4>1. Pictured(v, ch)
        BY <2>1, <3>1
      <4> HIDE DEF ch, v
      <4> QED BY <1>2, <1>3, <1>4, <1>5, <3>3, <4>1, DepartureIsPictured
    <3>6. CASE p = NoFd
      <4>1. AboutOnly(sent'[g], c, me) /\ Told(g, c) = w
        <5>1. sent'[g] = <<m>>
          BY <1>10, <2>4, <3>6
        <5> QED BY <1>1, <1>11, <5>1, ToldOnce DEF w
      <4>2. Pictured(w, channels'[c])
        <5>1. /\ channels'[c].members = rest.members /\ channels'[c].ops = rest.ops
              /\ channels'[c].topic = rest.topic
          BY <1>6, <1>7, <3>1, <3>6
        <5> QED BY <3>5, <5>1 DEF Pictured
      <4> QED BY <3>1, <3>3, <4>1, <4>2 DEF ToldRight
    <3>7. CASE p # NoFd
      <4> DEFINE u == Hear(w, news, me)
      <4>1. p \in Registered /\ rest.ops = {} /\ channels'[c].ops = {p}
            /\ channels'[c].members = rest.members /\ channels'[c].topic = rest.topic
        BY <1>6, <1>7, <3>1, <3>7
      <4>2. /\ Legible(news, me) /\ news.chan = c
            /\ u.inside /\ ~ u.strays /\ u.topic = w.topic /\ u.members = w.members
            /\ u.ops = w.ops \cup {nameOf[p]}
        BY <1>2, <3>3, <3>4, <4>1, HearPromotion DEF news
      <4>3. AboutOnly(sent'[g], c, me) /\ Told(g, c) = u
        <5>1. sent'[g] = <<m, news>>
          BY <1>10, <2>4, <3>7
        <5> QED BY <1>1, <1>11, <4>2, <5>1, ToldTwice DEF w
      <4> HIDE DEF u
      <4>4. Pictured(u, channels'[c])
        BY <3>5, <4>1, <4>2, PromotionIsPictured
      <4> QED BY <3>1, <4>2, <4>3, <4>4 DEF ToldRight
    <3> QED BY <3>6, <3>7
  <2>5. g \in rest.members <=> g \in ch.members /\ g # f
    BY <1>4
  <2> QED BY <2>2, <2>3, <2>4, <2>5
<1> QED BY <1>1, <1>2, <1>12, OneChannelIsTold

\* PART and KICK tell all members, the one who goes included.
LEMMA PartKeepsViews ==
  ASSUME ViewInv, IndInv', Read, NEW f \in Fd, NEW c \in Chan, Part(f, c)
  PROVE  ViewInv'
<1> DEFINE m == Msg("part", c, nameOf[f], Empty)
<1>1. m.chan = c /\ m.kind = "part" /\ m.who = nameOf[f]
  BY DEF Msg
<1>2. f \in Registered /\ Member(f, c) /\ Leave(f, c, m)
  BY DEF Part
<1> HIDE DEF m
<1> QED BY <1>1, <1>2, LeaveKeepsViews

\* The same with the name looked up among the users.
LEMMA KickKeepsViews ==
  ASSUME ViewInv, IndInv', Read, NEW f \in Fd, NEW c \in Chan, NEW n \in Name, Kick(f, c, n)
  PROVE  ViewInv'
<1> DEFINE m == Msg("kick", c, n, Empty)
<1>1. m.chan = c /\ m.kind = "kick" /\ m.who = n
  BY DEF Msg
<1>2. Known(n) /\ Member(Who[n], c) /\ Leave(Who[n], c, m)
  BY DEF Kick
<1> HIDE DEF m
<1>3. nameOf[Who[n]] = n /\ Who[n] \in Registered
  BY <1>2, WhoIsAUser
<1> QED BY <1>1, <1>2, <1>3, LeaveKeepsViews

-----------------------------------------------------------------------------
\* The letters of a MODE line that are about the operator status of a member are
\* those that carry the member's name.
LEMMA LettersNameMembers ==
  ASSUME IndInv, UsersOK, NEW ch \in ChannelType(Fd, Text), ch.members \subseteq Registered,
         NEW line \in ModeLine
  PROVE  LET reqs == Requests(ch, line, Who)
         IN  /\ \E n \in Nat : DOMAIN reqs = 1 .. n
             /\ \A i \in DOMAIN reqs : reqs[i].mode = "o" /\ TakesEffect(reqs[i]) =>
                  /\ Who[reqs[i].arg] \in ch.members
                  /\ nameOf[Who[reqs[i].arg]] = reqs[i].arg /\ reqs[i].arg \in Name
             /\ \A f \in ch.members : AboutOperator(reqs, Who, f) = About(reqs, nameOf[f])
<1> DEFINE reqs == Requests(ch, line, Who)
<1>1. line \in LineType(Text) /\ Empty \notin Text
  BY ChannelConstantsAssumption DEF LineType
<1>2. /\ \E n \in Nat : DOMAIN reqs = 1 .. n
      /\ \A i \in DOMAIN reqs :
           /\ reqs[i].arg \in Text \cup {Empty}
           /\ reqs[i].mode = "o" /\ TakesEffect(reqs[i]) => Who[reqs[i].arg] \in ch.members
  BY <1>1, RequestsType
<1> HIDE DEF reqs
<1>3. ASSUME NEW i \in DOMAIN reqs, reqs[i].mode = "o", TakesEffect(reqs[i])
      PROVE  /\ Who[reqs[i].arg] \in ch.members
             /\ nameOf[Who[reqs[i].arg]] = reqs[i].arg /\ reqs[i].arg \in Name
  <2> DEFINE a == reqs[i].arg
  <2>1. a \in Text
    BY <1>2, <1>3 DEF TakesEffect, NeedsArg
  <2>2. Who[a] \in ch.members /\ Who[a] # NoFd
    BY <1>2, <1>3, ChannelConstantsAssumption DEF Registered
  <2>3. a \in Name /\ Known(a)
    BY <2>1, <2>2 DEF Who
  <2> QED BY <2>2, <2>3, WhoIsAUser
<1>4. ASSUME NEW f \in ch.members PROVE AboutOperator(reqs, Who, f) = About(reqs, nameOf[f])
  <2>1. ASSUME NEW i \in DOMAIN reqs, reqs[i].mode = "o", TakesEffect(reqs[i])
        PROVE  Who[reqs[i].arg] = f <=> reqs[i].arg = nameOf[f]
    BY <1>3, <2>1 DEF UsersOK
  <2> QED BY <2>1 DEF AboutOperator, AboutMode, About
<1> QED BY <1>2, <1>3, <1>4 DEF reqs

\* The announcement turns a right picture into a right one.
LEMMA ModesArePictured ==
  ASSUME IndInv, UsersOK, NEW ch \in ChannelType(Fd, Text), ch.members \subseteq Registered,
         ch.ops \subseteq ch.members, NEW line \in ModeLine,
         NEW v, Pictured(v, ch), NEW w, w.members = v.members, w.topic = v.topic,
         w.ops = HearModes(v.ops, Announced(Requests(ch, line, Who)))
  PROVE  Pictured(w, ApplyModes(ch, Requests(ch, line, Who), Who))
<1> DEFINE reqs == Requests(ch, line, Who)
           new  == ApplyModes(ch, reqs, Who)
<1>1. /\ \E n \in Nat : DOMAIN reqs = 1 .. n
      /\ \A i \in DOMAIN reqs : reqs[i].mode = "o" /\ TakesEffect(reqs[i]) =>
           /\ Who[reqs[i].arg] \in ch.members
           /\ nameOf[Who[reqs[i].arg]] = reqs[i].arg /\ reqs[i].arg \in Name
      /\ \A f \in ch.members : AboutOperator(reqs, Who, f) = About(reqs, nameOf[f])
  BY LettersNameMembers
<1>2. PICK n \in Nat : DOMAIN reqs = 1 .. n
  BY <1>1
<1>3. /\ new.members = ch.members /\ new.topic = ch.topic
      /\ new.ops = {f \in ch.members \cup ch.ops :
                      IF AboutOperator(reqs, Who, f) = {} THEN f \in ch.ops
                      ELSE LastOf(reqs, AboutOperator(reqs, Who, f)).sign = "+"}
  <2> HIDE DEF reqs
  <2> QED BY ApplyModesFields
<1>4. PICK S : reqs \in Seq(S)
  <2>1. reqs = [i \in 1 .. n |-> reqs[i]]
    BY <1>2 DEF Requests
  <2>2. reqs \in [1 .. n -> {reqs[i] : i \in 1 .. n}]
    BY <2>1
  <2>3. reqs \in Seq({reqs[i] : i \in 1 .. n})
    BY <2>2
  <2> QED BY <2>3
<1>5. w.ops = HearModes(v.ops, Announced(reqs))
  OBVIOUS
<1> HIDE DEF reqs, new
<1>6. ASSUME NEW a
      PROVE  /\ About(reqs, a) = {} => (a \in w.ops <=> a \in v.ops)
             /\ About(reqs, a) # {} =>
                  (a \in w.ops <=> LastOf(reqs, About(reqs, a)).sign = "+")
  <2>1. LET known == HearModes(v.ops, Announced(reqs))
        IN  /\ About(reqs, a) = {} => (a \in known <=> a \in v.ops)
            /\ \A i \in About(reqs, a) :
                 (\A j \in About(reqs, a) : j <= i) => (a \in known <=> reqs[i].sign = "+")
    BY <1>4, LastLetterCounts
  <2>2. About(reqs, a) \subseteq 1 .. n
    BY <1>2 DEF About
  <2>3. About(reqs, a) # {} => \E i \in About(reqs, a) : \A j \in About(reqs, a) : j <= i
    BY <2>2, LargestExists
  <2> QED BY <1>5, <2>1, <2>3 DEF LastOf
<1>7. ASSUME NEW f \in ch.members
      PROVE  /\ About(reqs, nameOf[f]) = {} => (f \in new.ops <=> f \in ch.ops)
             /\ About(reqs, nameOf[f]) # {} => (f \in new.ops <=> nameOf[f] \in w.ops)
  BY <1>1, <1>3, <1>6
<1>8. new.ops \subseteq ch.members
  BY <1>3
<1>9. \A F \in SUBSET ch.members : NamesOf(F) = {nameOf[f] : f \in F}
  BY DEF NamesOf
<1>10. NamesOf(new.ops) = {nameOf[f] : f \in new.ops} /\ NamesOf(ch.ops) = {nameOf[f] : f \in ch.ops}
  BY <1>8, <1>9
<1>11. ASSUME NEW a \in w.ops PROVE a \in NamesOf(new.ops)
  <2>1. CASE About(reqs, a) = {}
    <3>1. PICK f \in ch.ops : a = nameOf[f]
      BY <1>6, <1>10, <1>11, <2>1 DEF Pictured
    <3> QED BY <1>7, <1>10, <2>1, <3>1
  <2>2. CASE About(reqs, a) # {}
    <3>1. PICK i \in About(reqs, a) : TRUE
      BY <2>2
    <3>2. Who[a] \in ch.members /\ nameOf[Who[a]] = a
      BY <1>1, <3>1 DEF About
    <3>3. Who[a] \in new.ops
      BY <1>7, <1>11, <2>2, <3>2
    <3> QED BY <1>10, <3>2, <3>3
  <2> QED BY <2>1, <2>2
<1>12. ASSUME NEW a \in NamesOf(new.ops) \ w.ops PROVE a \in NamesOf(ch.ops) \ v.ops
  <2>1. PICK f \in new.ops : a = nameOf[f]
    BY <1>10, <1>12
  <2>2. About(reqs, a) = {}
    BY <1>7, <1>8, <1>12, <2>1
  <2> QED BY <1>6, <1>7, <1>8, <1>10, <1>12, <2>1, <2>2
<1>13. Pictured(w, new)
  BY <1>3, <1>11, <1>12 DEF Pictured
<1> QED BY <1>13 DEF new, reqs

\* What MODE announces is about modes and members.
LEMMA AnnouncedIsNameable ==
  ASSUME IndInv, UsersOK, NEW ch \in ChannelType(Fd, Text), ch.members \subseteq Registered,
         NEW line \in ModeLine
  PROVE  Nameable(Announced(Requests(ch, line, Who)))
<1> DEFINE reqs == Requests(ch, line, Who)
           T    == {r \in Range(reqs) : TakesEffect(r)}
           S    == {reqs[i] : i \in DOMAIN reqs}
<1>1. /\ \E n \in Nat : DOMAIN reqs = 1 .. n
      /\ \A i \in DOMAIN reqs : reqs[i].mode = "o" /\ TakesEffect(reqs[i]) => reqs[i].arg \in Name
  BY LettersNameMembers
<1>2. reqs \in Seq(S)
  <2>1. PICK n \in Nat : DOMAIN reqs = 1 .. n
    BY <1>1
  <2>2. reqs = [i \in 1 .. n |-> reqs[i]]
    BY <2>1 DEF Requests
  <2> HIDE DEF reqs
  <2>3. reqs \in [1 .. n -> S]
    BY <2>1, <2>2
  <2> QED BY <2>3
<1> HIDE DEF reqs
<1>3. Announced(reqs) = Kept(reqs, T) /\ T \subseteq S
  BY DEF Announced, Range
<1>4. Kept(reqs, T) \in Seq(S \cap T)
  BY <1>2, KeptKeeps
<1>5. \A r \in S \cap T : r.mode = "o" => r.arg \in Name
  BY <1>1
<1> HIDE DEF S, T
<1>6. \A i \in DOMAIN Kept(reqs, T) : Kept(reqs, T)[i] \in S \cap T
  BY <1>4
<1>7. Nameable(Announced(reqs))
  BY <1>3, <1>4, <1>5, <1>6 DEF Nameable
<1> QED BY <1>7 DEF reqs

\* MODE tells the members what took effect, and whom that made operator.
LEMMA ModeKeepsViews ==
  ASSUME ViewInv, IndInv', Read, NEW f \in Fd, NEW c \in Chan, NEW line \in ModeLine,
         Mode(f, c, line)
  PROVE  ViewInv'
<1> DEFINE ch   == channels[c]
           reqs == Requests(ch, line, Who)
           rest == ApplyModes(ch, reqs, Who)
           next == EnsureOperator(rest)
           p    == Promoted(rest)
           news == Announced(reqs)
           m    == Msg("mode", c, nameOf[f], news)
           own  == PromotionNews(c, p)
<1>1. /\ UNCHANGED users /\ Exists(c)
      /\ channels' = [channels EXCEPT ![c] = next]
      /\ sent' = (IF news = <<>> THEN Silence ELSE Broadcast(next, m)) ++ Promotion(c, next, p)
  BY DEF Mode, Oper, Member
<1>2. /\ IndInv /\ UsersOK /\ connected \subseteq Fd
      /\ channels \in [Chan -> ChannelType(Fd, Text) \cup {NoChannel}]
  BY DEF ViewInv, IndInv, TypeOK, UsersTypeOK
<1>3. /\ ch \in ChannelType(Fd, Text) /\ Consistent(ch) /\ ch.members # {}
      /\ ch.members \subseteq Registered /\ ch.ops \subseteq ch.members
      /\ \A g : g \in ch.members <=> Member(g, c)
  BY <1>1, <1>2, ExistingChannel DEF Member, Consistent
<1>4. /\ rest \in ChannelType(Fd, Text) /\ Consistent(rest) /\ rest.members = ch.members
  <2>1. line \in LineType(Text)
    BY ChannelConstantsAssumption DEF LineType
  <2> HIDE DEF ch
  <2> QED BY <1>3, <2>1, ApplyModesKeepsMembers, ChannelConstantsAssumption
<1>5. m.chan = c /\ m.kind = "mode" /\ m.body = news /\ Nameable(news)
  <2> HIDE DEF ch
  <2> QED BY <1>2, <1>3, AnnouncedIsNameable DEF Msg
<1>6. \A v, w : Pictured(v, ch) /\ w.members = v.members /\ w.topic = v.topic
                  /\ w.ops = HearModes(v.ops, news) => Pictured(w, rest)
  <2> HIDE DEF ch
  <2> QED BY <1>2, <1>3, ModesArePictured
<1> HIDE DEF rest
<1>7. /\ next # NoChannel /\ Sound(next) /\ next.members = rest.members /\ next.topic = rest.topic
      /\ p = NoFd => next.ops = rest.ops /\ Promotion(c, next, p) = Silence
      /\ p # NoFd => /\ p \in Registered /\ rest.ops = {} /\ next.ops = {p}
                     /\ Promotion(c, next, p)
                          = [g \in Fd |-> IF g \in rest.members THEN <<own>> ELSE <<>>]
  BY <1>3, <1>4, PromotionTells
<1> HIDE DEF next, p, own, m, news, reqs
<1>8. channels'[c] = next /\ \A g \in Fd : Member(g, c)' <=> g \in ch.members
  BY <1>1, <1>2, <1>4, <1>7 DEF Member, Exists
<1>9. Broadcast(next, m) = [g \in Fd |-> IF g \in ch.members THEN <<m>> ELSE <<>>]
  <2>1. JoinOrderAgrees(next) /\ next.members = ch.members /\ ch.members \subseteq Registered
    BY <1>3, <1>4, <1>7 DEF Sound
  <2> HIDE DEF ch
  <2> QED BY <2>1, BroadcastReachesMembers
<1>10. ASSUME NEW g \in Fd
       PROVE  /\ g \notin ch.members => sent'[g] = <<>>
              /\ g \in ch.members /\ news = <<>> /\ p = NoFd => sent'[g] = <<>>
              /\ g \in ch.members /\ news = <<>> /\ p # NoFd => sent'[g] = <<own>>
              /\ g \in ch.members /\ news # <<>> /\ p = NoFd => sent'[g] = <<m>>
              /\ g \in ch.members /\ news # <<>> /\ p # NoFd => sent'[g] = <<m, own>>
  <2> DEFINE a == IF news = <<>> THEN Silence ELSE Broadcast(next, m)
             b == Promotion(c, next, p)
  <2>1. sent'[g] = a[g] \o b[g]
    BY <1>1, ThenAt
  <2>2. a[g] = IF g \in ch.members /\ news # <<>> THEN <<m>> ELSE <<>>
    BY <1>9 DEF Silence
  <2>3. b[g] = IF g \in ch.members /\ p # NoFd THEN <<own>> ELSE <<>>
    BY <1>4, <1>7 DEF Silence
  <2> HIDE DEF a, b, ch
  <2>4. CASE g \in ch.members /\ news # <<>> /\ p # NoFd
    <3>1. sent'[g] = <<m>> \o <<own>>
      BY <2>1, <2>2, <2>3, <2>4
    <3>2. sent'[g] = <<m, own>>
      BY <3>1, OneThenOne
    <3> QED BY <2>4, <3>2
  <2>5. CASE ~ (g \in ch.members /\ news # <<>> /\ p # NoFd)
    BY <2>1, <2>2, <2>3, <2>5, WithNothing
  <2> QED BY <2>4, <2>5
<1>11. \A me : Legible(m, me)
  BY <1>5, LegibleMessages
<1>12. ASSUME NEW g \in Fd PROVE AboutOnly(sent'[g], c, nameOf[g]) /\ ToldRight(g, c)
  <2> DEFINE v == view[g][c]
             me == nameOf[g]
  <2>1. v \in Picture /\ ~ v.strays /\ (v.inside <=> Member(g, c)) /\ (Member(g, c) => Pictured(v, ch))
    BY OnePicture
  <2>2. CASE g \notin ch.members
    <3>1. sent'[g] = <<>> /\ ~ Member(g, c) /\ ~ Member(g, c)'
      BY <1>3, <1>8, <1>10, <2>2
    <3> QED BY <1>1, <3>1, ToldNothing, NothingIsRight
  <2>3. CASE g \in ch.members
    <3> DEFINE w == IF news = <<>> THEN v ELSE Hear(v, m, me)
    <3>1. Member(g, c) /\ Member(g, c)' /\ v.inside /\ Pictured(v, ch)
      BY <1>3, <1>8, <2>1, <2>3
    <3>2. /\ w \in Picture /\ w.inside /\ ~ w.strays /\ w.topic = v.topic /\ w.members = v.members
          /\ w.ops = HearModes(v.ops, news)
      <4>1. CASE news = <<>>
        <5>1. HearModes(v.ops, <<>>) = v.ops
          <6> DEFINE e == <<>>
          <6>1. e \in Seq({})
            OBVIOUS
          <6> HIDE DEF e
          <6>2. HearModes(v.ops, <<>>) = v.ops
            BY <6>1, HearModesSteps
          <6> QED BY <6>2
        <5> QED BY <2>1, <3>1, <4>1, <5>1
      <4>2. CASE news # <<>>
        BY <1>5, <1>11, <2>1, <3>1, <4>2, HearMode DEF Legible
      <4> QED BY <4>1, <4>2
    <3>3. Pictured(w, rest)
      <4> HIDE DEF w, v
      <4> QED BY <1>6, <3>1, <3>2
    <3>4. AboutOnly(sent'[g], c, me) /\ Told(g, c) = IF p = NoFd THEN w ELSE Hear(w, own, me)
      <4>1. p # NoFd => Legible(own, me) /\ own.chan = c
        <5> SUFFICES ASSUME p # NoFd PROVE Legible(own, me) /\ own.chan = c
          OBVIOUS
        <5>1. p \in Registered /\ w \in Picture /\ w.inside /\ ~ w.strays
          BY <1>7, <3>2
        <5> HIDE DEF w
        <5> QED BY <1>2, <5>1, HearPromotion DEF own
      <4>2. CASE news = <<>> /\ p = NoFd
        BY <1>1, <1>10, <2>3, <4>2, ToldNothing
      <4>3. CASE news = <<>> /\ p # NoFd
        BY <1>1, <1>10, <2>3, <4>1, <4>3, ToldOnce
      <4>4. CASE news # <<>> /\ p = NoFd
        BY <1>1, <1>5, <1>10, <1>11, <2>3, <4>4, ToldOnce
      <4>5. CASE news # <<>> /\ p # NoFd
        BY <1>1, <1>5, <1>10, <1>11, <2>3, <4>1, <4>5, ToldTwice
      <4> QED BY <4>2, <4>3, <4>4, <4>5
    <3> HIDE DEF w
    <3>5. CASE p = NoFd
      <4>1. Told(g, c) = w /\ channels'[c].members = rest.members
            /\ channels'[c].topic = rest.topic /\ channels'[c].ops = rest.ops
        BY <1>7, <1>8, <3>4, <3>5
      <4>2. Pictured(w, channels'[c])
        BY <3>3, <4>1 DEF Pictured
      <4> QED BY <3>1, <3>2, <3>4, <4>1, <4>2 DEF ToldRight
    <3>6. CASE p # NoFd
      <4> DEFINE u == Hear(w, own, me)
      <4>1. p \in Registered /\ rest.ops = {} /\ next.ops = {p} /\ Told(g, c) = u
        BY <1>7, <3>4, <3>6
      <4>2. /\ u.inside /\ ~ u.strays /\ u.topic = w.topic /\ u.members = w.members
            /\ u.ops = w.ops \cup {nameOf[p]}
        BY <1>2, <3>2, <4>1, HearPromotion DEF own
      <4> HIDE DEF u
      <4>3. Pictured(u, next)
        BY <1>7, <3>3, <4>1, <4>2, PromotionIsPictured
      <4> QED BY <1>8, <3>1, <3>4, <4>1, <4>2, <4>3 DEF ToldRight
    <3> QED BY <3>5, <3>6
  <2> QED BY <2>2, <2>3
<1> QED BY <1>1, <1>2, <1>12, OneChannelIsTold

-----------------------------------------------------------------------------
\* The picture w of a channel is the picture v without n.
Without(w, v, n) ==
  /\ w \in Picture /\ w.inside /\ ~ w.strays /\ w.topic = v.topic
  /\ w.members = v.members \ {n} /\ w.ops = v.ops \ {n}

\* A client that is told once or more often that n has left c.
LEMMA PartsAreHeard ==
  ASSUME NEW S, NEW s \in Seq(S), NEW c, NEW me, NEW n, n # me,
         NEW v \in Picture, ~ v.strays, v.inside,
         \A i \in DOMAIN s : s[i].kind = "part" /\ s[i].who = n,
         \E i \in DOMAIN s : s[i].chan = c
  PROVE  Without(Reading(c, v, s, me), v, n)
<1> DEFINE last == Len(s)
<1>1. last \in Nat /\ DOMAIN s = 1 .. last
  OBVIOUS
<1>2. \A i \in DOMAIN s : Legible(s[i], me)
  BY LegibleMessages
<1>3. PICK g : /\ g[0] = v
               /\ \A k \in 0 .. last - 1 : g[k + 1] = HearOn(c, g[k], s[k + 1], me)
               /\ Reading(c, v, s, me) = g[last]
  <2>1. PICK g : IsReading(g, c, v, s, me)
    BY <1>2, ReadingTrace
  <2> QED BY <2>1 DEF IsReading
<1> HIDE DEF last
<1> DEFINE told(k)  == \E i \in 1 .. k : s[i].chan = c
           Right(k) == /\ g[k] \in Picture /\ g[k].inside /\ ~ g[k].strays /\ g[k].topic = v.topic
                       /\ told(k) => g[k].members = v.members \ {n} /\ g[k].ops = v.ops \ {n}
                       /\ ~ told(k) => g[k].members = v.members /\ g[k].ops = v.ops
           I == {k \in Nat : k <= last => Right(k)}
<1>4. 0 \in I
  <2>1. ~ told(0)
    OBVIOUS
  <2> HIDE DEF told
  <2> QED BY <1>3, <2>1
<1>5. ASSUME NEW k \in Nat, k \in I PROVE k + 1 \in I
  <2>1. SUFFICES ASSUME k + 1 <= last PROVE Right(k + 1)
    OBVIOUS
  <2> DEFINE m == s[k + 1]
  <2>2. k \in 0 .. last - 1 /\ k + 1 \in DOMAIN s /\ Right(k)
    BY <1>1, <1>5, <2>1
  <2>3. g[k + 1] = (IF m.chan = c THEN Hear(g[k], m, me) ELSE g[k]) /\ Legible(m, me)
    BY <1>2, <1>3, <2>2 DEF HearOn
  <2>4. told(k + 1) <=> told(k) \/ m.chan = c
    OBVIOUS
  <2>5. CASE m.chan = c
    <3> DEFINE w == Hear(g[k], m, me)
    <3>1. /\ ~ w.strays /\ w.inside /\ w.topic = g[k].topic
          /\ w.members = g[k].members \ {n} /\ w.ops = g[k].ops \ {n} /\ w \in Picture
      BY <2>2, <2>3, HearDeparture DEF Legible
    <3> HIDE DEF w, told
    <3> QED BY <2>2, <2>3, <2>4, <2>5, <3>1 DEF w
  <2>6. CASE m.chan # c
    <3> HIDE DEF told
    <3> QED BY <2>2, <2>3, <2>4, <2>6
  <2> QED BY <2>5, <2>6
<1>6. last \in I
  <2> HIDE DEF I
  <2> QED BY <1>1, <1>4, <1>5, SetInduction
<1> HIDE DEF told
<1>7. Right(last)
  BY <1>1, <1>6
<1> QED BY <1>1, <1>3, <1>7 DEF told, Without

\* What a disconnection does to the users and to the channels of who leaves.
LEMMA DisconnectFacts ==
  ASSUME ViewInv, IndInv', NEW f \in Fd, Disconnect(f)
  PROVE  /\ Registered' = Registered \ {f} /\ connected' = connected \ {f} /\ UsersOK'
         /\ \A F \in SUBSET (Registered \ {f}) : NamesOf(F)' = NamesOf(F)
         /\ \A c \in Chan : channels'[c] = IF Member(f, c) THEN Abandoned(channels[c], f) ELSE channels[c]
         /\ \A g \in Fd : g # f => nameOf'[g] = nameOf[g]
<1>1. /\ connected' = connected \ {f} /\ nameOf' = [nameOf EXCEPT ![f] = NoName]
      /\ \A c \in Chan : channels'[c] = IF Member(f, c) THEN Abandoned(channels[c], f) ELSE channels[c]
  BY DEF Disconnect, Drop
<1>2. \A g \in Fd : nameOf'[g] = IF g = f THEN NoName ELSE nameOf[g]
  BY <1>1 DEF ViewInv, IndInv, TypeOK, UsersTypeOK
<1>3. Registered' = Registered \ {f}
  BY <1>2 DEF Registered
<1>4. UsersOK'
  BY <1>1, <1>2, <1>3 DEF ViewInv, UsersOK, Registered
<1>5. ASSUME NEW F \in SUBSET (Registered \ {f}) PROVE NamesOf(F)' = NamesOf(F)
  <2>1. \A g \in F : g \in Registered /\ g \in Registered' /\ nameOf'[g] = nameOf[g]
    BY <1>2, <1>3 DEF Registered
  <2> QED BY <2>1 DEF NamesOf
<1> QED BY <1>1, <1>2, <1>3, <1>4, <1>5

\* What those are told who share a channel with the one who leaves.
LEMMA DisconnectTells ==
  ASSUME ViewInv, NEW f \in Fd, Disconnect(f), NEW g \in Fd, g # f
  PROVE  \E S : /\ sent'[g] \in Seq(S)
                /\ \A i \in DOMAIN sent'[g] :
                     /\ sent'[g][i].kind = "part" /\ sent'[g][i].who = nameOf[f]
                     /\ Member(f, sent'[g][i].chan) /\ Member(g, sent'[g][i].chan)
                /\ \A c \in Chan : Member(f, c) /\ Member(g, c) =>
                     \E i \in DOMAIN sent'[g] : sent'[g][i].chan = c
<1> DEFINE T      == {c \in Chan : Member(f, c) /\ Member(g, c)}
           shared == Kept(ChanOrder, T)
           part(c) == Msg("part", c, nameOf[f], Empty)
<1>1. sent'[g] = IF {f, g} \subseteq Registered THEN [i \in DOMAIN shared |-> part(shared[i])] ELSE <<>>
  BY DEF Disconnect
<1>2. ChanOrder \in Seq(Chan)
  BY ChannelConstantsAssumption
<1>3. /\ shared \in Seq(Chan \cap T)
      /\ \A i \in DOMAIN ChanOrder : ChanOrder[i] \in T => \E j \in DOMAIN shared : shared[j] = ChanOrder[i]
  <2> HIDE DEF T
  <2> QED BY <1>2, KeptKeeps
<1>4. T \subseteq Chan /\ \A c \in T : \E i \in DOMAIN ChanOrder : c = ChanOrder[i]
  BY DEF Chan
<1>5. \A c \in T : \E j \in DOMAIN shared : shared[j] = c
  BY <1>3, <1>4
<1> HIDE DEF shared
<1>6. CASE {f, g} \subseteq Registered
  <2> DEFINE s == [i \in DOMAIN shared |-> part(shared[i])]
             S == {part(c) : c \in T}
  <2>1. PICK n \in Nat : DOMAIN shared = 1 .. n
    BY <1>3
  <2>2. \A i \in DOMAIN shared : shared[i] \in T
    BY <1>3
  <2>3. s \in [1 .. n -> S]
    BY <2>1, <2>2
  <2>4. s \in Seq(S)
    BY <2>3
  <2>5. \A i \in DOMAIN s : /\ s[i].kind = "part" /\ s[i].who = nameOf[f] /\ s[i].chan = shared[i]
                            /\ Member(f, shared[i]) /\ Member(g, shared[i])
    BY <2>2 DEF Msg
  <2>6. DOMAIN s = DOMAIN shared /\ sent'[g] = s
    BY <1>1, <1>6
  <2>7. \A c \in Chan : Member(f, c) /\ Member(g, c) => c \in T
    OBVIOUS
  <2> HIDE DEF s, T, S
  <2> QED BY <1>5, <2>4, <2>5, <2>6, <2>7
<1>7. CASE ~ ({f, g} \subseteq Registered)
  <2>1. sent'[g] = <<>> /\ <<>> \in Seq({}) /\ DOMAIN <<>> = {}
    BY <1>1, <1>7
  <2>2. \A c \in Chan : ~ (Member(f, c) /\ Member(g, c))
    BY <1>7, ExistingChannel DEF Member, ViewInv
  <2> QED BY <2>1, <2>2
<1> QED BY <1>6, <1>7

\* A channel that one of its members, and its user, have left.
LEMMA AbandonedIs ==
  ASSUME IndInv, NEW c \in Chan, NEW f, Member(f, c)
  PROVE  LET ch == channels[c]
             v  == Abandoned(ch, f)
         IN  /\ ch.members = {f} => v = NoChannel
             /\ ch.members # {f} =>
                  /\ v # NoChannel /\ v.members = ch.members \ {f} /\ v.topic = ch.topic
                  /\ v.ops \subseteq ch.members \ {f}
                  /\ \/ v.ops = ch.ops \ {f}
                     \/ ch.ops \ {f} = {} /\ \E p \in Registered : v.ops = {p}
<1> DEFINE ch   == channels[c]
           rest == RemoveUser(ch, f)
           v    == Abandoned(ch, f)
<1>1. /\ ch \in ChannelType(Fd, Text) /\ Consistent(ch) /\ ch.members \subseteq Registered
      /\ f \in ch.members /\ ch.ops \subseteq ch.members
  BY ExistingChannel DEF Member, Consistent
<1>2. v = IF rest.members = {} THEN NoChannel ELSE EnsureOperator(rest)
  BY DEF Abandoned
<1> HIDE DEF v, ch
<1>3. /\ rest \in ChannelType(Fd, Text) /\ Consistent(rest)
      /\ rest.members = ch.members \ {f} /\ rest.ops = ch.ops \ {f}
  BY <1>1, RemoveUserRemoves
<1>4. rest.topic = ch.topic
  BY <1>1 DEF RemoveUser, ChannelType
<1> HIDE DEF rest
<1>5. rest.members # {} =>
        /\ EnsureOperator(rest) # NoChannel /\ Sound(EnsureOperator(rest))
        /\ EnsureOperator(rest).members = rest.members /\ EnsureOperator(rest).topic = rest.topic
        /\ \/ EnsureOperator(rest).ops = rest.ops
           \/ rest.ops = {} /\ \E p \in Registered : EnsureOperator(rest).ops = {p}
  <2> DEFINE next == EnsureOperator(rest)
             p    == Promoted(rest)
  <2>1. rest.members # {} =>
          /\ next # NoChannel /\ Sound(next) /\ next.members = rest.members /\ next.topic = rest.topic
          /\ p = NoFd => next.ops = rest.ops
          /\ p # NoFd => p \in Registered /\ rest.ops = {} /\ next.ops = {p}
    BY <1>1, <1>3, PromotionTells
  <2> HIDE DEF p
  <2> QED BY <2>1
<1>6. rest.members # {} => EnsureOperator(rest).ops \subseteq rest.members
  BY <1>5 DEF Sound, HasOperator
<1>7. rest.members = {} <=> ch.members = {f}
  BY <1>1, <1>3
<1>8. ch.members # {f} =>
        /\ v # NoChannel /\ v.members = ch.members \ {f} /\ v.topic = ch.topic
        /\ v.ops \subseteq ch.members \ {f}
        /\ \/ v.ops = ch.ops \ {f}
           \/ ch.ops \ {f} = {} /\ \E p \in Registered : v.ops = {p}
  BY <1>2, <1>3, <1>4, <1>5, <1>6, <1>7
<1>9. ch.members = {f} => v = NoChannel
  BY <1>2, <1>7
<1> QED BY <1>8, <1>9 DEF v, ch

\* A disconnection tells those who shared a channel; whom it promotes it does not say.
LEMMA DisconnectKeepsViews ==
  ASSUME ViewInv, IndInv', Read, NEW f \in Fd, Disconnect(f)
  PROVE  ViewInv'
<1>1. /\ Registered' = Registered \ {f} /\ connected' = connected \ {f} /\ UsersOK'
      /\ \A F \in SUBSET (Registered \ {f}) : NamesOf(F)' = NamesOf(F)
      /\ \A c \in Chan : channels'[c] = IF Member(f, c) THEN Abandoned(channels[c], f) ELSE channels[c]
      /\ \A g \in Fd : g # f => nameOf'[g] = nameOf[g]
  BY DisconnectFacts
<1>2. IndInv /\ UsersOK
  BY DEF ViewInv
<1>3. ASSUME NEW g \in Fd, NEW c \in Chan PROVE Sees(g, c)' /\ view'[g][c] \in Picture
  <2> DEFINE v  == view[g][c]
             me == nameOf[g]
             ch == channels[c]
  <2>1. CASE g \notin connected'
    BY <1>1, <2>1, ClosedSees
  <2>2. CASE g \in connected'
    <3>1. g # f /\ view'[g][c] = Reading(c, v, sent'[g], me)
      BY <1>1, <2>2, ReadGives DEF Told
    <3>2. v \in Picture /\ ~ v.strays /\ (v.inside <=> Member(g, c)) /\ (Member(g, c) => Pictured(v, ch))
      BY OnePicture
    <3>3. PICK S : /\ sent'[g] \in Seq(S)
                   /\ \A i \in DOMAIN sent'[g] :
                        /\ sent'[g][i].kind = "part" /\ sent'[g][i].who = nameOf[f]
                        /\ Member(f, sent'[g][i].chan) /\ Member(g, sent'[g][i].chan)
                   /\ \A d \in Chan : Member(f, d) /\ Member(g, d) =>
                        \E i \in DOMAIN sent'[g] : sent'[g][i].chan = d
      BY <3>1, DisconnectTells
    <3>4. Exists(c) => /\ ch \in ChannelType(Fd, Text) /\ ch.members \subseteq Registered
                       /\ ch.ops \subseteq ch.members
      BY <1>2, ExistingChannel DEF Consistent
    <3> HIDE DEF ch
    <3>5. CASE ~ (Member(f, c) /\ Member(g, c))
      <4>1. view'[g][c] = v
        <5>1. \A i \in DOMAIN sent'[g] : Legible(sent'[g][i], me) /\ sent'[g][i].chan # c
          BY <3>3, <3>5, LegibleMessages
        <5> HIDE DEF v, me
        <5> QED BY <3>1, <3>2, <3>3, <5>1, ReadingFacts
      <4>2. CASE ~ Member(g, c)
        <5>1. ~ Member(g, c)'
          BY <1>1, <1>2, <4>2, AbandonedIs DEF Member, Exists
        <5> QED BY <3>2, <4>1, <4>2, <5>1 DEF Sees
      <4>3. CASE Member(g, c)
        <5>1. ~ Member(f, c) /\ channels'[c] = ch /\ Exists(c) /\ Member(g, c)'
          BY <1>1, <3>5, <4>3 DEF Member, Exists, ch
        <5>2. ch.members \in SUBSET (Registered \ {f}) /\ ch.ops \in SUBSET (Registered \ {f})
          BY <3>4, <5>1 DEF Member, ch
        <5>3. NamesOf(ch.members)' = NamesOf(ch.members) /\ NamesOf(ch.ops)' = NamesOf(ch.ops)
          BY <1>1, <5>1, <5>2 DEF ch
        <5> QED BY <3>2, <4>1, <4>3, <5>1, <5>3 DEF Sees, Pictured, ch
      <4> QED BY <4>2, <4>3
    <3>6. CASE Member(f, c) /\ Member(g, c)
      <4> DEFINE w    == view'[g][c]
                 next == channels'[c]
      <4>1. /\ f \in ch.members /\ g \in ch.members /\ Exists(c) /\ ch.members # {f}
            /\ f \in Registered /\ g \in Registered /\ nameOf[f] # me
        BY <1>2, <3>1, <3>4, <3>6 DEF Member, UsersOK, ch
      <4>2. /\ w \in Picture /\ w.inside /\ ~ w.strays /\ w.topic = v.topic
            /\ w.members = v.members \ {nameOf[f]} /\ w.ops = v.ops \ {nameOf[f]}
        <5> DEFINE s == sent'[g]
        <5>1. /\ s \in Seq(S) /\ \A i \in DOMAIN s : s[i].kind = "part" /\ s[i].who = nameOf[f]
              /\ \E i \in DOMAIN s : s[i].chan = c
          BY <3>3, <3>6
        <5>2. v \in Picture /\ ~ v.strays /\ v.inside /\ nameOf[f] # me
          BY <3>2, <3>6, <4>1
        <5> HIDE DEF s, v, me
        <5>3. Without(Reading(c, v, s, me), v, nameOf[f])
          BY <5>1, <5>2, PartsAreHeard
        <5> QED BY <3>1, <5>3 DEF s, Without
      <4> HIDE DEF w
      <4>3. /\ next # NoChannel /\ next.members = ch.members \ {f} /\ next.topic = ch.topic
            /\ next.ops \subseteq ch.members \ {f}
            /\ \/ next.ops = ch.ops \ {f}
               \/ ch.ops \ {f} = {} /\ \E p \in Registered : next.ops = {p}
        BY <1>1, <1>2, <3>6, <4>1, AbandonedIs DEF ch
      <4> HIDE DEF next
      <4> DEFINE rest == [members |-> ch.members \ {f}, ops |-> ch.ops \ {f}, topic |-> ch.topic]
      <4>4. Pictured(w, rest)
        <5>1. /\ rest.members = ch.members \ {f} /\ rest.ops = ch.ops \ {f} /\ rest.topic = ch.topic
              /\ ch.members \in SUBSET Registered /\ ch.ops \in SUBSET Registered /\ Pictured(v, ch)
          BY <3>2, <3>4, <3>6, <4>1
        <5> HIDE DEF rest, v
        <5> QED BY <1>2, <4>1, <4>2, <5>1, DepartureIsPictured
      <4>5. Pictured(w, next)
        <5>1. CASE next.ops = ch.ops \ {f}
          BY <4>3, <4>4, <5>1 DEF Pictured
        <5>2. ASSUME NEW p \in Registered, next.ops = {p}, ch.ops \ {f} = {} PROVE Pictured(w, next)
          <6>1. NamesOf({}) = {} /\ NamesOf({p}) = {nameOf[p]}
            BY DEF NamesOf
          <6> QED BY <4>3, <4>4, <5>2, <6>1 DEF Pictured
        <5> QED BY <4>3, <5>1, <5>2
      <4>6. next.members \in SUBSET (Registered \ {f}) /\ next.ops \in SUBSET (Registered \ {f})
        BY <3>4, <4>1, <4>3
      <4>7. Member(g, c)'
        BY <3>1, <4>1, <4>3 DEF Member, Exists, next
      <4>8. /\ NamesOf(channels[c].members)' = NamesOf(next.members)
            /\ NamesOf(channels[c].ops)' = NamesOf(next.ops)
        <5>1. \A F \in SUBSET (Registered \ {f}) : NamesOf(F)' = NamesOf(F)
          BY <1>1
        <5> QED BY <4>6, <5>1 DEF next
      <4>9. Pictured(view[g][c], channels[c])'
        BY <4>5, <4>8 DEF Pictured, w, next
      <4> QED BY <4>2, <4>7, <4>9 DEF Sees, w
    <3> QED BY <3>5, <3>6
  <2> QED BY <2>1, <2>2
<1>4. view' \in [Fd -> [Chan -> Picture]]
  BY <1>3 DEF Read
<1> QED BY <1>1, <1>3, <1>4 DEF ViewInv

-----------------------------------------------------------------------------
\* Nobody is anywhere.
LEMMA InitViewInv == ViewInit => ViewInv
<1> SUFFICES ASSUME ViewInit PROVE ViewInv
  OBVIOUS
<1>1. IndInv /\ \A f \in Fd : \A c \in Chan : view[f][c] = Outside /\ ~ Member(f, c)
  BY InitIndInv DEF ViewInit, Init, Member, Exists
<1>2. UsersOK
  BY DEF ViewInit, Init, UsersInit, UsersOK, Registered
<1>3. Outside \in Picture /\ ~ Outside.strays /\ ~ Outside.inside
  BY DEF Outside, Picture
<1>4. view \in [Fd -> [Chan -> Picture]]
  BY <1>3 DEF ViewInit
<1> QED BY <1>1, <1>2, <1>3, <1>4 DEF ViewInv, Sees

\* Every command keeps every picture right.
LEMMA NextKeepsViewInv == ViewInv /\ [ViewNext]_viewVars => ViewInv'
<1> SUFFICES ASSUME ViewInv, [ViewNext]_viewVars PROVE ViewInv'
  OBVIOUS
<1>1. CASE UNCHANGED viewVars
  <2>1. UNCHANGED vars /\ UNCHANGED <<connected, nameOf, channels, view>>
    BY <1>1 DEF viewVars, vars
  <2>2. IndInv' /\ UsersOK'
    BY <2>1, NextKeepsIndInv DEF ViewInv, UsersOK, Registered
  <2>3. ASSUME NEW f \in Fd, NEW c \in Chan PROVE Sees(f, c)'
    <3>1. (Member(f, c)' <=> Member(f, c)) /\ \A F : NamesOf(F)' = NamesOf(F)
      BY <2>1 DEF Member, Exists, NamesOf, Registered
    <3> QED BY <2>1, <3>1 DEF ViewInv, Sees, Pictured
  <2> QED BY <2>1, <2>2, <2>3 DEF ViewInv
<1>2. ASSUME Next, Read PROVE ViewInv'
  <2>1. IndInv'
    BY <1>2, NextKeepsIndInv DEF ViewInv
  <2>2. ASSUME NEW f \in Fd, Accept(f) \/ \E n \in Name : Enter(f, n) PROVE ViewInv'
    BY <1>2, <2>1, <2>2, ArrivalKeepsViews
  <2>3. ASSUME NEW f \in Fd, Disconnect(f) PROVE ViewInv'
    BY <1>2, <2>1, <2>3, DisconnectKeepsViews
  <2>4. ASSUME NEW f \in Fd, NEW n \in Name, PrivMsgUser(f, n) PROVE ViewInv'
    BY <1>2, <2>1, <2>4, PrivMsgUserKeepsViews
  <2>5. ASSUME NEW f \in Fd, NEW c \in Chan, UserCommand(f, c) PROVE ViewInv'
    <3>1. ASSUME NEW key \in Key, Join(f, c, key) PROVE ViewInv'
      BY <1>2, <2>1, <3>1, JoinKeepsViews
    <3>2. CASE Part(f, c)
      BY <1>2, <2>1, <3>2, PartKeepsViews
    <3>3. ASSUME NEW n \in Name, Kick(f, c, n) PROVE ViewInv'
      BY <1>2, <2>1, <3>3, KickKeepsViews
    <3>4. ASSUME NEW n \in Name, Invite(f, c, n) PROVE ViewInv'
      BY <1>2, <2>1, <3>4, InviteKeepsViews
    <3>5. ASSUME NEW t \in Topic, SetTopic(f, c, t) PROVE ViewInv'
      BY <1>2, <2>1, <3>5, SetTopicKeepsViews
    <3>6. CASE AskTopic(f, c) \/ AskMode(f, c) \/ PrivMsg(f, c)
      BY <1>2, <2>1, <3>6, QueriesKeepViews
    <3>7. ASSUME NEW line \in ModeLine, Mode(f, c, line) PROVE ViewInv'
      BY <1>2, <2>1, <3>7, ModeKeepsViews
    <3> QED BY <2>5, <3>1, <3>2, <3>3, <3>4, <3>5, <3>6, <3>7 DEF UserCommand
  <2> QED BY <1>2, <2>2, <2>3, <2>4, <2>5 DEF Next
<1> QED BY <1>1, <1>2 DEF ViewNext

\* Every picture is right in every reachable state.
THEOREM ViewInvariantHolds == ViewSpec => []ViewInv
<1>1. ViewInit => ViewInv
  BY InitViewInv
<1>2. ViewInv /\ [ViewNext]_viewVars => ViewInv'
  BY NextKeepsViewInv
<1> QED BY <1>1, <1>2, PTL DEF ViewSpec

\* The variables, and the pictures, keep their types.
THEOREM ViewTypeOKHolds == ViewSpec => []ViewTypeOK
<1>1. ViewInv => ViewTypeOK
  BY DEF ViewInv, ViewTypeOK, IndInv
<1> QED BY <1>1, ViewInvariantHolds, PTL

\* A client knows which channels it is in, who else is there and what the topic is.
THEOREM ViewMatchesServerHolds == ViewSpec => []ViewMatchesServer
<1>1. ViewInv => ViewMatchesServer
  <2> SUFFICES ASSUME ViewInv, NEW f \in Registered, NEW c \in Chan
               PROVE  /\ view[f][c].inside = Member(f, c)
                      /\ Member(f, c) => /\ view[f][c].members = NamesOf(channels[c].members)
                                         /\ view[f][c].topic = channels[c].topic
    BY DEF ViewMatchesServer
  <2>1. /\ view[f][c] \in Picture /\ (view[f][c].inside <=> Member(f, c))
        /\ Member(f, c) => Pictured(view[f][c], channels[c])
    BY OnePicture DEF Registered
  <2>2. view[f][c].inside \in BOOLEAN /\ Member(f, c) \in BOOLEAN
    BY <2>1 DEF Picture, Member
  <2> QED BY <2>1, <2>2 DEF Pictured
<1> QED BY <1>1, ViewInvariantHolds, PTL

\* A client believes in no operator that is none, and misses at most one.
THEOREM ViewOfOperatorsHolds == ViewSpec => []ViewOfOperators
<1>1. ViewInv => ViewOfOperators
  <2> SUFFICES ASSUME ViewInv, NEW f \in Registered, NEW c \in Chan, Member(f, c)
               PROVE  LET really == NamesOf(channels[c].ops)
                      IN  /\ view[f][c].ops \subseteq really
                          /\ Cardinality(really \ view[f][c].ops) <= 1
    BY DEF ViewOfOperators
  <2> DEFINE really  == NamesOf(channels[c].ops)
             missing == really \ view[f][c].ops
  <2>1. Pictured(view[f][c], channels[c])
    BY OnePicture DEF Registered
  <2>2. view[f][c].ops \subseteq really /\ \A a, b \in missing : a = b
    BY <2>1 DEF Pictured
  <2> HIDE DEF missing
  <2>3. missing = {} \/ \E a : missing = {a}
    BY <2>2
  <2>4. Cardinality(missing) = 0 \/ Cardinality(missing) = 1
    BY <2>3, FS_EmptySet, FS_Singleton
  <2>5. Cardinality(missing) <= 1
    BY <2>4
  <2> QED BY <2>2, <2>5 DEF missing
<1> QED BY <1>1, ViewInvariantHolds, PTL

\* No client gets a message of a channel that it is not in, as far as it was told.
THEOREM NoStrayMessagesHolds == ViewSpec => []NoStrayMessages
<1>1. ViewInv => NoStrayMessages
  BY DEF ViewInv, NoStrayMessages, Sees
<1> QED BY <1>1, ViewInvariantHolds, PTL

=============================================================================
