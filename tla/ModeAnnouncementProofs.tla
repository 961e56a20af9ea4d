------------------------ MODULE ModeAnnouncementProofs -----------------------
(***************************************************************************)
(* The MODE messages of a channel against the channel, for any members,    *)
(* names and lines.  The server applies the letters of a line mode by      *)
(* mode, a client applies those announced to it from left to right; both   *)
(* get what the last letter about each field says.                         *)
(***************************************************************************)
EXTENDS ModeAnnouncement, ChannelProofs, SequenceTheorems

-----------------------------------------------------------------------------
\* val takes n steps, and those in writes overwrite it with what new says.
Overwritten(n, val, writes, new) ==
  /\ writes \subseteq 1 .. n
  /\ \A k \in 0 .. n - 1 : val[k + 1] = IF k + 1 \in writes THEN new[k + 1] ELSE val[k]

\* A value that some steps overwrite is, at the end, what the last of them wrote.
LEMMA LastWriterWins ==
  ASSUME NEW n \in Nat, NEW val, NEW writes, NEW new, Overwritten(n, val, writes, new)
  PROVE  /\ writes = {} => val[n] = val[0]
         /\ \A i \in writes : (\A j \in writes : j <= i) => val[n] = new[i]
<1>1. ASSUME NEW m \in 0 .. n, \A i \in writes : i <= m, m = 0 \/ m \in writes
      PROVE  val[n] = val[m]
  <2> USE DEF Overwritten
  <2> DEFINE I == {k \in Nat : m <= k /\ k <= n => val[k] = val[m]}
  <2>1. 0 \in I
    BY <1>1
  <2>2. ASSUME NEW k \in Nat, k \in I PROVE k + 1 \in I
    <3>1. CASE m <= k /\ k + 1 <= n
      <4>1. k \in 0 .. n - 1 /\ k + 1 \notin writes /\ val[k] = val[m]
        BY <1>1, <2>2, <3>1
      <4> QED BY <4>1
    <3>2. CASE m = k + 1
      BY <3>2
    <3>3. CASE ~ (m <= k + 1 /\ k + 1 <= n)
      BY <3>3
    <3> QED BY <1>1, <3>1, <3>2, <3>3
  <2>3. n \in I
    <3> HIDE DEF I
    <3> QED BY <2>1, <2>2, SetInduction
  <2> QED BY <1>1, <2>3
<1>2. CASE writes = {}
  BY <1>1, <1>2
<1>3. ASSUME NEW i \in writes, \A j \in writes : j <= i PROVE val[n] = new[i]
  <2>1. i \in 0 .. n /\ i - 1 \in 0 .. n - 1 /\ (i - 1) + 1 = i
    BY <1>3 DEF Overwritten
  <2>2. val[i] = new[i]
    BY <2>1 DEF Overwritten
  <2>3. val[n] = val[i]
    BY <1>1, <1>3, <2>1
  <2> QED BY <2>2, <2>3
<1> QED BY <1>2, <1>3

\* At the end val is what new says for the last of the letters in W.
LastDecides(n, val, W, new, reqs) ==
  /\ W = {} => val[n] = val[0]
  /\ W # {} => \E i \in W : LastOf(reqs, W) = reqs[i] /\ val[n] = new[i]

\* The last of the letters that overwrite a field decides it.
LEMMA LastLetterWins ==
  ASSUME NEW n \in Nat, NEW val, NEW W, NEW new, NEW reqs, Overwritten(n, val, W, new)
  PROVE  LastDecides(n, val, W, new, reqs)
<1>1. CASE W = {}
  BY <1>1, LastWriterWins DEF LastDecides
<1>2. CASE W # {}
  <2>1. \E i \in W : \A j \in W : j <= i
    BY <1>2, LargestExists DEF Overwritten
  <2> DEFINE i == CHOOSE i \in W : \A j \in W : j <= i
  <2>2. i \in W /\ (\A j \in W : j <= i) /\ LastOf(reqs, W) = reqs[i]
    BY <2>1 DEF LastOf
  <2> HIDE DEF i
  <2>3. val[n] = new[i]
    BY <2>2, LastWriterWins
  <2> QED BY <1>2, <2>2, <2>3 DEF LastDecides
<1> QED BY <1>1, <1>2

-----------------------------------------------------------------------------
\* A letter that a reader of a MODE message can apply.
Sayable(r) ==
  /\ r.mode \in {"i", "t", "k", "l", "o"}
  /\ r.mode \in {"k", "l"} /\ r.sign = "+" => r.arg \in Text
  /\ r.mode = "o" => Who[r.arg] \in Fd

\* now is old but for the field that r is about.
Obeyed(old, now, r) ==
  /\ now.members = old.members /\ now.joinOrder = old.joinOrder
  /\ now.invited = old.invited /\ now.topic = old.topic
  /\ now.inviteOnly = IF r.mode = "i" THEN r.sign = "+" ELSE old.inviteOnly
  /\ now.topicLock = IF r.mode = "t" THEN r.sign = "+" ELSE old.topicLock
  /\ now.key = IF r.mode = "k" THEN IF r.sign = "+" THEN r.arg ELSE Empty ELSE old.key
  /\ now.limit = IF r.mode = "l" THEN IF r.sign = "+" THEN LimitOf[r.arg] ELSE 0
                 ELSE old.limit
  /\ now.ops = IF r.mode # "o" THEN old.ops
               ELSE IF r.sign = "+" THEN old.ops \cup {Who[r.arg]}
               ELSE old.ops \ {Who[r.arg]}

\* It changes one field of the copy.
LEMMA HeardFields ==
  ASSUME NEW copy \in ChannelType(Fd, Text), NEW r, Sayable(r)
  PROVE  Heard(copy, r) \in ChannelType(Fd, Text) /\ Obeyed(copy, Heard(copy, r), r)
<1>1. CASE r.mode = "i"
  BY <1>1 DEF Heard, ChannelType, Obeyed
<1>2. CASE r.mode = "t"
  BY <1>2 DEF Heard, ChannelType, Obeyed
<1>3. CASE r.mode = "k"
  BY <1>3 DEF Heard, ChannelType, Sayable, Obeyed
<1>4. CASE r.mode = "l"
  BY <1>4, MembersAssumption DEF Heard, ChannelType, Sayable, Obeyed
<1>5. CASE r.mode = "o"
  BY <1>5 DEF Heard, ChannelType, Sayable, Obeyed
<1> QED BY <1>1, <1>2, <1>3, <1>4, <1>5 DEF Sayable

\* A letter that can be applied leaves a channel a channel.
LEMMA HeardType ==
  ASSUME NEW copy \in ChannelType(Fd, Text), NEW r, Sayable(r)
  PROVE  Heard(copy, r) \in ChannelType(Fd, Text)
BY HeardFields

\* What a reader has after each letter.
LEMMA HeardTrace ==
  ASSUME NEW S, NEW s \in Seq(S), \A r \in S : Sayable(r), NEW copy \in ChannelType(Fd, Text)
  PROVE  \E g : /\ g[0] = copy
                /\ \A k \in 0 .. Len(s) - 1 : g[k + 1] = Heard(g[k], s[k + 1])
                /\ FoldLeft(Heard, copy, s) = g[Len(s)]
<1> DEFINE n == Len(s)
           Fold(it) == [t \in SUBSET DOMAIN s |->
                          IF t = {} THEN copy ELSE Heard(it[t \ {Max(t)}], s[Max(t)])]
           h == CHOOSE it : it = Fold(it)
           A == ChannelType(Fd, Text)
           step == [p \in A \X (1 .. n) |-> Heard(p[1], s[p[2]])]
<1>1. FoldLeft(Heard, copy, s) = h[DOMAIN s]
  BY DEF FoldLeft, MapThenFoldSet
<1>2. DOMAIN s = 1 .. n /\ n \in Nat /\ \A i \in 1 .. n : s[i] \in S
  OBVIOUS
<1>3. step \in [A \X (1 .. n) -> A]
  <2>1. ASSUME NEW p \in A \X (1 .. n) PROVE Heard(p[1], s[p[2]]) \in A
    <3>1. p[1] \in A /\ Sayable(s[p[2]])
      BY <1>2
    <3> QED BY <3>1, HeardFields
  <2> HIDE DEF A, n
  <2> QED BY <2>1
<1>4. PICK it \in [SUBSET (1 .. n) -> A] : IsFold(it, copy, n, step)
  <2>1. copy \in A
    OBVIOUS
  <2> HIDE DEF A, n, step
  <2> QED BY <1>2, <1>3, <2>1, FoldExists
<1>5. it = Fold(it)
  <2>1. ASSUME NEW t \in SUBSET (1 .. n), t # {}
        PROVE step[<<it[t \ {Max(t)}], Max(t)>>] = Heard(it[t \ {Max(t)}], s[Max(t)])
    <3>1. it[t \ {Max(t)}] \in A /\ Max(t) \in 1 .. n
      BY <1>2, <1>4, <2>1, MaxIsThere
    <3> HIDE DEF A, n
    <3> QED BY <3>1
  <2>2. it = [t \in SUBSET (1 .. n) |-> it[t]]
    OBVIOUS
  <2> HIDE DEF step, n, A
  <2> QED BY <1>2, <1>4, <2>1, <2>2 DEF IsFold
<1>6. h = Fold(h)
  <2> HIDE DEF Fold
  <2> QED BY <1>5
<1> HIDE DEF h
<1>7. \A t \in SUBSET (1 .. n) :
        h[t] = IF t = {} THEN copy ELSE Heard(h[t \ {Max(t)}], s[Max(t)])
  BY <1>2, <1>6
<1> HIDE DEF Fold
<1> DEFINE g == [k \in 0 .. n |-> h[1 .. k]]
<1>8. g[0] = copy /\ FoldLeft(Heard, copy, s) = g[n]
  BY <1>1, <1>2, <1>7, FirstSets
<1>9. ASSUME NEW k \in 0 .. n - 1 PROVE g[k + 1] = Heard(g[k], s[k + 1])
  <2>1. /\ k \in 0 .. n /\ k + 1 \in 0 .. n /\ 1 .. k + 1 \in SUBSET (1 .. n)
        /\ 1 .. k + 1 # {} /\ (1 .. k + 1) \ {k + 1} = 1 .. k /\ Max(1 .. k + 1) = k + 1
    BY <1>2, FirstSets
  <2>2. g[k] = h[1 .. k] /\ g[k + 1] = h[1 .. k + 1]
    BY <2>1
  <2> HIDE DEF g, n
  <2> QED BY <1>7, <2>1, <2>2
<1> HIDE DEF g
<1> QED BY <1>8, <1>9

\* A message is read letter by letter.
LEMMA HeardSteps ==
  ASSUME NEW S, NEW s \in Seq(S), \A r \in S : Sayable(r), NEW copy \in ChannelType(Fd, Text)
  PROVE  /\ FoldLeft(Heard, copy, s) \in ChannelType(Fd, Text)
         /\ Len(s) = 0 => FoldLeft(Heard, copy, s) = copy
         /\ \A x \in S : FoldLeft(Heard, copy, Append(s, x)) = Heard(FoldLeft(Heard, copy, s), x)
<1> DEFINE n == Len(s)
           A == ChannelType(Fd, Text)
<1>1. n \in Nat /\ \A i \in 1 .. n : Sayable(s[i])
  OBVIOUS
<1>2. PICK g : /\ g[0] = copy
               /\ \A k \in 0 .. n - 1 : g[k + 1] = Heard(g[k], s[k + 1])
               /\ FoldLeft(Heard, copy, s) = g[n]
  BY HeardTrace
<1>3. ASSUME NEW x \in S PROVE FoldLeft(Heard, copy, Append(s, x)) = Heard(g[n], x)
  <2> DEFINE longer == Append(s, x)
  <2>1. /\ longer \in Seq(S) /\ Len(longer) = n + 1 /\ longer[n + 1] = x
        /\ \A i \in 1 .. n : longer[i] = s[i]
    OBVIOUS
  <2> HIDE DEF longer
  <2>2. PICK h : /\ h[0] = copy
                 /\ \A k \in 0 .. n : h[k + 1] = Heard(h[k], longer[k + 1])
                 /\ FoldLeft(Heard, copy, longer) = h[n + 1]
    <3>1. PICK h : /\ h[0] = copy
                   /\ \A k \in 0 .. Len(longer) - 1 : h[k + 1] = Heard(h[k], longer[k + 1])
                   /\ FoldLeft(Heard, copy, longer) = h[Len(longer)]
      BY <2>1, HeardTrace
    <3>2. 0 .. Len(longer) - 1 = 0 .. n
      BY <1>1, <2>1
    <3> QED BY <2>1, <3>1, <3>2
  <2> HIDE DEF n
  <2> DEFINE I == {k \in Nat : k <= n => h[k] = g[k]}
  <2>3. 0 \in I
    BY <1>2, <2>2
  <2>4. ASSUME NEW k \in Nat, k \in I PROVE k + 1 \in I
    <3>1. SUFFICES ASSUME k + 1 <= n PROVE h[k + 1] = g[k + 1]
      OBVIOUS
    <3>2. k \in 0 .. n - 1 /\ k \in 0 .. n /\ k + 1 \in 1 .. n /\ h[k] = g[k]
      BY <1>1, <2>4, <3>1
    <3> HIDE DEF I
    <3> QED BY <1>2, <2>1, <2>2, <3>2
  <2>5. n \in I
    <3> HIDE DEF I
    <3> QED BY <1>1, <2>3, <2>4, SetInduction
  <2>6. h[n] = g[n] /\ n \in 0 .. n
    BY <1>1, <2>5
  <2> QED BY <2>1, <2>2, <2>6 DEF longer
<1> HIDE DEF n
<1> DEFINE I == {k \in Nat : k <= n => g[k] \in A}
<1>4. 0 \in I
  BY <1>2
<1>5. ASSUME NEW k \in Nat, k \in I PROVE k + 1 \in I
  <2>1. SUFFICES ASSUME k + 1 <= n PROVE g[k + 1] \in A
    OBVIOUS
  <2>2. k \in 0 .. n - 1 /\ k + 1 \in 1 .. n /\ g[k] \in A
    BY <1>1, <1>5, <2>1
  <2>3. Sayable(s[k + 1]) /\ g[k + 1] = Heard(g[k], s[k + 1])
    BY <1>1, <1>2, <2>2
  <2> HIDE DEF I
  <2> QED BY <2>2, <2>3, HeardType
<1>6. n \in I
  <2> HIDE DEF I
  <2> QED BY <1>1, <1>4, <1>5, SetInduction
<1>7. g[n] \in A
  BY <1>1, <1>6
<1> QED BY <1>2, <1>3, <1>7 DEF n

-----------------------------------------------------------------------------
\* The letters with their arguments: which take effect, and what the others lack.
LEMMA RequestsAre ==
  ASSUME NEW ch, NEW line \in LineType(Text)
  PROVE  LET reqs == Requests(ch, line, Who)
         IN  /\ DOMAIN reqs = 1 .. Len(line.items) /\ Len(line.items) \in Nat
             /\ \A i \in DOMAIN reqs :
                  LET r == reqs[i]
                  IN  /\ r.mode \in {"i", "t", "k", "l", "o"} /\ r.sign \in {"+", "-"}
                      /\ r.mode \in {"k", "l"} /\ r.sign = "+" /\ TakesEffect(r) => r.arg \in Text
                      /\ r.mode = "k" /\ r.sign = "-" => r.arg = Empty
                      /\ r.mode = "o" /\ TakesEffect(r) => Who[r.arg] \in ch.members
<1> DEFINE reqs == Requests(ch, line, Who)
<1>1. DOMAIN reqs = 1 .. Len(line.items) /\ Len(line.items) \in Nat
  BY DEF Requests, LineType
<1>2. ASSUME NEW i \in DOMAIN reqs
      PROVE  /\ reqs[i].mode \in {"i", "t", "k", "l", "o"} /\ reqs[i].sign \in {"+", "-"}
             /\ reqs[i].mode = "k" /\ reqs[i].sign = "-" => reqs[i].arg = Empty
  <2> DEFINE item == line.items[i]
             arg  == BoundArg(line, i)
  <2>1. item \in ModeItem
    BY DEF LineType, Requests
  <2>2. reqs[i].mode = item.mode /\ reqs[i].sign = item.sign /\ reqs[i].arg \in {arg, Empty}
    BY DEF Requests
  <2>3. item.mode = "k" /\ item.sign = "-" => arg = Empty
    BY DEF BoundArg, HasArg, NeedsArg
  <2> HIDE DEF reqs, item, arg
  <2> QED BY <2>1, <2>2, <2>3 DEF ModeItem
<1>3. \A i \in DOMAIN reqs :
        /\ reqs[i].mode = "o" /\ TakesEffect(reqs[i]) => Who[reqs[i].arg] \in ch.members
        /\ reqs[i].mode \in {"k", "l"} /\ reqs[i].sign = "+" /\ TakesEffect(reqs[i])
             => reqs[i].arg \in Text
  BY RequestsType, MembersAssumption
<1> HIDE DEF reqs
<1> QED BY <1>1, <1>2, <1>3 DEF reqs

\* h is what a reader of the letters of s that are in T has after each letter of s.
Copies(h, copy, s, T) ==
  /\ h[0] = copy
  /\ FoldLeft(Heard, copy, Kept(s, T)) = h[Len(s)]
  /\ \A k \in 0 .. Len(s) : h[k] \in ChannelType(Fd, Text)
  /\ \A k \in 0 .. Len(s) - 1 :
       h[k + 1] = IF s[k + 1] \in T THEN Heard(h[k], s[k + 1]) ELSE h[k]

\* A reader of the letters that are kept passes through such copies.
LEMMA KeptIsHeard ==
  ASSUME NEW S, NEW s \in Seq(S), NEW T, \A r \in S \cap T : Sayable(r),
         NEW copy \in ChannelType(Fd, Text)
  PROVE  \E h : Copies(h, copy, s, T)
<1> DEFINE n == Len(s)
           R == S \cap T
<1>1. PICK g : /\ g[0] = <<>>
               /\ \A k \in 0 .. n - 1 :
                    g[k + 1] = IF s[k + 1] \in T THEN Append(g[k], s[k + 1]) ELSE g[k]
               /\ Kept(s, T) = g[n]
  BY KeptTrace
<1>2. n \in Nat /\ \A i \in 1 .. n : s[i] \in S
  OBVIOUS
<1>3. \A r \in R : Sayable(r)
  OBVIOUS
<1> HIDE DEF n
<1> DEFINE f(k) == FoldLeft(Heard, copy, g[k])
           Good(k) == g[k] \in Seq(R) /\ f(k) \in ChannelType(Fd, Text)
           Step(k) == f(k + 1) = IF s[k + 1] \in T THEN Heard(f(k), s[k + 1]) ELSE f(k)
           I == {k \in Nat : k <= n => Good(k)}
<1>4. Good(0) /\ f(0) = copy
  <2> DEFINE e == <<>>
  <2>1. e \in Seq(R) /\ Len(e) = 0 /\ g[0] = e
    BY <1>1
  <2> HIDE DEF e, R
  <2> QED BY <1>3, <2>1, HeardSteps
<1>5. ASSUME NEW k \in Nat, k + 1 <= n, Good(k) PROVE Good(k + 1) /\ Step(k)
  <2> DEFINE now  == g[k]
             next == g[k + 1]
             x    == s[k + 1]
  <2>1. /\ x \in S /\ now \in Seq(R) /\ f(k) \in ChannelType(Fd, Text)
        /\ next = IF x \in T THEN Append(now, x) ELSE now
    <3>1. k \in 0 .. n - 1 /\ k + 1 \in 1 .. n
      BY <1>2, <1>5
    <3> QED BY <1>1, <1>2, <1>5, <3>1
  <2>2. CASE x \in T
    <3>1. x \in R /\ next = Append(now, x)
      BY <2>1, <2>2
    <3> HIDE DEF R, now, next, x
    <3>2. FoldLeft(Heard, copy, Append(now, x)) = Heard(FoldLeft(Heard, copy, now), x)
      <4>1. \A y \in R : FoldLeft(Heard, copy, Append(now, y)) = Heard(FoldLeft(Heard, copy, now), y)
        BY <1>3, <2>1, HeardSteps
      <4> QED BY <3>1, <4>1
    <3>3. Append(now, x) \in Seq(R)
      BY <2>1, <3>1
    <3>4. FoldLeft(Heard, copy, Append(now, x)) \in ChannelType(Fd, Text)
      BY <1>3, <3>3, HeardSteps
    <3> QED BY <2>2, <3>1, <3>2, <3>3, <3>4 DEF now, next, x
  <2>3. CASE x \notin T
    <3>1. next = now
      BY <2>1, <2>3
    <3> HIDE DEF R
    <3> QED BY <2>1, <2>3, <3>1
  <2> QED BY <2>2, <2>3
<1> HIDE DEF Good, Step
<1>6. 0 \in I
  BY <1>4
<1>7. ASSUME NEW k \in Nat, k \in I PROVE k + 1 \in I
  <2>1. SUFFICES ASSUME k + 1 <= n PROVE Good(k + 1)
    OBVIOUS
  <2>2. Good(k)
    BY <1>2, <1>7, <2>1
  <2> QED BY <1>5, <2>1, <2>2
<1>8. ASSUME NEW k \in 0 .. n PROVE Good(k)
  <2>1. k \in I
    <3> HIDE DEF I
    <3> QED BY <1>2, <1>6, <1>7, SetInduction
  <2> QED BY <1>2, <2>1
<1>9. ASSUME NEW k \in 0 .. n - 1 PROVE Step(k)
  <2>1. k \in Nat /\ k + 1 <= n /\ k \in 0 .. n
    BY <1>2
  <2> QED BY <1>5, <1>8, <2>1
<1> DEFINE h == [k \in 0 .. n |-> f(k)]
<1>10. \A k \in 0 .. n : h[k] = f(k)
  OBVIOUS
<1> HIDE DEF h, f
<1>11. h[0] = copy /\ h[n] = f(n)
  BY <1>2, <1>4, <1>10
<1>12. \A k \in 0 .. n : h[k] \in ChannelType(Fd, Text)
  BY <1>8, <1>10 DEF Good
<1>13. ASSUME NEW k \in 0 .. n - 1
       PROVE  h[k + 1] = IF s[k + 1] \in T THEN Heard(h[k], s[k + 1]) ELSE h[k]
  <2>1. k \in 0 .. n /\ k + 1 \in 0 .. n
    BY <1>2
  <2> QED BY <1>9, <1>10, <2>1 DEF Step
<1>14. FoldLeft(Heard, copy, Kept(s, T)) = h[n]
  BY <1>1, <1>11 DEF f
<1> QED BY <1>11, <1>12, <1>13, <1>14 DEF n, Copies

\* Reading an announcement does to a copy what MODE did to the channel.
LEMMA ReadingIsApplying ==
  ASSUME NEW ch \in ChannelType(Fd, Text), Consistent(ch), NEW line \in LineType(Text)
  PROVE  LET reqs == Requests(ch, line, Who)
         IN  FoldLeft(Heard, ch, Announced(reqs)) = ApplyModes(ch, reqs, Who)
<1> DEFINE reqs == Requests(ch, line, Who)
           n    == Len(line.items)
           T    == {r \in Range(reqs) : TakesEffect(r)}
           S    == {reqs[i] : i \in DOMAIN reqs}
           hit(i) == TakesEffect(reqs[i])
           new == ApplyModes(ch, reqs, Who)
<1>1. /\ DOMAIN reqs = 1 .. n /\ n \in Nat
      /\ \A i \in 1 .. n :
           /\ reqs[i].mode \in {"i", "t", "k", "l", "o"} /\ reqs[i].sign \in {"+", "-"}
           /\ reqs[i].mode \in {"k", "l"} /\ reqs[i].sign = "+" /\ hit(i) => reqs[i].arg \in Text
           /\ reqs[i].mode = "k" /\ reqs[i].sign = "-" => reqs[i].arg = Empty
           /\ reqs[i].mode = "o" /\ hit(i) => Who[reqs[i].arg] \in ch.members
  BY RequestsAre
<1>2. ch.members \subseteq Fd /\ ch.ops \subseteq ch.members
  BY DEF ChannelType, Consistent
<1>3. reqs = [i \in 1 .. n |-> reqs[i]]
  BY <1>1 DEF Requests
<1>4. new \in ChannelType(Fd, Text)
  BY MembersAssumption, ApplyModesKeepsMembers
<1> HIDE DEF reqs, n
<1>5. reqs \in Seq(S) /\ Len(reqs) = n
  <2>1. reqs \in [1 .. n -> S]
    BY <1>1, <1>3
  <2> QED BY <1>1, <2>1
<1>6. \A i \in 1 .. n : reqs[i] \in T <=> hit(i)
  BY <1>1 DEF Range
<1>7. \A r \in S \cap T : Sayable(r)
  BY <1>1, <1>2 DEF Sayable
<1>8. PICK h : /\ h[0] = ch
               /\ FoldLeft(Heard, ch, Kept(reqs, T)) = h[n]
               /\ \A k \in 0 .. n : h[k] \in ChannelType(Fd, Text)
               /\ \A k \in 0 .. n - 1 :
                    h[k + 1] = IF reqs[k + 1] \in T THEN Heard(h[k], reqs[k + 1]) ELSE h[k]
  <2> HIDE DEF S, T
  <2>1. PICK h : Copies(h, ch, reqs, T)
    BY <1>5, <1>7, KeptIsHeard
  <2>2. Len(reqs) = n
    BY <1>5
  <2> QED BY <2>1, <2>2 DEF Copies
<1> DEFINE about(m) == AboutMode(reqs, m)
           o(f)     == AboutOperator(reqs, Who, f)
\* What each letter overwrites.
<1>9. ASSUME NEW k \in 0 .. n - 1
      PROVE  LET old == h[k]
                 now == h[k + 1]
                 r   == reqs[k + 1]
             IN  /\ now.members = old.members /\ now.joinOrder = old.joinOrder
                 /\ now.invited = old.invited /\ now.topic = old.topic
                 /\ now.inviteOnly = IF k + 1 \in about("i") THEN r.sign = "+" ELSE old.inviteOnly
                 /\ now.topicLock = IF k + 1 \in about("t") THEN r.sign = "+" ELSE old.topicLock
                 /\ now.key = IF k + 1 \in about("k") THEN r.arg ELSE old.key
                 /\ now.limit = IF k + 1 \in about("l")
                                THEN IF r.sign = "+" THEN LimitOf[r.arg] ELSE 0
                                ELSE old.limit
                 /\ \A f : f \in now.ops <=> IF k + 1 \in o(f) THEN r.sign = "+" ELSE f \in old.ops
  <2> DEFINE old == h[k]
             now == h[k + 1]
             r   == reqs[k + 1]
  <2>1. k \in 0 .. n /\ k + 1 \in 1 .. n /\ r \in S
    BY <1>1
  <2>2. old \in ChannelType(Fd, Text) /\ now = IF r \in T THEN Heard(old, r) ELSE old
    BY <1>8, <2>1
  <2>3. /\ \A m : k + 1 \in about(m) <=> r \in T /\ r.mode = m
        /\ \A f : k + 1 \in o(f) <=> r \in T /\ r.mode = "o" /\ Who[r.arg] = f
    BY <1>1, <1>6, <2>1 DEF AboutMode, AboutOperator
  <2>4. /\ r.mode \in {"i", "t", "k", "l", "o"} /\ r.sign \in {"+", "-"}
        /\ r.mode = "k" /\ r.sign = "-" => r.arg = Empty
    BY <1>1, <2>1
  <2>5. CASE r \in T
    <3>1. Sayable(r) /\ now = Heard(old, r)
      BY <1>7, <2>1, <2>2, <2>5
    <3> HIDE DEF old, now, r, S, T, o, about
    <3>2. Obeyed(old, now, r)
      BY <2>2, <3>1, HeardFields
    <3> QED BY <2>3, <2>4, <2>5, <3>2 DEF old, now, r, Obeyed
  <2>6. CASE r \notin T
    <3> HIDE DEF S, T, o, about
    <3>1. now = old
      BY <2>2, <2>6
    <3> QED BY <2>3, <2>6, <3>1
  <2> QED BY <2>5, <2>6
<1>10. /\ \A m : about(m) \subseteq 1 .. n
       /\ \A f : o(f) \subseteq 1 .. n
  BY <1>1 DEF AboutMode, AboutOperator
<1>11. /\ n \in 0 .. n /\ 0 \in 0 .. n
       /\ \A k \in 0 .. n - 1 : k \in 0 .. n /\ k + 1 \in 0 .. n /\ k + 1 \in 1 .. n
  BY <1>1
<1> HIDE DEF T, S, hit, o, about, new
<1>12. /\ h[n].members = ch.members /\ h[n].joinOrder = ch.joinOrder
       /\ h[n].invited = ch.invited /\ h[n].topic = ch.topic
  <2> DEFINE rest(k) == <<h[k].members, h[k].joinOrder, h[k].invited, h[k].topic>>
             val == [k \in 0 .. n |-> rest(k)]
  <2>1. ASSUME NEW k \in 0 .. n - 1 PROVE rest(k + 1) = rest(k)
    BY <1>9
  <2>2. Overwritten(n, val, {}, val)
    <3> HIDE DEF rest
    <3> QED BY <1>11, <2>1 DEF Overwritten
  <2>3. val[n] = val[0]
    <3> HIDE DEF val
    <3> QED BY <1>1, <2>2, LastWriterWins
  <2>4. rest(n) = rest(0)
    <3> HIDE DEF rest
    <3> QED BY <1>11, <2>3
  <2> QED BY <1>8, <2>4
<1>13. h[n].inviteOnly = IF about("i") = {} THEN ch.inviteOnly ELSE LastOf(reqs, about("i")).sign = "+"
  <2> DEFINE val == [k \in 0 .. n |-> h[k].inviteOnly]
             say == [i \in 1 .. n |-> reqs[i].sign = "+"]
  <2>1. Overwritten(n, val, about("i"), say)
    BY <1>9, <1>10, <1>11 DEF Overwritten
  <2>2. val[0] = ch.inviteOnly /\ val[n] = h[n].inviteOnly
    BY <1>8, <1>11
  <2>3. \A i \in about("i") : say[i] = (reqs[i].sign = "+")
    BY <1>10
  <2> HIDE DEF val, say
  <2>4. LastDecides(n, val, about("i"), say, reqs)
    BY <1>1, <2>1, LastLetterWins
  <2> QED BY <2>2, <2>3, <2>4 DEF LastDecides
<1>14. h[n].topicLock = IF about("t") = {} THEN ch.topicLock ELSE LastOf(reqs, about("t")).sign = "+"
  <2> DEFINE val == [k \in 0 .. n |-> h[k].topicLock]
             say == [i \in 1 .. n |-> reqs[i].sign = "+"]
  <2>1. Overwritten(n, val, about("t"), say)
    BY <1>9, <1>10, <1>11 DEF Overwritten
  <2>2. val[0] = ch.topicLock /\ val[n] = h[n].topicLock
    BY <1>8, <1>11
  <2>3. \A i \in about("t") : say[i] = (reqs[i].sign = "+")
    BY <1>10
  <2> HIDE DEF val, say
  <2>4. LastDecides(n, val, about("t"), say, reqs)
    BY <1>1, <2>1, LastLetterWins
  <2> QED BY <2>2, <2>3, <2>4 DEF LastDecides
<1>15. h[n].key = IF about("k") = {} THEN ch.key ELSE LastOf(reqs, about("k")).arg
  <2> DEFINE val == [k \in 0 .. n |-> h[k].key]
             say == [i \in 1 .. n |-> reqs[i].arg]
  <2>1. Overwritten(n, val, about("k"), say)
    BY <1>9, <1>10, <1>11 DEF Overwritten
  <2>2. val[0] = ch.key /\ val[n] = h[n].key
    BY <1>8, <1>11
  <2>3. \A i \in about("k") : say[i] = reqs[i].arg
    BY <1>10
  <2> HIDE DEF val, say
  <2>4. LastDecides(n, val, about("k"), say, reqs)
    BY <1>1, <2>1, LastLetterWins
  <2> QED BY <2>2, <2>3, <2>4 DEF LastDecides
<1>16. h[n].limit = IF about("l") = {} THEN ch.limit
                    ELSE IF LastOf(reqs, about("l")).sign = "+"
                    THEN LimitOf[LastOf(reqs, about("l")).arg] ELSE 0
  <2> DEFINE val == [k \in 0 .. n |-> h[k].limit]
             say == [i \in 1 .. n |-> IF reqs[i].sign = "+" THEN LimitOf[reqs[i].arg] ELSE 0]
  <2>1. Overwritten(n, val, about("l"), say)
    BY <1>9, <1>10, <1>11 DEF Overwritten
  <2>2. val[0] = ch.limit /\ val[n] = h[n].limit
    BY <1>8, <1>11
  <2>3. \A i \in about("l") : say[i] = IF reqs[i].sign = "+" THEN LimitOf[reqs[i].arg] ELSE 0
    BY <1>10
  <2> HIDE DEF val, say
  <2>4. LastDecides(n, val, about("l"), say, reqs)
    BY <1>1, <2>1, LastLetterWins
  <2> QED BY <2>2, <2>3, <2>4 DEF LastDecides
<1>17. ASSUME NEW f
       PROVE  f \in h[n].ops <=> IF o(f) = {} THEN f \in ch.ops ELSE LastOf(reqs, o(f)).sign = "+"
  <2> DEFINE val == [k \in 0 .. n |-> f \in h[k].ops]
             say == [i \in 1 .. n |-> reqs[i].sign = "+"]
  <2>1. Overwritten(n, val, o(f), say)
    BY <1>9, <1>10, <1>11 DEF Overwritten
  <2>2. val[0] = (f \in ch.ops) /\ val[n] = (f \in h[n].ops)
    BY <1>8, <1>11
  <2>3. \A i \in o(f) : say[i] = (reqs[i].sign = "+")
    BY <1>10
  <2> HIDE DEF val, say
  <2>4. LastDecides(n, val, o(f), say, reqs)
    BY <1>1, <2>1, LastLetterWins
  <2> QED BY <2>2, <2>3, <2>4 DEF LastDecides
<1>18. h[n].ops = {f \in ch.members \cup ch.ops :
                     IF o(f) = {} THEN f \in ch.ops ELSE LastOf(reqs, o(f)).sign = "+"}
  <2>1. ASSUME NEW f \in h[n].ops PROVE f \in ch.members
    <3>1. CASE o(f) = {}
      BY <1>2, <1>17, <3>1
    <3>2. CASE o(f) # {}
      <4>1. PICK i \in o(f) : TRUE
        BY <3>2
      <4>2. i \in 1 .. n /\ reqs[i].mode = "o" /\ hit(i) /\ Who[reqs[i].arg] = f
        BY <1>1, <4>1 DEF o, hit, AboutOperator, AboutMode
      <4> QED BY <1>1, <4>2 DEF hit
    <3> QED BY <3>1, <3>2
  <2> QED BY <1>17, <2>1
<1>19. h[n] = new
  <2>1. /\ new.members = ch.members /\ new.joinOrder = ch.joinOrder
        /\ new.invited = ch.invited /\ new.topic = ch.topic
        /\ new.inviteOnly = h[n].inviteOnly /\ new.topicLock = h[n].topicLock
        /\ new.key = h[n].key /\ new.limit = h[n].limit /\ new.ops = h[n].ops
    BY <1>13, <1>14, <1>15, <1>16, <1>18, ApplyModesFields DEF new, about, o
  <2>2. h[n] \in ChannelType(Fd, Text)
    BY <1>8, <1>11
  <2> QED BY <1>4, <1>12, <2>1, <2>2 DEF ChannelType
<1>20. Announced(reqs) = Kept(reqs, T)
  BY DEF Announced, T
<1> QED BY <1>8, <1>19, <1>20 DEF reqs, new

-----------------------------------------------------------------------------
\* The members in some order: each of them once, and one at least.
LEMMA OrderIsAJoinOrder ==
  ASSUME NEW order \in SetToSeqs(Fd)
  PROVE  /\ order \in Seq(Fd) /\ order[1] \in Fd
         /\ Fd = {order[i] : i \in DOMAIN order}
         /\ \A i, j \in DOMAIN order : order[i] = order[j] => i = j
<1> DEFINE n == Cardinality(Fd)
<1>1. n \in Nat /\ n # 0
  BY MembersAssumption, FS_CardinalityType, FS_EmptySet
<1>2. order \in [1 .. n -> Fd] /\ \A i, j \in 1 .. n : i # j => order[i] # order[j]
  BY DEF SetToSeqs
<1>3. order \in Injection(1 .. n, Fd)
  BY <1>2 DEF Injection, IsInjective
<1>4. Cardinality(1 .. n) = n
  BY <1>1, FS_Interval
<1>5. order \in Surjection(1 .. n, Fd)
  BY <1>3, <1>4, MembersAssumption, FS_Injection
<1> HIDE DEF n
<1>6. order \in Seq(Fd) /\ order[1] \in Fd
  BY <1>1, <1>2
<1>7. \A f \in Fd : \E i \in 1 .. n : order[i] = f
  BY <1>5 DEF Surjection
<1> QED BY <1>2, <1>6, <1>7

\* The strange letters are dropped.
LEMMA ParsedType ==
  ASSUME NEW typed \in ModeLine
  PROVE  Parsed(typed) \in LineType(Text) /\ typed.items \in Seq(Letter)
<1>1. typed \in [items : Seq(Letter), args : Seq(Text \cup {Empty})]
  BY ModeLineAssumption
<1>2. Kept(typed.items, ModeItem) \in Seq(Letter \cap ModeItem)
  BY <1>1, KeptKeeps
<1>3. Kept(typed.items, ModeItem) \in Seq(ModeItem)
  BY <1>2
<1> QED BY <1>1, <1>3 DEF Parsed, LineType

\* What is announced can be applied by whoever reads it.
LEMMA AnnouncedIsSayable ==
  ASSUME NEW ch \in ChannelType(Fd, Text), NEW line \in LineType(Text)
  PROVE  LET reqs == Requests(ch, line, Who)
             T    == {r \in Range(reqs) : TakesEffect(r)}
         IN  Announced(reqs) \in Seq(T) /\ \A r \in T : Sayable(r)
<1> DEFINE reqs == Requests(ch, line, Who)
           n    == Len(line.items)
           T    == {r \in Range(reqs) : TakesEffect(r)}
           S    == Range(reqs)
<1>1. /\ DOMAIN reqs = 1 .. n /\ n \in Nat
      /\ \A i \in 1 .. n :
           /\ reqs[i].mode \in {"i", "t", "k", "l", "o"}
           /\ reqs[i].mode \in {"k", "l"} /\ reqs[i].sign = "+" /\ TakesEffect(reqs[i])
                => reqs[i].arg \in Text
           /\ reqs[i].mode = "o" /\ TakesEffect(reqs[i]) => Who[reqs[i].arg] \in ch.members
  BY RequestsAre
<1>2. ch.members \subseteq Fd
  BY DEF ChannelType
<1>3. reqs = [i \in 1 .. n |-> reqs[i]]
  BY <1>1 DEF Requests
<1> HIDE DEF reqs, n
<1>4. reqs \in Seq(S)
  <2>1. reqs \in [1 .. n -> S]
    BY <1>1, <1>3 DEF Range
  <2> QED BY <1>1, <2>1
<1>5. \A r \in T : Sayable(r)
  BY <1>1, <1>2 DEF Range, Sayable
<1>6. Kept(reqs, T) \in Seq(S \cap T)
  BY <1>4, KeptKeeps
<1>7. Announced(reqs) = Kept(reqs, T)
  BY DEF Announced
<1>8. S \cap T = T
  OBVIOUS
<1> QED BY <1>5, <1>6, <1>7, <1>8 DEF reqs

\* The promotion the server may add to a line is announced as well.
LEMMA PromotionIsHeard ==
  ASSUME NEW ch \in ChannelType(Fd, Text), Consistent(ch)
  PROVE  /\ Promoted(ch) = NoFd => EnsureOperator(ch) = ch
         /\ Promoted(ch) # NoFd =>
              LET r == [sign |-> "+", mode |-> "o", arg |-> NameOf[Promoted(ch)]]
              IN  Sayable(r) /\ Heard(ch, r) = EnsureOperator(ch)
<1> DEFINE p == Promoted(ch)
           r == [sign |-> "+", mode |-> "o", arg |-> NameOf[p]]
<1>1. ch.ops \cap ch.members = ch.ops
  BY DEF Consistent
<1>2. EnsureOperator(ch) = [ch EXCEPT !.ops = ch.ops \cup ({p} \ {NoFd})]
  BY <1>1 DEF EnsureOperator
<1>3. CASE p = NoFd
  <2>1. ch.ops \cup ({p} \ {NoFd}) = ch.ops
    BY <1>3
  <2> HIDE DEF p
  <2>2. EnsureOperator(ch) = ch
    BY <1>2, <2>1 DEF ChannelType
  <2> QED BY <1>3, <2>2 DEF p
<1>4. CASE p # NoFd
  <2> DEFINE present == {i \in DOMAIN ch.joinOrder : ch.joinOrder[i] \in ch.members}
             first   == CHOOSE i \in present : \A j \in present : i <= j
  <2>1. present # {} /\ p = ch.joinOrder[first]
    BY <1>4 DEF Promoted
  <2>2. present \subseteq Nat
    BY DEF ChannelType
  <2>3. \E i \in present : \A j \in present : i <= j
    <3> HIDE DEF present
    <3> QED BY <2>1, <2>2, SmallestExists
  <2>4. first \in present
    <3> HIDE DEF present
    <3> QED BY <2>3
  <2>5. p \in Fd
    BY <2>1, <2>4 DEF ChannelType
  <2> HIDE DEF p, first
  <2>6. Who[NameOf[p]] = p /\ NameOf[p] \in Text
    BY <2>5, MembersAssumption
  <2>7. Sayable(r)
    BY <2>5, <2>6 DEF Sayable
  <2>8. Heard(ch, r) = [ch EXCEPT !.ops = ch.ops \cup {p}]
    BY <2>6 DEF Heard
  <2>9. {p} \ {NoFd} = {p}
    BY <1>4
  <2>10. Heard(ch, r) = EnsureOperator(ch)
    BY <1>2, <2>8, <2>9
  <2> QED BY <1>4, <2>7, <2>10 DEF p
<1> QED BY <1>3, <1>4

\* A line leaves the channel sound, and the copy the same as the channel.
LEMMA ModeKeepsCopy ==
  ASSUME NEW ch \in ChannelType(Fd, Text), Sound(ch), NEW line \in LineType(Text)
  PROVE  LET reqs    == Requests(ch, line, Who)
             changed == ApplyModes(ch, reqs, Who)
             next    == EnsureOperator(changed)
         IN  /\ next \in ChannelType(Fd, Text) /\ Sound(next)
             /\ FoldLeft(Heard, ch, Letters(reqs, Promoted(changed))) = next
<1> DEFINE reqs    == Requests(ch, line, Who)
           changed == ApplyModes(ch, reqs, Who)
           next    == EnsureOperator(changed)
           p       == Promoted(changed)
           letters == Announced(reqs)
           extra   == [sign |-> "+", mode |-> "o", arg |-> NameOf[p]]
           T       == {r \in Range(reqs) : TakesEffect(r)}
<1>1. Consistent(ch) /\ ch.members # {}
  BY DEF Sound, Consistent, HasOperator
<1>2. changed \in ChannelType(Fd, Text) /\ Consistent(changed) /\ changed.members = ch.members
  BY <1>1, MembersAssumption, ApplyModesKeepsMembers
<1>3. FoldLeft(Heard, ch, letters) = changed
  BY <1>1, ReadingIsApplying
<1>4. letters \in Seq(T) /\ \A r \in T : Sayable(r)
  BY AnnouncedIsSayable
<1>5. Letters(reqs, p) = letters \o IF p = NoFd THEN <<>> ELSE <<extra>>
  BY DEF Letters
<1>6. /\ p = NoFd => next = changed
      /\ p # NoFd => Sayable(extra) /\ Heard(changed, extra) = next
  <2> HIDE DEF changed
  <2> QED BY <1>2, PromotionIsHeard
<1> HIDE DEF reqs, changed, letters, p, T, extra
<1>7. next \in ChannelType(Fd, Text) /\ Sound(next)
  BY <1>1, <1>2, MembersAssumption, EnsureOperatorEnsures
<1> HIDE DEF next
<1>8. FoldLeft(Heard, ch, Letters(reqs, p)) = next
  <2>1. CASE p = NoFd
    <3>1. Letters(reqs, p) = letters
      BY <1>4, <1>5, <2>1
    <3> QED BY <1>3, <1>6, <2>1, <3>1
  <2>2. CASE p # NoFd
    <3> DEFINE R == T \cup {extra}
    <3>1. letters \in Seq(R)
      BY <1>4
    <3>2. \A r \in R : Sayable(r)
      BY <1>4, <1>6, <2>2
    <3>3. extra \in R
      OBVIOUS
    <3>4. Letters(reqs, p) = Append(letters, extra)
      <4>1. Letters(reqs, p) = letters \o <<extra>>
        BY <1>5, <2>2
      <4>2. letters \in Seq(R) /\ <<extra>> \in Seq(R)
        BY <3>1, <3>3
      <4> HIDE DEF R
      <4> QED BY <3>3, <4>1, <4>2, AppendIsConcat
    <3> HIDE DEF R
    <3>5. \A y \in R : FoldLeft(Heard, ch, Append(letters, y)) = Heard(FoldLeft(Heard, ch, letters), y)
      BY <3>1, <3>2, HeardSteps
    <3> QED BY <1>3, <1>6, <2>2, <3>3, <3>4, <3>5
  <2> QED BY <2>1, <2>2
<1> QED BY <1>7, <1>8 DEF reqs, changed, next, p

-----------------------------------------------------------------------------
\* What becomes of a letter: it takes effect, it is answered with the error of one of
\* the three groups, or its argument is there and empty.
Taken(ch, line) == {i \in DOMAIN line.items : TakesEffect(Requests(ch, line, Who)[i])}

Answered(ch, line, codes) == {i \in DOMAIN line.items : Complaint(ch, line, i, Who) \in codes}

\* Each letter has one of these fates, and one only.
LEMMA OneFateEach ==
  ASSUME NEW ch, NoFd \notin ch.members, NEW line \in LineType(Text), NEW i \in DOMAIN line.items
  PROVE  LET a == i \in Taken(ch, line)
             b == i \in Answered(ch, line, {"461"})
             c == i \in Answered(ch, line, {"696"})
             d == i \in Answered(ch, line, {"401", "441"})
             e == i \in EmptyArgs(line)
         IN  /\ a \/ b \/ c \/ d \/ e
             /\ a => ~ b /\ ~ c /\ ~ d /\ ~ e
             /\ b => ~ c /\ ~ d /\ ~ e
             /\ c => ~ d /\ ~ e
             /\ d => ~ e
<1> DEFINE item  == line.items[i]
           arg   == BoundArg(line, i)
           r     == Requests(ch, line, Who)[i]
           error == Complaint(ch, line, i, Who)
           needs == NeedsArg(item)
           has   == HasArg(line, i)
           usable == /\ arg # Empty
                     /\ item.mode = "l" => LimitOf[arg] > 0
                     /\ item.mode = "o" => Who[arg] \in ch.members
<1>1. item \in ModeItem
  BY DEF LineType
<1>2. arg \in Text \cup {Empty} /\ LimitOf \in [Text -> Nat]
  BY BoundArgType, MembersAssumption
<1>3. has => needs
  BY DEF HasArg
<1>4. ~ has => arg = Empty
  BY DEF BoundArg
<1>5. i \in Taken(ch, line) <=> ~ needs \/ usable
  <2>1. r = [sign |-> item.sign, mode |-> item.mode, arg |-> IF usable THEN arg ELSE Empty]
    BY DEF Requests
  <2>2. r.sign = item.sign /\ r.mode = item.mode /\ (r.arg # Empty <=> usable)
    <3> HIDE DEF item, arg, r
    <3> QED BY <2>1
  <2>3. TakesEffect(r) <=> ~ needs \/ usable
    BY <2>2 DEF TakesEffect, NeedsArg
  <2> QED BY <2>3 DEF Taken
<1>6. needs => \/ item.mode = "o"
               \/ item.mode \in {"k", "l"}
  BY DEF NeedsArg
<1>7. /\ needs /\ ~ has => error = "461"
      /\ ~ (needs /\ ~ has) /\ arg # Empty /\ item.mode = "l" /\ LimitOf[arg] = 0 => error = "696"
      /\ ~ (needs /\ ~ has) /\ arg # Empty /\ item.mode = "o" /\ Who[arg] = NoFd => error = "401"
      /\ ~ (needs /\ ~ has) /\ arg # Empty /\ item.mode = "o" /\ Who[arg] \notin ch.members \cup {NoFd}
           => error = "441"
      /\ \/ needs /\ ~ has
         \/ arg # Empty /\ item.mode = "l" /\ LimitOf[arg] = 0
         \/ arg # Empty /\ item.mode = "o" /\ Who[arg] = NoFd
         \/ arg # Empty /\ item.mode = "o" /\ Who[arg] \notin ch.members \cup {NoFd}
         \/ error = "none"
  <2> DEFINE g1 == needs /\ ~ has
             g2 == arg # Empty /\ item.mode = "l" /\ LimitOf[arg] = 0
             g3 == arg # Empty /\ item.mode = "o" /\ Who[arg] = NoFd
             g4 == arg # Empty /\ item.mode = "o" /\ Who[arg] \notin ch.members \cup {NoFd}
  <2>1. error = CASE g1 -> "461" [] g2 -> "696" [] g3 -> "401" [] g4 -> "441" [] OTHER -> "none"
    BY DEF Complaint
  <2>2. (g1 => ~ g2 /\ ~ g3 /\ ~ g4) /\ (g2 => ~ g3 /\ ~ g4) /\ (g3 => ~ g4)
    BY <1>4
  <2> SUFFICES /\ g1 => error = "461"
               /\ ~ g1 /\ g2 => error = "696"
               /\ ~ g1 /\ g3 => error = "401"
               /\ ~ g1 /\ g4 => error = "441"
               /\ g1 \/ g2 \/ g3 \/ g4 \/ error = "none"
    OBVIOUS
  <2> HIDE DEF g1, g2, g3, g4, error
  <2>3. CASE g1
    BY <2>1, <2>2, <2>3
  <2>4. CASE g2
    BY <2>1, <2>2, <2>4
  <2>5. CASE g3
    BY <2>1, <2>2, <2>5
  <2>6. CASE g4
    BY <2>1, <2>2, <2>6
  <2>7. CASE ~ g1 /\ ~ g2 /\ ~ g3 /\ ~ g4
    BY <2>1, <2>7
  <2> QED BY <2>3, <2>4, <2>5, <2>6, <2>7
<1>8. i \in EmptyArgs(line) <=> has /\ arg = Empty
  BY DEF EmptyArgs
<1>9. \A codes : i \in Answered(ch, line, codes) <=> error \in codes
  BY DEF Answered
<1> HIDE DEF item, arg, r, error, needs, has
<1>10. CASE ~ needs
  BY <1>3, <1>4, <1>5, <1>7, <1>8, <1>9, <1>10
<1>11. CASE needs /\ ~ has
  BY <1>4, <1>5, <1>7, <1>8, <1>9, <1>11
<1>12. CASE needs /\ has /\ arg = Empty
  BY <1>5, <1>7, <1>8, <1>9, <1>12
<1>13. CASE needs /\ has /\ arg # Empty
  <2>1. arg \in Text /\ LimitOf[arg] \in Nat
    BY <1>2, <1>13
  <2>2. CASE usable
    <3>1. error = "none"
      BY <1>7, <1>13, <2>1, <2>2
    <3> QED BY <1>5, <1>8, <1>9, <1>13, <2>2, <3>1
  <2>3. CASE ~ usable
    <3>1. error \in {"696", "401", "441"}
      BY <1>7, <1>13, <2>1, <2>3
    <3> QED BY <1>5, <1>8, <1>9, <1>13, <2>3, <3>1
  <2> QED BY <2>2, <2>3
<1> QED BY <1>10, <1>11, <1>12, <1>13

\* Five sets share no place of n and leave none out.
Parts(n, A, B, C, D, E) ==
  /\ A \cup B \cup C \cup D \cup E = 1 .. n
  /\ A \cap B = {} /\ (A \cup B) \cap C = {} /\ (A \cup B \cup C) \cap D = {}
  /\ (A \cup B \cup C \cup D) \cap E = {}

\* They have as many places as there are.
LEMMA FiveParts ==
  ASSUME NEW n \in Nat, NEW A, NEW B, NEW C, NEW D, NEW E, Parts(n, A, B, C, D, E)
  PROVE  /\ Cardinality(A) \in Nat /\ Cardinality(B) \in Nat /\ Cardinality(C) \in Nat
         /\ Cardinality(D) \in Nat /\ Cardinality(E) \in Nat
         /\ n = Cardinality(A) + Cardinality(B) + Cardinality(C) + Cardinality(D) + Cardinality(E)
<1> USE DEF Parts
<1>1. IsFiniteSet(1 .. n) /\ Cardinality(1 .. n) = n
  BY FS_Interval
<1>2. /\ A \subseteq 1 .. n /\ B \subseteq 1 .. n /\ C \subseteq 1 .. n
      /\ D \subseteq 1 .. n /\ E \subseteq 1 .. n
  OBVIOUS
<1>3. /\ IsFiniteSet(A) /\ IsFiniteSet(B) /\ IsFiniteSet(C) /\ IsFiniteSet(D) /\ IsFiniteSet(E)
  BY <1>1, <1>2, FS_Subset
<1>4. /\ Cardinality(A) \in Nat /\ Cardinality(B) \in Nat /\ Cardinality(C) \in Nat
      /\ Cardinality(D) \in Nat /\ Cardinality(E) \in Nat /\ Cardinality({}) = 0
  BY <1>3, FS_CardinalityType, FS_EmptySet
<1>5. ASSUME NEW S, NEW T, IsFiniteSet(S), IsFiniteSet(T), S \cap T = {},
             Cardinality(S) \in Nat, Cardinality(T) \in Nat
      PROVE  IsFiniteSet(S \cup T) /\ Cardinality(S \cup T) = Cardinality(S) + Cardinality(T)
  <2>1. /\ IsFiniteSet(S \cup T)
        /\ Cardinality(S \cup T) = Cardinality(S) + Cardinality(T) - Cardinality(S \cap T)
    BY <1>5, FS_Union
  <2>2. Cardinality(S \cap T) = 0
    BY <1>4, <1>5
  <2> QED BY <1>5, <2>1, <2>2
<1>6. IsFiniteSet(A \cup B) /\ Cardinality(A \cup B) = Cardinality(A) + Cardinality(B)
  BY <1>3, <1>4, <1>5
<1>7. IsFiniteSet(A \cup B \cup C) /\ Cardinality(A \cup B \cup C) = Cardinality(A \cup B) + Cardinality(C)
  <2> DEFINE S == A \cup B
  <2>1. S \cap C = {} /\ IsFiniteSet(S) /\ Cardinality(S) \in Nat
    BY <1>4, <1>6
  <2> HIDE DEF S
  <2>2. IsFiniteSet(S \cup C) /\ Cardinality(S \cup C) = Cardinality(S) + Cardinality(C)
    BY <1>3, <1>4, <1>5, <2>1
  <2> QED BY <2>2 DEF S
<1>8. /\ IsFiniteSet(A \cup B \cup C \cup D)
      /\ Cardinality(A \cup B \cup C \cup D) = Cardinality(A \cup B \cup C) + Cardinality(D)
  <2> DEFINE S == A \cup B \cup C
  <2>1. S \cap D = {} /\ IsFiniteSet(S) /\ Cardinality(S) \in Nat
    BY <1>4, <1>6, <1>7
  <2> HIDE DEF S
  <2>2. IsFiniteSet(S \cup D) /\ Cardinality(S \cup D) = Cardinality(S) + Cardinality(D)
    BY <1>3, <1>4, <1>5, <2>1
  <2> QED BY <2>2 DEF S
<1>9. Cardinality(1 .. n) = Cardinality(A \cup B \cup C \cup D) + Cardinality(E)
  <2> DEFINE S == A \cup B \cup C \cup D
  <2>1. S \cap E = {} /\ IsFiniteSet(S) /\ Cardinality(S) \in Nat /\ S \cup E = 1 .. n
    BY <1>4, <1>6, <1>7, <1>8
  <2> HIDE DEF S
  <2>2. Cardinality(S \cup E) = Cardinality(S) + Cardinality(E)
    BY <1>3, <1>4, <1>5, <2>1
  <2> QED BY <2>1, <2>2 DEF S
<1> QED BY <1>1, <1>4, <1>6, <1>7, <1>8, <1>9

\* Every letter is announced, answered, or had an empty argument.
LEMMA LettersCounted ==
  ASSUME NEW ch, NoFd \notin ch.members, NEW line \in LineType(Text)
  PROVE  /\ Len(line.items) \in Nat /\ Len(Announced(Requests(ch, line, Who))) \in Nat
         /\ Len(Complaints(ch, line, Who)) \in Nat /\ Cardinality(EmptyArgs(line)) \in Nat
         /\ Len(line.items) = Len(Announced(Requests(ch, line, Who)))
                                + Len(Complaints(ch, line, Who)) + Cardinality(EmptyArgs(line))
<1> DEFINE reqs  == Requests(ch, line, Who)
           n     == Len(line.items)
           T     == {r \in Range(reqs) : TakesEffect(r)}
           all   == [i \in DOMAIN line.items |-> Complaint(ch, line, i, Who)]
           Codes == {"461", "696", "401", "441", "none"}
           A == Taken(ch, line)
           B == Answered(ch, line, {"461"})
           C == Answered(ch, line, {"696"})
           D == Answered(ch, line, {"401", "441"})
           E == EmptyArgs(line)
<1>1. n \in Nat /\ DOMAIN line.items = 1 .. n /\ DOMAIN reqs = 1 .. n
  BY DEF LineType, Requests
<1>2. /\ A \subseteq 1 .. n /\ B \subseteq 1 .. n /\ C \subseteq 1 .. n
      /\ D \subseteq 1 .. n /\ E \subseteq 1 .. n
  BY <1>1 DEF Taken, Answered, EmptyArgs
<1>3. Len(Announced(reqs)) = Cardinality(A)
  <2>1. {i \in DOMAIN reqs : reqs[i] \in T} = A
    BY <1>1 DEF Range, Taken
  <2>2. reqs = [i \in 1 .. n |-> reqs[i]]
    BY <1>1 DEF Requests
  <2> HIDE DEF reqs, n, A
  <2>3. reqs \in Seq(Range(reqs))
    <3>1. reqs \in [1 .. n -> Range(reqs)]
      BY <1>1, <2>2 DEF Range
    <3> QED BY <1>1, <3>1
  <2>4. Announced(reqs) = Kept(reqs, T)
    BY DEF Announced
  <2> HIDE DEF T
  <2> QED BY <2>1, <2>3, <2>4, KeptLength
<1>4. \A i \in 1 .. n : Complaint(ch, line, i, Who) \in Codes
  BY DEF Complaint
<1>5. all \in Seq(Codes) /\ DOMAIN all = 1 .. n
  <2>1. all \in [1 .. n -> Codes]
    BY <1>1, <1>4
  <2> HIDE DEF all, Codes
  <2> QED BY <1>1, <2>1
<1>6. ASSUME NEW codes
      PROVE  Kept(all, codes) \in Seq(Codes) /\ Len(Kept(all, codes)) = Cardinality(Answered(ch, line, codes))
  <2>1. {i \in DOMAIN all : all[i] \in codes} = Answered(ch, line, codes)
    BY <1>1 DEF Answered
  <2> HIDE DEF all, Codes
  <2>2. Len(Kept(all, codes)) = Cardinality(Answered(ch, line, codes))
    BY <1>5, <2>1, KeptLength
  <2>3. Kept(all, codes) \in Seq(Codes \cap codes)
    BY <1>5, KeptKeeps
  <2>4. Kept(all, codes) \in Seq(Codes)
    BY <2>3
  <2> QED BY <2>2, <2>4
<1>7. Len(Complaints(ch, line, Who)) = Cardinality(B) + Cardinality(C) + Cardinality(D)
  <2> DEFINE k1 == Kept(all, {"461"})
             k2 == Kept(all, {"696"})
             k3 == Kept(all, {"401", "441"})
  <2>1. Complaints(ch, line, Who) = k1 \o k2 \o k3
    BY DEF Complaints
  <2>2. /\ k1 \in Seq(Codes) /\ k2 \in Seq(Codes) /\ k3 \in Seq(Codes)
        /\ Len(k1) = Cardinality(B) /\ Len(k2) = Cardinality(C) /\ Len(k3) = Cardinality(D)
    BY <1>6
  <2> HIDE DEF k1, k2, k3, Codes, B, C, D
  <2>3. k1 \o k2 \in Seq(Codes) /\ Len(k1 \o k2) = Len(k1) + Len(k2)
    BY <2>2, ConcatProperties
  <2>4. Len(k1 \o k2 \o k3) = Len(k1 \o k2) + Len(k3)
    BY <2>2, <2>3, ConcatProperties
  <2> QED BY <2>1, <2>2, <2>3, <2>4
<1>8. ASSUME NEW i \in 1 .. n
      PROVE  /\ i \in A \/ i \in B \/ i \in C \/ i \in D \/ i \in E
             /\ i \in A => i \notin B /\ i \notin C /\ i \notin D /\ i \notin E
             /\ i \in B => i \notin C /\ i \notin D /\ i \notin E
             /\ i \in C => i \notin D /\ i \notin E
             /\ i \in D => i \notin E
  BY <1>1, OneFateEach
<1> HIDE DEF A, B, C, D, E, n, reqs
<1>9. Parts(n, A, B, C, D, E)
  BY <1>2, <1>8 DEF Parts
<1>10. /\ Cardinality(A) \in Nat /\ Cardinality(B) \in Nat /\ Cardinality(C) \in Nat
       /\ Cardinality(D) \in Nat /\ Cardinality(E) \in Nat
       /\ n = Cardinality(A) + Cardinality(B) + Cardinality(C) + Cardinality(D) + Cardinality(E)
  BY <1>1, <1>9, FiveParts
<1> QED BY <1>1, <1>3, <1>7, <1>10 DEF E, n, reqs

-----------------------------------------------------------------------------
\* The copy is the channel, which is sound, and no letter is left unanswered.
ModeInv == TypeOK /\ Sound(channel) /\ told = channel /\ unanswered = 0

\* When all have joined, the first of them is the operator.
LEMMA ModeStarts ==
  ASSUME Init PROVE ModeInv
<1>1. PICK order \in SetToSeqs(Fd) :
        channel = [NewChannel EXCEPT !.members = Fd, !.joinOrder = order, !.ops = {order[1]}]
  BY DEF Init
<1>2. /\ order \in Seq(Fd) /\ order[1] \in Fd
      /\ Fd = {order[i] : i \in DOMAIN order}
      /\ \A i, j \in DOMAIN order : order[i] = order[j] => i = j
  BY OrderIsAJoinOrder
<1>3. /\ channel.members = Fd /\ channel.joinOrder = order /\ channel.ops = {order[1]}
      /\ channel.invited = {}
  BY <1>1 DEF NewChannel
<1>4. channel \in ChannelType(Fd, Text)
  BY <1>1, <1>2 DEF NewChannel, ChannelType
<1>5. JoinOrderAgrees(channel)
  BY <1>2, <1>3 DEF JoinOrderAgrees
<1>6. HasOperator(channel) /\ InvitationsPending(channel)
  BY <1>2, <1>3 DEF HasOperator, InvitationsPending
<1> QED BY <1>4, <1>5, <1>6 DEF Init, ModeInv, TypeOK, Sound

\* One more line keeps it so.
LEMMA ModeKeepsInv ==
  ASSUME ModeInv, [Next]_vars PROVE ModeInv'
<1>1. CASE UNCHANGED vars
  BY <1>1 DEF ModeInv, TypeOK, vars
<1>2. CASE Next
  <2>1. PICK typed \in ModeLine : Mode(typed)
    BY <1>2 DEF Next
  <2> DEFINE line    == Parsed(typed)
             reqs    == Requests(channel, line, Who)
             changed == ApplyModes(channel, reqs, Who)
             next    == EnsureOperator(changed)
             letters == Letters(reqs, Promoted(changed))
  <2>2. line \in LineType(Text) /\ typed.items \in Seq(Letter)
    BY ParsedType
  <2>3. channel \in ChannelType(Fd, Text) /\ Sound(channel) /\ told = channel
    BY DEF ModeInv, TypeOK
  <2>4. /\ next \in ChannelType(Fd, Text) /\ Sound(next)
        /\ FoldLeft(Heard, channel, letters) = next
    <3> HIDE DEF line
    <3> QED BY <2>2, <2>3, ModeKeepsCopy
  <2>5. channel' = next /\ told' = FoldLeft(Heard, told, letters)
    BY <2>1 DEF Mode
  <2>6. told' = next
    BY <2>3, <2>4, <2>5
  <2>7. unanswered' = 0
    <3>1. NoFd \notin channel.members
      BY <2>3, MembersAssumption DEF ChannelType
    <3>2. /\ Len(line.items) \in Nat /\ Len(Announced(reqs)) \in Nat
          /\ Len(Complaints(channel, line, Who)) \in Nat /\ Cardinality(EmptyArgs(line)) \in Nat
          /\ Len(line.items) = Len(Announced(reqs)) + Len(Complaints(channel, line, Who))
                                 + Cardinality(EmptyArgs(line))
      <4> HIDE DEF line
      <4> QED BY <2>2, <3>1, LettersCounted
    <3>3. Len(typed.items) \in Nat /\ Strange(typed) = Len(typed.items) - Len(line.items)
      BY <2>2 DEF Strange
    <3>4. unanswered' = Len(typed.items) - Strange(typed) - Len(Announced(reqs))
                         - Len(Complaints(channel, line, Who)) - Cardinality(EmptyArgs(line))
      BY <2>1 DEF Mode
    <3> HIDE DEF line, reqs
    <3> QED BY <3>2, <3>3, <3>4
  <2> HIDE DEF next, letters
  <2> QED BY <2>4, <2>5, <2>6, <2>7 DEF ModeInv, TypeOK
<1> QED BY <1>1, <1>2

\* In every reachable state the copy is the channel and every letter was answered.
THEOREM ModeInvariantHolds == Spec => []ModeInv
<1>1. Init => ModeInv
  BY ModeStarts
<1>2. ModeInv /\ [Next]_vars => ModeInv'
  BY ModeKeepsInv
<1> QED BY <1>1, <1>2, PTL DEF Spec

\* The channel, its copy and the count of letters are what their declarations say.
THEOREM ModeTypeOKHolds == Spec => []TypeOK
<1>1. ModeInv => TypeOK
  BY DEF ModeInv
<1> QED BY <1>1, ModeInvariantHolds, PTL

\* A member who applies every MODE message from left to right knows the channel, though
\* the server applied the letters of each line grouped by mode (ModeCommand.cpp:206-310).
THEOREM AnnouncementIsCompleteHolds == Spec => []AnnouncementIsComplete
<1>1. ModeInv => AnnouncementIsComplete
  BY DEF ModeInv, AnnouncementIsComplete
<1> QED BY <1>1, ModeInvariantHolds, PTL

\* No line of letters takes the last operator away or makes one of a stranger.
THEOREM ModesKeepChannelSoundHolds == Spec => []ModesKeepChannelSound
<1>1. ModeInv => ModesKeepChannelSound
  BY DEF ModeInv, ModesKeepChannelSound
<1> QED BY <1>1, ModeInvariantHolds, PTL

\* The letters of any line that are announced and those answered with an error add up to
\* all of its letters but those given an empty argument.  OneFateEach, above, has it for
\* each letter.
THEOREM LettersAreAnsweredHolds == Spec => []LettersAreAnswered
<1>1. ModeInv => LettersAreAnswered
  BY DEF ModeInv, LettersAreAnswered
<1> QED BY <1>1, ModeInvariantHolds, PTL

=============================================================================
