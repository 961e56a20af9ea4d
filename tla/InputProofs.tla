----------------------------- MODULE InputProofs ------------------------------
(***************************************************************************)
(* What the framer and the parser make of the bytes of a client, for any   *)
(* bytes, of any number, cut in any way.                                   *)
(***************************************************************************)
EXTENDS Input, SequenceTheorems, TLAPS, WellFoundedInduction

-----------------------------------------------------------------------------
(* Naturals: the least of a set, and two ways to reach all of them.        *)

\* A nonempty set of naturals has a least element, and Min is that.
LEMMA MinIsLeast ==
  ASSUME NEW S, S \subseteq Nat, S # {}
  PROVE  Min(S) \in S /\ \A k \in S : Min(S) <= k
<1> DEFINE R == OpToRel(<, Nat)
<1>1. IsWellFoundedOn(R, Nat)
  BY NatLessThanWellFounded
<1>2. \A x, y \in Nat : y < x => <<y, x>> \in R
  BY DEF OpToRel
<1> HIDE DEF R
<1>3. PICK m \in S : \A k \in S : ~ (<<k, m>> \in R)
  BY <1>1, WFMin
<1>4. ASSUME NEW k \in S PROVE m <= k
  <2>1. m \in Nat /\ k \in Nat /\ ~ (k < m)
    BY <1>2, <1>3
  <2> QED BY <2>1
<1> QED BY <1>4 DEF Min

\* Up from 0.
LEMMA UpInduction ==
  ASSUME NEW n \in Nat, NEW S, 0 \in S, \A k \in 0 .. n - 1 : k \in S => k + 1 \in S
  PROVE  \A k \in 0 .. n : k \in S
<1> SUFFICES ASSUME NEW j \in 0 .. n, j \notin S PROVE FALSE
  OBVIOUS
<1> DEFINE Out == {k \in 0 .. n : k \notin S}
           m   == Min(Out)
<1>1. m \in Out /\ \A k \in Out : m <= k
  BY MinIsLeast
<1> HIDE DEF m
<1>2. m # 0 /\ m - 1 \in 0 .. n - 1 /\ ~ (m <= m - 1) /\ (m - 1) + 1 = m
  BY <1>1
<1>3. m - 1 \in S
  BY <1>1, <1>2
<1> QED BY <1>1, <1>2, <1>3

\* Down from n: what holds of i if it holds of all above it.
LEMMA DownInduction ==
  ASSUME NEW n \in Nat, NEW S, \A i \in 1 .. n : (\A j \in i + 1 .. n : j \in S) => i \in S
  PROVE  \A i \in 1 .. n : i \in S
<1> SUFFICES ASSUME NEW x \in 1 .. n, x \notin S PROVE FALSE
  OBVIOUS
<1> DEFINE Out == {d \in Nat : n - d \in 1 .. n /\ n - d \notin S}
           m   == Min(Out)
<1>1. n - x \in Out
  <2>1. n - x \in Nat /\ n - (n - x) = x
    OBVIOUS
  <2> QED BY <2>1
<1>2. m \in Out /\ \A d \in Out : m <= d
  BY <1>1, MinIsLeast
<1> HIDE DEF m
<1>3. n - m \in 1 .. n /\ n - m \notin S /\ m \in Nat
  BY <1>2
<1>4. ASSUME NEW j \in n - m + 1 .. n PROVE j \in S
  <2>1. n - j \in Nat /\ n - (n - j) = j /\ ~ (m <= n - j) /\ j \in 1 .. n
    BY <1>3
  <2> QED BY <1>2, <2>1
<1> QED BY <1>3, <1>4

-----------------------------------------------------------------------------
(* Recursive functions exist.                                              *)

\* f is computed from base, one index after the other.
Climbs(f, n, base, step) ==
  f[0] = base /\ \A k \in 0 .. n - 1 : f[k + 1] = step[<<f[k], k + 1>>]

\* Such a function exists.
LEMMA ClimbExists ==
  ASSUME NEW A, NEW n \in Nat, NEW base \in A, NEW step \in [A \X (1 .. n) -> A]
  PROVE  \E f \in [0 .. n -> A] : Climbs(f, n, base, step)
<1> DEFINE Upto(m) == \E f \in [0 .. m -> A] : Climbs(f, m, base, step)
           S == {m \in Nat : Upto(m)}
<1>1. Upto(0)
  <2> DEFINE f == [k \in 0 .. 0 |-> base]
  <2>1. f \in [0 .. 0 -> A] /\ Climbs(f, 0, base, step)
    BY DEF Climbs
  <2> HIDE DEF f
  <2> QED BY <2>1
<1>2. ASSUME NEW m \in 0 .. n - 1, Upto(m) PROVE Upto(m + 1)
  <2>1. PICK f \in [0 .. m -> A] : Climbs(f, m, base, step)
    BY <1>2
  <2> DEFINE g == [k \in 0 .. m + 1 |-> IF k = m + 1 THEN step[<<f[m], m + 1>>] ELSE f[k]]
  <2>2. f[m] \in A /\ m + 1 \in 1 .. n
    OBVIOUS
  <2>3. step[<<f[m], m + 1>>] \in A
    BY <2>2
  <2>4. g \in [0 .. m + 1 -> A]
    BY <2>3
  <2>5. g[0] = base
    BY <2>1 DEF Climbs
  <2>6. ASSUME NEW k \in 0 .. (m + 1) - 1 PROVE g[k + 1] = step[<<g[k], k + 1>>]
    <3>1. CASE k = m
      <4>1. g[m + 1] = step[<<f[m], m + 1>>] /\ g[m] = f[m]
        OBVIOUS
      <4> HIDE DEF g
      <4> QED BY <3>1, <4>1
    <3>2. CASE k # m
      <4>1. k \in 0 .. m - 1 /\ g[k] = f[k] /\ g[k + 1] = f[k + 1]
        BY <3>2
      <4> HIDE DEF g
      <4> QED BY <2>1, <4>1 DEF Climbs
    <3> QED BY <3>1, <3>2
  <2> HIDE DEF g
  <2> QED BY <2>4, <2>5, <2>6 DEF Climbs
<1> HIDE DEF Upto
<1>3. n \in S
  <2>1. 0 \in S /\ \A k \in 0 .. n - 1 : k \in S => k + 1 \in S
    BY <1>1, <1>2
  <2> HIDE DEF S
  <2> QED BY <2>1, UpInduction
<1> QED BY <1>3 DEF Upto

\* f ends at the indices in ends, and elsewhere is computed from its value further on.
Descends(f, n, ends, base, next, step) ==
  \A i \in 1 .. n : f[i] = IF i \in ends THEN base[i] ELSE step[<<f[next[i]], i>>]

\* Such a function exists.
LEMMA DescentExists ==
  ASSUME NEW A, NEW n \in Nat, NEW ends, NEW base \in [1 .. n -> A],
         NEW next, \A i \in 1 .. n : i \notin ends => next[i] \in i + 1 .. n,
         NEW step \in [A \X (1 .. n) -> A]
  PROVE  \E f \in [1 .. n -> A] : Descends(f, n, ends, base, next, step)
<1> DEFINE value(f, i) == IF i \in ends THEN base[i] ELSE step[<<f[next[i]], i>>]
           From(m) == \E f \in [n - m + 1 .. n -> A] :
                        \A i \in n - m + 1 .. n : f[i] = value(f, i)
           S == {m \in Nat : From(m)}
<1>1. From(0)
  <2> DEFINE f == [i \in n - 0 + 1 .. n |-> base[i]]
  <2>1. \A i \in n - 0 + 1 .. n : FALSE
    OBVIOUS
  <2>2. f \in [n - 0 + 1 .. n -> A] /\ \A i \in n - 0 + 1 .. n : f[i] = value(f, i)
    BY <2>1
  <2> HIDE DEF f, value
  <2> QED BY <2>2
<1>2. ASSUME NEW m \in 0 .. n - 1, From(m) PROVE From(m + 1)
  <2> DEFINE b == n - m
  <2>1. /\ b \in 1 .. n /\ n - (m + 1) + 1 = b /\ n - m + 1 = b + 1
        /\ \A i \in b .. n : i \in 1 .. n /\ (i # b => i \in b + 1 .. n)
        /\ \A i \in b + 1 .. n : i \in b .. n
    OBVIOUS
  <2>2. PICK f \in [b + 1 .. n -> A] : \A i \in b + 1 .. n : f[i] = value(f, i)
    <3> HIDE DEF value
    <3> QED BY <1>2, <2>1
  <2> HIDE DEF b
  <2> DEFINE g == [i \in b .. n |-> IF i = b THEN value(f, b) ELSE f[i]]
  <2>3. ASSUME NEW i \in b .. n, i \notin ends
        PROVE  next[i] \in b + 1 .. n /\ f[next[i]] \in A /\ g[next[i]] = f[next[i]]
    <3>1. next[i] \in i + 1 .. n
      BY <2>1, <2>3
    <3>2. next[i] \in b + 1 .. n /\ next[i] \in b .. n /\ next[i] # b
      BY <2>1, <3>1
    <3> QED BY <3>2
  <2>4. value(f, b) \in A
    <3>1. CASE b \in ends
      BY <2>1, <3>1
    <3>2. CASE b \notin ends
      <4>1. b \in b .. n
        BY <2>1
      <4>2. f[next[b]] \in A
        BY <2>3, <3>2, <4>1
      <4> QED BY <2>1, <3>2, <4>2
    <3> QED BY <3>1, <3>2
  <2>5. ASSUME NEW i \in b .. n PROVE g[i] = value(f, i)
    <3>1. CASE i = b
      <4> HIDE DEF value
      <4> QED BY <3>1
    <3>2. CASE i # b
      <4>1. i \in b + 1 .. n /\ g[i] = f[i]
        BY <2>1, <3>2
      <4> HIDE DEF value, g
      <4> QED BY <2>2, <4>1
    <3> QED BY <3>1, <3>2
  <2>6. \A i \in b .. n : value(g, i) = value(f, i)
    <3> HIDE DEF g
    <3> QED BY <2>3
  <2>7. g \in [b .. n -> A]
    <3>1. \A i \in b .. n : (IF i = b THEN value(f, b) ELSE f[i]) \in A
      <4> HIDE DEF value
      <4> QED BY <2>1, <2>4
    <3> HIDE DEF value
    <3> QED BY <3>1
  <2>8. \A i \in b .. n : g[i] = value(g, i)
    <3> HIDE DEF g, value
    <3> QED BY <2>5, <2>6
  <2> HIDE DEF g, value
  <2> QED BY <2>1, <2>7, <2>8
<1> HIDE DEF From
<1>3. n \in S
  <2>1. 0 \in S /\ \A k \in 0 .. n - 1 : k \in S => k + 1 \in S
    BY <1>1, <1>2
  <2> HIDE DEF S
  <2>2. \A k \in 0 .. n : k \in S
    BY <2>1, UpInduction
  <2> QED BY <2>2
<1>4. From(n)
  BY <1>3
<1>5. n - n + 1 = 1
  OBVIOUS
<1> HIDE DEF value
<1>6. \E f \in [1 .. n -> A] : \A i \in 1 .. n : f[i] = value(f, i)
  BY <1>4, <1>5 DEF From
<1> QED BY <1>6 DEF Descends, value

-----------------------------------------------------------------------------
(* Sequences of sequences, one after the other.                            *)

\* Where the members of s \o t come from.
LEMMA ConcatAt ==
  ASSUME NEW B, NEW s \in Seq(B), NEW t \in Seq(B)
  PROVE  /\ s \o t \in Seq(B) /\ Len(s \o t) = Len(s) + Len(t)
         /\ Len(s) \in Nat /\ Len(t) \in Nat
         /\ \A i \in 1 .. Len(s) : (s \o t)[i] = s[i]
         /\ \A i \in 1 .. Len(t) : (s \o t)[Len(s) + i] = t[i]
OBVIOUS

\* g holds what the first members of seqs make.
Traces(g, seqs) ==
  /\ g[0] = <<>>
  /\ \A k \in 0 .. Len(seqs) - 1 : g[k + 1] = g[k] \o seqs[k + 1]

\* What FlattenSeq computes.
LEMMA FlattenTrace ==
  ASSUME NEW B, NEW seqs \in Seq(Seq(B))
  PROVE  \E g \in [0 .. Len(seqs) -> Seq(B)] :
           Traces(g, seqs) /\ FlattenSeq(seqs) = g[Len(seqs)]
<1> DEFINE n    == Len(seqs)
           step == [p \in Seq(B) \X (1 .. n) |-> p[1] \o seqs[p[2]]]
           body(f) == [i \in 1 .. n |-> IF i = 1 THEN seqs[i] ELSE f[i - 1] \o seqs[i]]
<1>1. n \in Nat /\ <<>> \in Seq(B) /\ \A i \in 1 .. n : seqs[i] \in Seq(B)
  OBVIOUS
<1>2. step \in [Seq(B) \X (1 .. n) -> Seq(B)]
  <2>1. ASSUME NEW p \in Seq(B) \X (1 .. n) PROVE p[1] \o seqs[p[2]] \in Seq(B)
    <3>1. p[1] \in Seq(B) /\ seqs[p[2]] \in Seq(B)
      BY <1>1
    <3> QED BY <3>1
  <2> QED BY <2>1
<1>3. \A a \in Seq(B), k \in 1 .. n : step[<<a, k>>] = a \o seqs[k]
  OBVIOUS
<1> HIDE DEF step, n
<1>4. PICK g \in [0 .. n -> Seq(B)] : Climbs(g, n, <<>>, step)
  BY <1>1, <1>2, ClimbExists
<1>5. g[0] = <<>> /\ \A k \in 0 .. n - 1 : g[k] \in Seq(B) /\ k + 1 \in 1 .. n
  BY <1>1, <1>4 DEF Climbs
<1>6. ASSUME NEW k \in 0 .. n - 1 PROVE g[k + 1] = g[k] \o seqs[k + 1]
  <2>1. g[k + 1] = step[<<g[k], k + 1>>]
    BY <1>4 DEF Climbs
  <2> QED BY <1>3, <1>5, <2>1
<1>7. Traces(g, seqs)
  BY <1>5, <1>6 DEF Traces, n
<1>8. CASE n = 0
  <2>1. FlattenSeq(seqs) = <<>>
    BY <1>8 DEF FlattenSeq, n
  <2> QED BY <1>5, <1>7, <1>8, <2>1 DEF n
<1>9. CASE n # 0
  <2> DEFINE f  == [i \in 1 .. n |-> g[i]]
             fl == CHOOSE x : x = body(x)
  <2>1. f = body(f)
    <3>1. ASSUME NEW i \in 1 .. n
          PROVE  f[i] = IF i = 1 THEN seqs[i] ELSE f[i - 1] \o seqs[i]
      <4>1. i - 1 \in 0 .. n - 1 /\ (i - 1) + 1 = i /\ n \in Nat
        BY <1>1
      <4>2. g[i] = g[i - 1] \o seqs[i]
        BY <1>6, <4>1
      <4>3. CASE i = 1
        <5>1. g[i] = <<>> \o seqs[1]
          <6>1. i - 1 = 0
            BY <4>3
          <6>2. g[i - 1] = <<>> /\ seqs[i] = seqs[1]
            BY <1>5, <4>3, <6>1
          <6> QED BY <4>2, <6>2
        <5> QED BY <1>1, <4>3, <5>1, ConcatEmptySeq
      <4>4. CASE i # 1
        <5>1. i - 1 \in 1 .. n
          BY <4>1, <4>4
        <5> QED BY <4>2, <4>4, <5>1
      <4> QED BY <4>3, <4>4
    <3> QED BY <3>1
  <2>2. fl = body(fl)
    <3> HIDE DEF f, body
    <3> QED BY <2>1
  <2> HIDE DEF f
  <2>3. fl[1] = seqs[1] /\ \A i \in 1 .. n - 1 : fl[i + 1] = fl[i] \o seqs[i + 1]
    <3> HIDE DEF fl
    <3>1. \A i \in 1 .. n : fl[i] = IF i = 1 THEN seqs[i] ELSE fl[i - 1] \o seqs[i]
      BY <2>2
    <3> HIDE DEF body
    <3>2. 1 \in 1 .. n
      BY <1>1, <1>9
    <3>3. ASSUME NEW i \in 1 .. n - 1 PROVE fl[i + 1] = fl[i] \o seqs[i + 1]
      <4>1. i + 1 \in 1 .. n /\ i + 1 # 1 /\ (i + 1) - 1 = i
        BY <1>1
      <4> QED BY <3>1, <4>1
    <3> QED BY <3>1, <3>2, <3>3
  <2>4. FlattenSeq(seqs) = fl[n]
    BY <1>9 DEF FlattenSeq, n
  <2> HIDE DEF fl, body
  <2> DEFINE S == {k \in Nat : k = 0 \/ fl[k] = g[k]}
  <2>5. 0 \in S
    OBVIOUS
  <2>6. ASSUME NEW k \in 0 .. n - 1, k \in S PROVE k + 1 \in S
    <3>1. CASE k = 0
      <4>1. g[1] = <<>> \o seqs[1]
        <5>1. 0 \in 0 .. n - 1 /\ 0 + 1 = 1
          BY <1>1, <1>9
        <5>2. g[0 + 1] = g[0] \o seqs[0 + 1]
          BY <1>6, <5>1
        <5> QED BY <1>5, <5>1, <5>2
      <4>2. seqs[1] \in Seq(B)
        BY <1>1, <1>9
      <4>3. fl[1] = g[1]
        BY <2>3, <4>1, <4>2, ConcatEmptySeq
      <4> QED BY <3>1, <4>3
    <3>2. CASE k # 0
      <4>1. k \in 1 .. n - 1 /\ fl[k] = g[k]
        BY <2>6, <3>2
      <4>2. fl[k + 1] = g[k + 1]
        BY <1>6, <2>3, <4>1
      <4> QED BY <4>2
    <3> QED BY <3>1, <3>2
  <2>7. \A k \in 0 .. n : k \in S
    <3> HIDE DEF S
    <3> QED BY <1>1, <2>5, <2>6, UpInduction
  <2>8. fl[n] = g[n]
    BY <1>1, <1>9, <2>7
  <2> QED BY <1>7, <2>4, <2>8 DEF n
<1> QED BY <1>8, <1>9

\* What two members of a trace with the same steps have in common.
LEMMA FlattenConcat ==
  ASSUME NEW B, NEW s \in Seq(Seq(B)), NEW t \in Seq(Seq(B))
  PROVE  FlattenSeq(s \o t) = FlattenSeq(s) \o FlattenSeq(t)
<1> DEFINE m == Len(s)
           n == Len(t)
<1>1. /\ m \in Nat /\ n \in Nat /\ s \o t \in Seq(Seq(B)) /\ Len(s \o t) = m + n
      /\ \A k \in 1 .. m : (s \o t)[k] = s[k]
      /\ \A k \in 1 .. n : (s \o t)[m + k] = t[k] /\ t[k] \in Seq(B)
  OBVIOUS
<1> DEFINE st == s \o t
<1>2. PICK g \in [0 .. m -> Seq(B)] : Traces(g, s) /\ FlattenSeq(s) = g[m]
  BY FlattenTrace
<1>3. PICK h \in [0 .. n -> Seq(B)] : Traces(h, t) /\ FlattenSeq(t) = h[n]
  BY FlattenTrace
<1>4. PICK f \in [0 .. m + n -> Seq(B)] : Traces(f, st) /\ FlattenSeq(st) = f[m + n]
  <2>1. st \in Seq(Seq(B)) /\ Len(st) = m + n
    BY <1>1
  <2> HIDE DEF st, m, n
  <2> QED BY <2>1, FlattenTrace
<1>5. /\ g[0] = <<>> /\ \A k \in 0 .. m - 1 : g[k + 1] = g[k] \o s[k + 1]
      /\ h[0] = <<>> /\ \A k \in 0 .. n - 1 : h[k + 1] = h[k] \o t[k + 1]
      /\ f[0] = <<>> /\ \A k \in 0 .. (m + n) - 1 : f[k + 1] = f[k] \o st[k + 1]
  BY <1>1, <1>2, <1>3, <1>4 DEF Traces
<1>6. /\ \A k \in 1 .. m : st[k] = s[k]
      /\ \A k \in 1 .. n : st[m + k] = t[k] /\ t[k] \in Seq(B)
  BY <1>1
<1> HIDE DEF st, m, n
<1> DEFINE S == {k \in Nat : f[k] = g[k]}
           T == {k \in Nat : f[m + k] = g[m] \o h[k]}
<1>7. \A k \in 0 .. m : k \in S
  <2>1. 0 \in S
    BY <1>5
  <2>2. ASSUME NEW k \in 0 .. m - 1, k \in S PROVE k + 1 \in S
    <3>1. k \in 0 .. (m + n) - 1 /\ k + 1 \in 1 .. m
      BY <1>1
    <3>2. f[k + 1] = f[k] \o st[k + 1] /\ g[k + 1] = g[k] \o s[k + 1] /\ st[k + 1] = s[k + 1]
      BY <1>5, <1>6, <3>1
    <3>3. f[k] = g[k]
      BY <2>2
    <3>4. f[k + 1] = g[k + 1]
      BY <3>2, <3>3
    <3>5. k + 1 \in Nat
      BY <3>1
    <3> QED BY <3>4, <3>5
  <2> HIDE DEF S
  <2> QED BY <1>1, <2>1, <2>2, UpInduction
<1>8. g[m] \in Seq(B) /\ f[m] = g[m]
  BY <1>1, <1>7
<1>9. \A k \in 0 .. n : k \in T
  <2>1. 0 \in T
    <3>1. m + 0 = m
      BY <1>1
    <3>2. g[m] \o h[0] = g[m]
      BY <1>5, <1>8, ConcatEmptySeq
    <3>3. f[m + 0] = g[m] \o h[0]
      BY <1>8, <3>1, <3>2
    <3> QED BY <3>3
  <2>2. ASSUME NEW k \in 0 .. n - 1, k \in T PROVE k + 1 \in T
    <3>1. /\ m + k \in 0 .. (m + n) - 1 /\ k + 1 \in 1 .. n /\ (m + k) + 1 = m + (k + 1)
          /\ k \in 0 .. n
      BY <1>1
    <3>2. f[m + (k + 1)] = f[m + k] \o t[k + 1] /\ h[k + 1] = h[k] \o t[k + 1]
      <4>1. f[(m + k) + 1] = f[m + k] \o st[(m + k) + 1]
        BY <1>5, <3>1
      <4>2. st[m + (k + 1)] = t[k + 1]
        BY <1>6, <3>1
      <4>3. f[m + (k + 1)] = f[m + k] \o t[k + 1]
        BY <3>1, <4>1, <4>2
      <4>4. k \in 0 .. n - 1
        OBVIOUS
      <4> QED BY <1>5, <4>3, <4>4
    <3>3. h[k] \in Seq(B) /\ t[k + 1] \in Seq(B)
      BY <1>3, <1>6, <3>1
    <3>4. f[m + k] = g[m] \o h[k]
      BY <2>2
    <3>5. f[m + (k + 1)] = g[m] \o h[k + 1]
      <4>1. (g[m] \o h[k]) \o t[k + 1] = g[m] \o (h[k] \o t[k + 1])
        <5>1. g[m] \in Seq(B) /\ h[k] \in Seq(B) /\ t[k + 1] \in Seq(B)
          BY <1>8, <3>3
        <5>2. \A x, y, z \in Seq(B) : (x \o y) \o z = x \o (y \o z)
          BY SMTT(30)
        <5> HIDE DEF m
        <5> QED BY <5>1, <5>2
      <4> QED BY <3>2, <3>4, <4>1
    <3>6. k + 1 \in Nat
      BY <3>1
    <3> QED BY <3>5, <3>6
  <2> HIDE DEF T
  <2> QED BY <1>1, <2>1, <2>2, UpInduction
<1>10. f[m + n] = g[m] \o h[n]
  <2>1. n \in T
    <3>1. n \in 0 .. n
      BY <1>1
    <3> HIDE DEF T
    <3> QED BY <1>9, <3>1
  <2> QED BY <2>1
<1> QED BY <1>2, <1>3, <1>4, <1>10 DEF st

\* The images of the members of a sequence, one function at a time.
Image(f, s) == [i \in DOMAIN s |-> f[s[i]]]

\* The image has the length of the sequence and a value for each of its members.
LEMMA ImageFacts ==
  ASSUME NEW A, NEW B, NEW f, \A x \in A : f[x] \in B, NEW s \in Seq(A)
  PROVE  /\ Image(f, s) \in Seq(B) /\ Len(Image(f, s)) = Len(s)
         /\ \A i \in 1 .. Len(s) : Image(f, s)[i] = f[s[i]]
<1>1. \A i \in 1 .. Len(s) : f[s[i]] \in B
  OBVIOUS
<1>2. DOMAIN s = 1 .. Len(s) /\ Len(s) \in Nat
  OBVIOUS
<1> QED BY <1>1, <1>2 DEF Image

\* The image of a concatenation is that of its parts.
LEMMA ImageConcat ==
  ASSUME NEW A, NEW f, NEW s \in Seq(A), NEW t \in Seq(A)
  PROVE  Image(f, s \o t) = Image(f, s) \o Image(f, t)
<1> DEFINE B == {f[x] : x \in A}
<1>1. ASSUME NEW r \in Seq(A)
      PROVE  /\ Image(f, r) \in Seq(B) /\ Len(Image(f, r)) = Len(r)
             /\ \A i \in 1 .. Len(r) : Image(f, r)[i] = f[r[i]]
  <2>1. \A x \in A : f[x] \in B
    OBVIOUS
  <2> HIDE DEF B
  <2>2. Image(f, r) \in Seq(B)
    BY <2>1, ImageFacts
  <2>3. DOMAIN r = 1 .. Len(r) /\ Len(r) \in Nat
    OBVIOUS
  <2> QED BY <2>2, <2>3 DEF Image
<1> HIDE DEF B
<1> DEFINE st == s \o t
           es == Image(f, s)
           et == Image(f, t)
           e  == Image(f, st)
           m  == Len(s)
           n  == Len(t)
<1>2. /\ st \in Seq(A) /\ Len(st) = m + n /\ m \in Nat /\ n \in Nat
      /\ \A i \in 1 .. m : st[i] = s[i]
      /\ \A i \in 1 .. n : st[m + i] = t[i]
  BY ConcatAt
<1>3. /\ es \in Seq(B) /\ et \in Seq(B) /\ Len(es) = m /\ Len(et) = n
      /\ \A i \in 1 .. m : es[i] = f[s[i]]
      /\ \A i \in 1 .. n : et[i] = f[t[i]]
  BY <1>1
<1>4. e \in Seq(B) /\ Len(e) = m + n /\ \A i \in 1 .. m + n : e[i] = f[st[i]]
  <2> HIDE DEF st, m, n
  <2> QED BY <1>1, <1>2, ZenonT(30)
<1>5. /\ es \o et \in Seq(B) /\ Len(es \o et) = m + n
      /\ \A i \in 1 .. m : (es \o et)[i] = es[i]
      /\ \A i \in 1 .. n : (es \o et)[m + i] = et[i]
  <2> HIDE DEF es, et, m, n
  <2>1. es \in Seq(B) /\ et \in Seq(B)
    BY <1>3
  <2>2. /\ es \o et \in Seq(B) /\ Len(es \o et) = Len(es) + Len(et)
        /\ \A i \in 1 .. Len(es) : (es \o et)[i] = es[i]
        /\ \A i \in 1 .. Len(et) : (es \o et)[Len(es) + i] = et[i]
    BY ONLY <2>1, ConcatAt
  <2>3. Len(es) = m /\ Len(et) = n
    BY <1>3
  <2> QED BY <2>2, <2>3
<1> HIDE DEF st, es, et, e, m, n
<1>6. ASSUME NEW i \in 1 .. m + n PROVE e[i] = (es \o et)[i]
  <2>1. CASE i \in 1 .. m
    <3>1. e[i] = f[st[i]] /\ st[i] = s[i]
      BY <1>2, <1>4, <2>1
    <3>2. (es \o et)[i] = es[i] /\ es[i] = f[s[i]]
      BY <1>3, <1>5, <2>1
    <3> QED BY <3>1, <3>2
  <2>2. CASE i \notin 1 .. m
    <3> DEFINE j == i - m
    <3>1. j \in 1 .. n /\ i = m + j
      BY <1>2, <2>2
    <3> HIDE DEF j
    <3>2. e[i] = f[st[i]] /\ st[i] = t[j]
      BY <1>2, <1>4, <3>1
    <3>3. (es \o et)[i] = et[j] /\ et[j] = f[t[j]]
      BY <1>3, <1>5, <3>1
    <3> QED BY <3>2, <3>3
  <2> QED BY <2>1, <2>2
<1>7. e = es \o et
  BY <1>4, <1>5, <1>6, SeqEqual
<1> QED BY <1>7 DEF e, es, et, st

-----------------------------------------------------------------------------
(* The framer.                                                             *)

\* A line end is two bytes.
LEMMA LineEndIsBytes ==
  <<CR, LF>> \in Seq(Byte)
<1>1. CR \in Byte /\ LF \in Byte
  BY DEF Byte
<1> QED BY <1>1

\* What has neither CR nor LF is bytes without a line end.
LEMMA PlainHasNoEnd ==
  ASSUME NEW s \in Seq(Plain)
  PROVE  s \in Seq(Byte) /\ LineEnds(s, 1) = {}
<1>1. CR \notin Plain
  BY InputAssumption DEF Plain
<1>2. \A i \in 1 .. Len(s) : s[i] \in Plain
  OBVIOUS
<1>3. s \in Seq(Byte)
  <2>1. Plain \subseteq Byte
    BY DEF Byte
  <2> QED BY <2>1
<1>4. ASSUME NEW k \in LineEnds(s, 1) PROVE FALSE
  <2>1. k \in 1 .. Len(s) /\ s[k] = CR
    BY DEF LineEnds
  <2> QED BY <1>1, <1>2, <2>1
<1> QED BY <1>3, <1>4

\* Each line with its end, as FlattenSeq gets them.
Ended(lines) == [i \in DOMAIN lines |-> lines[i] \o <<CR, LF>>]

\* Lines with their ends are lines, and ending them commutes with concatenation.
LEMMA EndedFacts ==
  ASSUME NEW s \in Seq(Seq(Byte)), NEW t \in Seq(Seq(Byte))
  PROVE  /\ Ended(s) \in Seq(Seq(Byte))
         /\ Ended(s \o t) = Ended(s) \o Ended(t)
<1> DEFINE Lines == Seq(Byte)
           end   == [line \in Lines |-> line \o <<CR, LF>>]
<1>1. \A x \in Lines : end[x] \in Lines
  BY LineEndIsBytes
<1>2. ASSUME NEW r \in Seq(Lines) PROVE Ended(r) = Image(end, r)
  <2>1. \A i \in DOMAIN r : r[i] \in Lines
    OBVIOUS
  <2> QED BY <2>1 DEF Ended, Image
<1>3. s \in Seq(Lines) /\ t \in Seq(Lines) /\ s \o t \in Seq(Lines)
  OBVIOUS
<1> HIDE DEF end
<1>4. Image(end, s \o t) = Image(end, s) \o Image(end, t)
  BY <1>3, ImageConcat
<1> HIDE DEF Lines
<1>6. Image(end, s) \in Seq(Lines)
  BY <1>1, <1>3, ImageFacts
<1>5. Ended(s) \in Seq(Lines) /\ Ended(s \o t) = Ended(s) \o Ended(t)
  BY <1>2, <1>3, <1>4, <1>6
<1> QED BY <1>5 DEF Lines

\* The bytes of lines, then of others, are the bytes of all.
LEMMA JoinedConcat ==
  ASSUME NEW s \in Seq(Seq(Byte)), NEW t \in Seq(Seq(Byte))
  PROVE  Joined(s \o t) = Joined(s) \o Joined(t)
<1>1. \A r : Joined(r) = FlattenSeq(Ended(r))
  BY DEF Joined, Ended
<1>2. Ended(s) \in Seq(Seq(Byte)) /\ Ended(t) \in Seq(Seq(Byte))
  BY EndedFacts
<1>3. Ended(s \o t) = Ended(s) \o Ended(t)
  BY EndedFacts
<1>4. FlattenSeq(Ended(s) \o Ended(t)) = FlattenSeq(Ended(s)) \o FlattenSeq(Ended(t))
  BY <1>2, FlattenConcat
<1> QED BY <1>1, <1>3, <1>4

\* Joined lines are bytes.
LEMMA JoinedIsBytes ==
  ASSUME NEW s \in Seq(Seq(Byte))
  PROVE  Joined(s) \in Seq(Byte)
<1>1. Joined(s) = FlattenSeq(Ended(s)) /\ Ended(s) \in Seq(Seq(Byte))
  BY EndedFacts DEF Joined, Ended
<1>2. PICK g \in [0 .. Len(Ended(s)) -> Seq(Byte)] : FlattenSeq(Ended(s)) = g[Len(Ended(s))]
  BY <1>1, FlattenTrace
<1>3. Len(Ended(s)) \in 0 .. Len(Ended(s))
  BY <1>1
<1> QED BY <1>1, <1>2, <1>3

\* The bytes of no line, and of one.
LEMMA JoinedFew ==
  ASSUME NEW line \in Seq(Byte)
  PROVE  Joined(<<>>) = <<>> /\ Joined(<<line>>) = line \o <<CR, LF>>
<1>1. Joined(<<>>) = <<>>
  BY DEF Joined, FlattenSeq
<1>2. line \o <<CR, LF>> \in Seq(Byte)
  BY LineEndIsBytes
<1>3. Ended(<<line>>) = <<line \o <<CR, LF>>>>
  BY DEF Ended
<1> DEFINE e == line \o <<CR, LF>>
<1>4. Joined(<<line>>) = FlattenSeq(<<e>>)
  BY <1>3 DEF Joined, Ended
<1> HIDE DEF e
<1>5. <<e>> \in Seq(Seq(Byte)) /\ Len(<<e>>) = 1 /\ <<e>>[1] = e
  BY <1>2 DEF e
<1>6. PICK g \in [0 .. 1 -> Seq(Byte)] : Traces(g, <<e>>) /\ FlattenSeq(<<e>>) = g[1]
  BY <1>5, FlattenTrace
<1>7. g[0] = <<>> /\ g[0 + 1] = g[0] \o <<e>>[0 + 1]
  <2>1. 0 \in 0 .. Len(<<e>>) - 1
    BY <1>5
  <2> QED BY <1>6, <2>1, Zenon DEF Traces
<1>8. g[1] = <<>> \o e
  <2>1. 0 + 1 = 1
    OBVIOUS
  <2> QED BY <1>5, <1>7, <2>1
<1>9. <<>> \o e = e
  BY <1>2 DEF e
<1> QED BY <1>1, <1>4, <1>6, <1>8, <1>9 DEF e

\* Where a line end is found, it is the first, and what follows it is shorter.
LEMMA FirstLineEnd ==
  ASSUME NEW s \in Seq(Byte), NEW i \in 1 .. Len(s) + 1, LineEnds(s, i) # {}
  PROVE  /\ Min(LineEnds(s, i)) \in i .. Len(s) - 1
         /\ s[Min(LineEnds(s, i))] = CR /\ s[Min(LineEnds(s, i)) + 1] = LF
         /\ \A k \in LineEnds(s, i) : Min(LineEnds(s, i)) <= k
         /\ After(Min(LineEnds(s, i))) \in i + 1 .. Len(s) + 1
<1> DEFINE L == LineEnds(s, i)
           k == Min(L)
<1>1. L \subseteq Nat /\ L # {}
  BY DEF LineEnds
<1>2. k \in L /\ \A j \in L : k <= j
  <2> HIDE DEF L
  <2> QED BY <1>1, MinIsLeast
<1> HIDE DEF k
<1>3. k \in i .. Len(s) - 1 /\ s[k] = CR /\ s[k + 1] = LF
  BY <1>2 DEF LineEnds
<1>4. After(k) \in i + 1 .. Len(s) + 1
  BY <1>3 DEF After
<1> QED BY <1>2, <1>3, <1>4 DEF k

\* A line that ends at k, its end, and what follows are all of s from i on.
LEMMA CutAt ==
  ASSUME NEW s \in Seq(Byte), NEW i \in 1 .. Len(s) + 1, NEW k \in i .. Len(s) - 1,
         s[k] = CR, s[k + 1] = LF
  PROVE  /\ SubSeq(s, i, k - 1) \in Seq(Byte)
         /\ (SubSeq(s, i, k - 1) \o <<CR, LF>>) \o SubSeq(s, k + 2, Len(s)) = SubSeq(s, i, Len(s))
<1> DEFINE n == Len(s)
           l == SubSeq(s, i, k - 1)
           r == SubSeq(s, k + 2, n)
           t == SubSeq(s, i, n)
           e == <<CR, LF>>
           m == k - i
           q == n - k - 1
<1>1. /\ n \in Nat /\ k \in Nat /\ i \in Nat /\ m \in Nat /\ q \in Nat
      /\ k = i + m /\ n = k + 1 + q /\ 1 <= i
  OBVIOUS
<1>2. l \in Seq(Byte) /\ Len(l) = m /\ \A j \in 1 .. m : l[j] = s[i + j - 1]
  BY <1>1
<1>3. r \in Seq(Byte) /\ Len(r) = q /\ \A j \in 1 .. q : r[j] = s[k + 1 + j]
  BY <1>1
<1>4. t \in Seq(Byte) /\ Len(t) = m + 2 + q /\ \A j \in 1 .. m + 2 + q : t[j] = s[i + j - 1]
  <2>1. i \in Nat /\ n \in Nat /\ i >= 1 /\ i <= n + 1 /\ n + 1 - i = m + 2 + q
    BY <1>1
  <2>2. \A j \in i .. n : s[j] \in Byte
    BY <2>1
  <2> HIDE DEF n, m, q
  <2>3. t \in Seq(Byte) /\ Len(t) = n + 1 - i /\ \A j \in 1 .. n + 1 - i : t[j] = s[i + j - 1]
    BY ONLY <2>1, <2>2, SMT
  <2> QED BY <2>1, <2>3
<1>5. e \in Seq(Byte) /\ Len(e) = 2 /\ e[1] = CR /\ e[2] = LF
  BY LineEndIsBytes
<1> HIDE DEF n, l, r, t, e, m, q
<1> DEFINE le == l \o e
<1>6. /\ le \in Seq(Byte) /\ Len(le) = m + 2
      /\ \A j \in 1 .. m : le[j] = s[i + j - 1]
      /\ le[m + 1] = CR /\ le[m + 2] = LF
  <2>1. /\ le \in Seq(Byte) /\ Len(le) = Len(l) + Len(e)
        /\ \A j \in 1 .. Len(l) : le[j] = l[j]
        /\ \A j \in 1 .. Len(e) : le[Len(l) + j] = e[j]
    <3>1. l \in Seq(Byte) /\ e \in Seq(Byte)
      BY <1>2, <1>5
    <3> QED BY ONLY <3>1, ConcatAt
  <2> HIDE DEF le
  <2>2. 1 \in 1 .. 2 /\ 2 \in 1 .. 2
    OBVIOUS
  <2> QED BY <1>2, <1>5, <2>1, <2>2
<1> HIDE DEF le
<1>7. \A j \in 1 .. m + 2 : le[j] = s[i + j - 1]
  <2> SUFFICES ASSUME NEW j \in 1 .. m + 2 PROVE le[j] = s[i + j - 1]
    OBVIOUS
  <2>1. CASE j \in 1 .. m
    BY <1>6, <2>1
  <2>2. CASE j = m + 1
    <3>1. i + j - 1 = k
      BY <1>1, <2>2
    <3> QED BY <1>6, <2>2, <3>1
  <2>3. CASE j = m + 2
    <3>1. i + j - 1 = k + 1
      BY <1>1, <2>3
    <3> QED BY <1>6, <2>3, <3>1
  <2>4. j \in 1 .. m \/ j = m + 1 \/ j = m + 2
    BY <1>1
  <2> QED BY <2>1, <2>2, <2>3, <2>4
<1>8. /\ le \o r \in Seq(Byte) /\ Len(le \o r) = m + 2 + q
      /\ \A j \in 1 .. m + 2 : (le \o r)[j] = le[j]
      /\ \A j \in 1 .. q : (le \o r)[m + 2 + j] = r[j]
  <2>1. /\ le \o r \in Seq(Byte) /\ Len(le \o r) = Len(le) + Len(r)
        /\ \A j \in 1 .. Len(le) : (le \o r)[j] = le[j]
        /\ \A j \in 1 .. Len(r) : (le \o r)[Len(le) + j] = r[j]
    <3>1. le \in Seq(Byte) /\ r \in Seq(Byte)
      BY <1>3, <1>6
    <3> QED BY ONLY <3>1, ConcatAt
  <2> QED BY <1>3, <1>6, <2>1
<1>9. ASSUME NEW j \in 1 .. m + 2 + q PROVE (le \o r)[j] = t[j]
  <2>1. CASE j \in 1 .. m + 2
    <3>1. (le \o r)[j] = le[j]
      BY <1>8, <2>1
    <3> QED BY <1>4, <1>7, <2>1, <3>1
  <2>2. CASE j \notin 1 .. m + 2
    <3> DEFINE d == j - (m + 2)
    <3>1. d \in 1 .. q /\ j = m + 2 + d /\ k + 1 + d = i + j - 1
      BY <1>1, <2>2
    <3> HIDE DEF d
    <3>2. (le \o r)[j] = r[d]
      BY <1>8, <3>1
    <3>3. r[d] = s[i + j - 1]
      BY <1>3, <3>1
    <3> QED BY <1>4, <3>2, <3>3
  <2> QED BY <2>1, <2>2
<1>10. le \o r = t
  BY <1>4, <1>8, <1>9, SeqEqual
<1> QED BY <1>2, <1>10 DEF le, l, e, r, t, n

\* Before the first line end there is none.
LEMMA NoEndBefore ==
  ASSUME NEW s \in Seq(Byte), NEW i \in 1 .. Len(s) + 1, NEW k \in i .. Len(s) + 1,
         \A j \in LineEnds(s, i) : k <= j
  PROVE  LineEnds(SubSeq(s, i, k - 1), 1) = {}
<1> DEFINE l == SubSeq(s, i, k - 1)
<1>1. Len(s) \in Nat /\ i \in Nat /\ 1 <= i /\ i <= k /\ k <= Len(s) + 1
  OBVIOUS
<1>2. Len(l) = k - i /\ \A j \in 1 .. k - i : l[j] = s[i + j - 1]
  BY <1>1
<1> HIDE DEF l
<1>3. ASSUME NEW j \in LineEnds(l, 1) PROVE FALSE
  <2>1. j \in 1 .. k - i - 1 /\ l[j] = CR /\ l[j + 1] = LF
    BY <1>1, <1>2 DEF LineEnds
  <2>2. j + 1 \in 1 .. k - i /\ j \in 1 .. k - i /\ i + (j + 1) - 1 = (i + j - 1) + 1
    BY <1>1, <2>1
  <2>3. s[i + j - 1] = CR /\ s[(i + j - 1) + 1] = LF
    BY <1>2, <2>1, <2>2
  <2>4. i + j - 1 \in i .. Len(s) - 1 /\ ~ (k <= i + j - 1)
    BY <1>1, <2>1
  <2>5. i + j - 1 \in LineEnds(s, i)
    BY <2>3, <2>4 DEF LineEnds
  <2> QED BY <2>4, <2>5
<1> QED BY <1>3 DEF l

\* What framing s from index i on must give.
FramesFrom(result, s, i) ==
  /\ result.lines \in Seq(Seq(Byte)) /\ result.rest \in Seq(Byte)
  /\ Joined(result.lines) \o result.rest = SubSeq(s, i, Len(s))
  /\ LineEnds(result.rest, 1) = {}
  /\ \A j \in DOMAIN result.lines : LineEnds(result.lines[j], 1) = {}

\* Nothing is framed where no line end is.
LEMMA FramesRest ==
  ASSUME NEW s \in Seq(Byte), NEW i \in 1 .. Len(s) + 1, LineEnds(s, i) = {}
  PROVE  FramesFrom([lines |-> <<>>, rest |-> SubSeq(s, i, Len(s))], s, i)
<1> DEFINE r == SubSeq(s, i, Len(s))
<1>1. r \in Seq(Byte)
  OBVIOUS
<1>2. LineEnds(r, 1) = {}
  <2>1. Len(s) + 1 \in i .. Len(s) + 1 /\ (Len(s) + 1) - 1 = Len(s)
    OBVIOUS
  <2> QED BY <2>1, NoEndBefore
<1>3. Joined(<<>>) \o r = r
  <2>1. <<>> \o r = r
    BY <1>1
  <2>2. Joined(<<>>) = <<>>
    BY <1>1, JoinedFew
  <2> QED BY <2>1, <2>2
<1> HIDE DEF r
<1>4. <<>> \in Seq(Seq(Byte)) /\ DOMAIN <<>> = {}
  OBVIOUS
<1> QED BY <1>1, <1>2, <1>3, <1>4 DEF FramesFrom, r

\* One more line in front.
LEMMA FramesLine ==
  ASSUME NEW s \in Seq(Byte), NEW i \in 1 .. Len(s) + 1, LineEnds(s, i) # {},
         NEW more, FramesFrom(more, s, After(Min(LineEnds(s, i))))
  PROVE  FramesFrom([lines |-> <<SubSeq(s, i, Min(LineEnds(s, i)) - 1)>> \o more.lines,
                     rest |-> more.rest], s, i)
<1> DEFINE k    == Min(LineEnds(s, i))
           l    == SubSeq(s, i, k - 1)
           all  == <<l>> \o more.lines
           e    == <<CR, LF>>
           tail == SubSeq(s, k + 2, Len(s))
           from == SubSeq(s, i, Len(s))
<1>1. /\ k \in i .. Len(s) - 1 /\ k \in i .. Len(s) + 1 /\ s[k] = CR /\ s[k + 1] = LF
      /\ \A j \in LineEnds(s, i) : k <= j
  <2>1. /\ k \in i .. Len(s) - 1 /\ s[k] = CR /\ s[k + 1] = LF
        /\ \A j \in LineEnds(s, i) : k <= j
    BY FirstLineEnd
  <2> HIDE DEF k
  <2> QED BY <2>1
<1>2. FramesFrom(more, s, k + 2)
  BY DEF After
<1> HIDE DEF k
<1>3. l \in Seq(Byte) /\ (l \o e) \o tail = from
  BY <1>1, CutAt
<1>4. LineEnds(l, 1) = {}
  BY <1>1, NoEndBefore
<1>5. /\ more.lines \in Seq(Seq(Byte)) /\ more.rest \in Seq(Byte)
      /\ Joined(more.lines) \o more.rest = tail
      /\ LineEnds(more.rest, 1) = {}
      /\ \A j \in DOMAIN more.lines : LineEnds(more.lines[j], 1) = {}
  BY <1>2 DEF FramesFrom
<1> HIDE DEF l, tail, from
<1>6. <<l>> \in Seq(Seq(Byte)) /\ Len(<<l>>) = 1 /\ <<l>>[1] = l
  BY <1>3
<1>7. /\ all \in Seq(Seq(Byte)) /\ Len(all) = Len(<<l>>) + Len(more.lines)
      /\ \A j \in 1 .. Len(<<l>>) : all[j] = <<l>>[j]
      /\ \A j \in 1 .. Len(more.lines) : all[Len(<<l>>) + j] = more.lines[j]
  <2>1. <<l>> \in Seq(Seq(Byte)) /\ more.lines \in Seq(Seq(Byte))
    BY <1>5, <1>6
  <2> QED BY ONLY <2>1, ConcatAt
<1>8. Joined(all) = (l \o e) \o Joined(more.lines)
  <2>1. Joined(<<l>>) = l \o e
    BY <1>3, JoinedFew
  <2>2. Joined(all) = Joined(<<l>>) \o Joined(more.lines)
    BY <1>5, <1>6, JoinedConcat
  <2> QED BY <2>1, <2>2
<1>9. Joined(all) \o more.rest = from
  <2> DEFINE le == l \o e
             jm == Joined(more.lines)
  <2>1. le \in Seq(Byte) /\ jm \in Seq(Byte) /\ more.rest \in Seq(Byte)
    BY <1>3, <1>5, LineEndIsBytes, JoinedIsBytes
  <2>2. \A x, y, z \in Seq(Byte) : (x \o y) \o z = x \o (y \o z)
    BY SMTT(30)
  <2> HIDE DEF le, jm
  <2>3. (le \o jm) \o more.rest = le \o (jm \o more.rest)
    BY <2>1, <2>2, ZenonT(30)
  <2>4. jm \o more.rest = tail /\ le \o tail = from /\ Joined(all) = le \o jm
    BY <1>3, <1>5, <1>8 DEF le, jm
  <2> QED BY <2>3, <2>4
<1>10. ASSUME NEW j \in DOMAIN all PROVE LineEnds(all[j], 1) = {}
  <2> DEFINE n == Len(more.lines)
  <2>1. n \in Nat /\ DOMAIN more.lines = 1 .. n
    BY <1>5
  <2>2. j \in 1 .. 1 + n
    BY <1>6, <1>7
  <2>3. CASE j = 1
    <3>1. all[j] = l
      BY <1>6, <1>7, <2>3
    <3> QED BY <1>4, <3>1
  <2>4. CASE j # 1
    <3>1. j - 1 \in 1 .. n /\ 1 + (j - 1) = j
      BY <2>1, <2>2, <2>4
    <3>2. all[j] = more.lines[j - 1]
      BY <1>6, <1>7, <3>1
    <3> QED BY <1>5, <2>1, <3>1, <3>2
  <2> QED BY <2>3, <2>4
<1> DEFINE result == [lines |-> all, rest |-> more.rest]
<1>11. result.lines = all /\ result.rest = more.rest
  OBVIOUS
<1> HIDE DEF all, result
<1>12. FramesFrom(result, s, i)
  BY <1>5, <1>7, <1>9, <1>10, <1>11 DEF FramesFrom, from
<1> QED BY <1>12 DEF result, all, l, k

\* Framed is defined for every s, and computes what it must.
LEMMA FramedFacts ==
  ASSUME NEW s \in Seq(Byte)
  PROVE  FramesFrom(Framed(s), s, 1)
<1> DEFINE n       == Len(s) + 1
           Result  == [lines : Seq(Seq(Byte)), rest : Seq(Byte)]
           ends    == {i \in 1 .. n : LineEnds(s, i) = {}}
           base    == [i \in 1 .. n |-> [lines |-> <<>>, rest |-> SubSeq(s, i, Len(s))]]
           next    == [i \in 1 .. n |-> After(Min(LineEnds(s, i)))]
           line(i) == IF LineEnds(s, i) = {} THEN <<>> ELSE SubSeq(s, i, Min(LineEnds(s, i)) - 1)
           add(a, i) == [lines |-> <<line(i)>> \o a.lines, rest |-> a.rest]
           step    == [p \in Result \X (1 .. n) |-> add(p[1], p[2])]
           at(x, i) == IF LineEnds(s, i) = {} THEN [lines |-> <<>>, rest |-> SubSeq(s, i, Len(s))]
                       ELSE LET k    == Min(LineEnds(s, i))
                                more == x[After(k)]
                            IN  [lines |-> <<SubSeq(s, i, k - 1)>> \o more.lines, rest |-> more.rest]
           split   == CHOOSE x : x = [i \in 1 .. n |-> at(x, i)]
<1>1. n \in Nat /\ 1 \in 1 .. n /\ n = Len(s) + 1
  OBVIOUS
<1>2. base \in [1 .. n -> Result]
  <2>1. \A i \in 1 .. n : SubSeq(s, i, Len(s)) \in Seq(Byte)
    OBVIOUS
  <2>2. <<>> \in Seq(Seq(Byte))
    OBVIOUS
  <2> QED BY <2>1, <2>2
<1>3. \A i \in 1 .. n : i \notin ends => next[i] \in i + 1 .. n
  <2>1. ASSUME NEW i \in 1 .. n, i \notin ends PROVE next[i] \in i + 1 .. n
    <3>1. LineEnds(s, i) # {}
      BY <2>1
    <3>2. After(Min(LineEnds(s, i))) \in i + 1 .. Len(s) + 1
      BY <3>1, FirstLineEnd
    <3> QED BY <3>2
  <2> QED BY <2>1
<1>4. \A p \in Result \X (1 .. n) : add(p[1], p[2]) \in Result
  <2> SUFFICES ASSUME NEW p \in Result \X (1 .. n) PROVE add(p[1], p[2]) \in Result
    OBVIOUS
  <2>1. p[1] \in Result /\ p[2] \in 1 .. n
    OBVIOUS
  <2>2. line(p[2]) \in Seq(Byte)
    <3>1. CASE LineEnds(s, p[2]) = {}
      BY <3>1
    <3>2. CASE LineEnds(s, p[2]) # {}
      <4>1. Min(LineEnds(s, p[2])) \in p[2] .. Len(s) - 1
        BY <2>1, <3>2, FirstLineEnd
      <4>2. SubSeq(s, p[2], Min(LineEnds(s, p[2])) - 1) \in Seq(Byte)
        BY <2>1, <4>1
      <4> QED BY <3>2, <4>2
    <3> QED BY <3>1, <3>2
  <2> QED BY <2>1, <2>2
<1>5. step \in [Result \X (1 .. n) -> Result]
  <2> HIDE DEF Result, add, n
  <2> QED BY <1>4
<1>6. \A a \in Result, i \in 1 .. n : step[<<a, i>>] = add(a, i)
  <2> HIDE DEF Result, add, n
  <2> QED OBVIOUS
<1> HIDE DEF base, next, step, Result, ends
<1>7. PICK f \in [1 .. n -> Result] : Descends(f, n, ends, base, next, step)
  <2> HIDE DEF n
  <2> QED BY <1>1, <1>2, <1>3, <1>5, DescentExists
<1>8. ASSUME NEW i \in 1 .. n PROVE f[i] = at(f, i)
  <2>1. CASE LineEnds(s, i) = {}
    <3>1. i \in ends /\ base[i] = [lines |-> <<>>, rest |-> SubSeq(s, i, Len(s))]
      BY <2>1 DEF ends, base
    <3>2. f[i] = base[i]
      BY <1>7, <3>1 DEF Descends
    <3> QED BY <2>1, <3>1, <3>2
  <2>2. CASE LineEnds(s, i) # {}
    <3>1. i \notin ends
      BY <2>2 DEF ends
    <3>2. f[i] = step[<<f[next[i]], i>>]
      BY <1>7, <3>1 DEF Descends
    <3>3. f[next[i]] \in Result
      <4>1. next[i] \in 1 .. n
        BY <1>3, <3>1
      <4> QED BY <4>1
    <3>4. f[i] = add(f[next[i]], i)
      <4> HIDE DEF add, n
      <4> QED BY <1>6, <3>2, <3>3
    <3>5. next[i] = After(Min(LineEnds(s, i)))
      BY DEF next
    <3> QED BY <2>2, <3>4, <3>5
  <2> QED BY <2>1, <2>2
<1>9. f = [i \in 1 .. n |-> at(f, i)]
  <2> HIDE DEF at, n
  <2> QED BY <1>8
<1>10. split = [i \in 1 .. n |-> at(split, i)]
  <2> HIDE DEF at, n
  <2> QED BY <1>9
<1>11. Framed(s) = split[1]
  BY DEF Framed
<1>12. \A i \in 1 .. n : split[i] = at(split, i)
  <2> HIDE DEF at, n, split
  <2> QED BY <1>10
<1> HIDE DEF split
<1> DEFINE Good == {i \in 1 .. n : FramesFrom(split[i], s, i)}
<1>13. ASSUME NEW i \in 1 .. n, \A j \in i + 1 .. n : j \in Good PROVE i \in Good
  <2>1. CASE LineEnds(s, i) = {}
    <3>1. split[i] = [lines |-> <<>>, rest |-> SubSeq(s, i, Len(s))]
      BY <1>12, <2>1
    <3> QED BY <2>1, <3>1, FramesRest
  <2>2. CASE LineEnds(s, i) # {}
    <3> DEFINE more == split[After(Min(LineEnds(s, i)))]
    <3>1. split[i] = [lines |-> <<line(i)>> \o more.lines, rest |-> more.rest]
      BY <1>12, <2>2
    <3>2. After(Min(LineEnds(s, i))) \in Good
      <4>1. After(Min(LineEnds(s, i))) \in i + 1 .. n
        BY <2>2, FirstLineEnd
      <4> QED BY <1>13, <4>1
    <3>3. FramesFrom(more, s, After(Min(LineEnds(s, i))))
      BY <3>2
    <3> HIDE DEF more
    <3>4. FramesFrom([lines |-> <<line(i)>> \o more.lines, rest |-> more.rest], s, i)
      BY <2>2, <3>3, FramesLine
    <3> QED BY <3>1, <3>4
  <2> QED BY <2>1, <2>2
<1>14. \A i \in 1 .. n : i \in Good
  <2> HIDE DEF Good, n
  <2> QED BY <1>1, <1>13, DownInduction
<1>15. 1 \in Good
  BY <1>1, <1>14
<1> QED BY <1>11, <1>15

-----------------------------------------------------------------------------
(* The parser.                                                             *)

\* FirstOf is in J or at the end, and before all of J.
LEMMA FirstOfFacts ==
  ASSUME NEW s \in Seq(Byte), NEW J, J \subseteq 1 .. Len(s)
  PROVE  /\ FirstOf(J, s) \in J \cup {Len(s) + 1}
         /\ \A k \in J \cup {Len(s) + 1} : FirstOf(J, s) <= k
<1> DEFINE all == J \cup {Len(s) + 1}
<1>1. all \subseteq Nat /\ all # {}
  <2>1. Len(s) \in Nat
    OBVIOUS
  <2>2. J \subseteq Nat /\ Len(s) + 1 \in Nat
    BY <2>1
  <2> QED BY <2>2
<1> HIDE DEF all
<1>2. Min(all) \in all /\ \A k \in all : Min(all) <= k
  BY <1>1, MinIsLeast
<1> QED BY <1>2 DEF FirstOf, all

\* SkipSpaces goes to the first byte that is no space.
LEMMA SkipSpacesFacts ==
  ASSUME NEW s \in Seq(Byte), NEW i \in 1 .. Len(s) + 1
  PROVE  /\ SkipSpaces(s, i) \in i .. Len(s) + 1
         /\ SkipSpaces(s, i) <= Len(s) => s[SkipSpaces(s, i)] # Space
         /\ \A j \in i .. SkipSpaces(s, i) - 1 : s[j] = Space
<1> DEFINE J == {j \in i .. Len(s) : s[j] # Space}
           r == FirstOf(J, s)
<1>1. J \subseteq 1 .. Len(s) /\ Len(s) \in Nat /\ i \in Nat
  OBVIOUS
<1>2. r \in J \cup {Len(s) + 1} /\ \A k \in J \cup {Len(s) + 1} : r <= k
  <2> HIDE DEF J
  <2> QED BY <1>1, FirstOfFacts
<1> HIDE DEF r
<1>3. r \in i .. Len(s) + 1 /\ (r <= Len(s) => s[r] # Space)
  BY <1>1, <1>2
<1>4. ASSUME NEW j \in i .. r - 1 PROVE s[j] = Space
  <2>1. j \in i .. Len(s) /\ ~ (r <= j)
    BY <1>1, <1>3
  <2> QED BY <1>2, <2>1
<1> QED BY <1>3, <1>4 DEF SkipSpaces, r

\* WordEnd goes to the first space.
LEMMA WordEndFacts ==
  ASSUME NEW s \in Seq(Byte), NEW i \in 1 .. Len(s) + 1
  PROVE  /\ WordEnd(s, i) \in i .. Len(s) + 1
         /\ WordEnd(s, i) <= Len(s) => s[WordEnd(s, i)] = Space
         /\ \A j \in i .. WordEnd(s, i) - 1 : s[j] # Space
<1> DEFINE J == {j \in i .. Len(s) : s[j] = Space}
           r == FirstOf(J, s)
<1>1. J \subseteq 1 .. Len(s) /\ Len(s) \in Nat /\ i \in Nat
  OBVIOUS
<1>2. r \in J \cup {Len(s) + 1} /\ \A k \in J \cup {Len(s) + 1} : r <= k
  <2> HIDE DEF J
  <2> QED BY <1>1, FirstOfFacts
<1> HIDE DEF r
<1>3. r \in i .. Len(s) + 1 /\ (r <= Len(s) => s[r] = Space)
  BY <1>1, <1>2
<1>4. ASSUME NEW j \in i .. r - 1 PROVE s[j] # Space
  <2>1. j \in i .. Len(s) /\ ~ (r <= j)
    BY <1>1, <1>3
  <2> QED BY <1>2, <2>1
<1> QED BY <1>3, <1>4 DEF WordEnd, r

\* No piece of a line has a line end.
LEMMA NoEndWithin ==
  ASSUME NEW s \in Seq(Byte), LineEnds(s, 1) = {},
         NEW i \in 1 .. Len(s) + 1, NEW k \in i .. Len(s) + 1
  PROVE  SubSeq(s, i, k - 1) \in Seq(Byte) /\ LineEnds(SubSeq(s, i, k - 1), 1) = {}
<1>1. LineEnds(s, i) = {}
  BY DEF LineEnds
<1>2. LineEnds(SubSeq(s, i, k - 1), 1) = {}
  BY <1>1, NoEndBefore
<1>3. SubSeq(s, i, k - 1) \in Seq(Byte)
  OBVIOUS
<1> QED BY <1>2, <1>3

\* What the commands may take for a word.
Word(w) ==
  /\ w \in Seq(Byte) /\ w # <<>> /\ w[1] # Colon
  /\ \A i \in DOMAIN w : w[i] # Space
  /\ LineEnds(w, 1) = {}

\* What they may take for parameters.
Params(ps) ==
  /\ ps \in Seq(Seq(Byte))
  /\ \A j \in 1 .. Len(ps) - 1 : Word(ps[j])
  /\ \A j \in 1 .. Len(ps) : LineEnds(ps[j], 1) = {}

\* From a place that begins one, WordEnd cuts a word.
LEMMA CutsWord ==
  ASSUME NEW s \in Seq(Byte), LineEnds(s, 1) = {}, NEW j \in 1 .. Len(s),
         s[j] # Space, s[j] # Colon
  PROVE  WordEnd(s, j) \in j + 1 .. Len(s) + 1 /\ Word(SubSeq(s, j, WordEnd(s, j) - 1))
<1> DEFINE k == WordEnd(s, j)
           w == SubSeq(s, j, k - 1)
<1>1. /\ k \in j .. Len(s) + 1 /\ (k <= Len(s) => s[k] = Space)
      /\ \A i \in j .. k - 1 : s[i] # Space
  BY WordEndFacts
<1> HIDE DEF k
<1>2. k \in j + 1 .. Len(s) + 1
  <2>1. k # j
    BY <1>1
  <2> QED BY <1>1, <2>1
<1>3. w \in Seq(Byte) /\ LineEnds(w, 1) = {}
  BY <1>1, NoEndWithin
<1>4. Len(w) = k - j /\ \A i \in 1 .. k - j : w[i] = s[j + i - 1]
  BY <1>2
<1> HIDE DEF w
<1>5. w # <<>> /\ w[1] # Colon
  <2>1. 1 \in 1 .. k - j /\ j + 1 - 1 = j
    BY <1>2
  <2>2. w[1] = s[j]
    BY <1>4, <2>1
  <2>3. Len(w) # 0
    BY <1>2, <1>4
  <2> QED BY <2>2, <2>3
<1>6. ASSUME NEW i \in DOMAIN w PROVE w[i] # Space
  <2>1. i \in 1 .. k - j
    BY <1>3, <1>4
  <2>2. j + i - 1 \in j .. k - 1
    BY <1>2, <2>1
  <2> QED BY <1>1, <1>4, <2>1, <2>2
<1> QED BY <1>2, <1>3, <1>5, <1>6 DEF Word, w, k

\* One more word in front.
LEMMA ParamsLonger ==
  ASSUME NEW w, Word(w), NEW ps, Params(ps)
  PROVE  Params(<<w>> \o ps)
<1> DEFINE all == <<w>> \o ps
           n   == Len(ps)
<1>1. <<w>> \in Seq(Seq(Byte)) /\ Len(<<w>>) = 1 /\ <<w>>[1] = w
  BY DEF Word
<1>2. /\ ps \in Seq(Seq(Byte)) /\ \A j \in 1 .. n - 1 : Word(ps[j])
      /\ \A j \in 1 .. n : LineEnds(ps[j], 1) = {}
  BY DEF Params
<1>3. /\ all \in Seq(Seq(Byte)) /\ Len(all) = Len(<<w>>) + Len(ps) /\ Len(ps) \in Nat
      /\ \A j \in 1 .. Len(<<w>>) : all[j] = <<w>>[j]
      /\ \A j \in 1 .. Len(ps) : all[Len(<<w>>) + j] = ps[j]
  <2>1. <<w>> \in Seq(Seq(Byte)) /\ ps \in Seq(Seq(Byte))
    BY <1>1, <1>2
  <2> QED BY ONLY <2>1, ConcatAt
<1> HIDE DEF all
<1>4. /\ all \in Seq(Seq(Byte)) /\ Len(all) = 1 + n /\ n \in Nat
      /\ all[1] = w /\ \A j \in 1 .. n : all[1 + j] = ps[j]
  BY <1>1, <1>3
<1> HIDE DEF n
<1>5. ASSUME NEW j \in 1 .. 1 + n
      PROVE  LineEnds(all[j], 1) = {} /\ (j # 1 + n => Word(all[j]))
  <2>1. CASE j = 1
    BY <1>4, <2>1 DEF Word
  <2>2. CASE j # 1
    <3>1. j - 1 \in 1 .. n /\ 1 + (j - 1) = j
      BY <1>4, <2>2
    <3>2. all[j] = ps[j - 1]
      BY <1>4, <3>1
    <3>3. j # 1 + n => j - 1 \in 1 .. n - 1
      BY <1>4, <2>2
    <3> QED BY <1>2, <3>1, <3>2, <3>3
  <2> QED BY <2>1, <2>2
<1>6. \A j \in 1 .. Len(all) - 1 : j \in 1 .. 1 + n /\ j # 1 + n
  BY <1>4
<1>7. Params(all)
  BY <1>4, <1>5, <1>6 DEF Params
<1> QED BY <1>7 DEF all

\* No parameter, or one last parameter with anything but a line end in it.
LEMMA ParamsFew ==
  ASSUME NEW w \in Seq(Byte), LineEnds(w, 1) = {}
  PROVE  Params(<<>>) /\ Params(<<w>>)
<1>1. <<>> \in Seq(Seq(Byte)) /\ Len(<<>>) = 0
  OBVIOUS
<1>2. <<w>> \in Seq(Seq(Byte)) /\ Len(<<w>>) = 1 /\ <<w>>[1] = w
  OBVIOUS
<1>3. \A j \in 1 .. 0 : FALSE
  OBVIOUS
<1>4. \A j \in 1 .. 1 : j = 1
  OBVIOUS
<1>5. 1 - 1 = 0 /\ \A j \in 1 .. 0 - 1 : FALSE
  OBVIOUS
<1>6. Params(<<>>)
  BY <1>1, <1>3, <1>5 DEF Params
<1>7. Params(<<w>>)
  BY <1>2, <1>3, <1>4, <1>5 DEF Params
<1> QED BY <1>6, <1>7

\* getArgs from index k on, given what it returns further on.
ArgsAt(s, args, k) ==
  LET j == SkipSpaces(s, k)
  IN  IF j > Len(s) THEN <<>>
      ELSE IF s[j] = Colon THEN <<SubSeq(s, j + 1, Len(s))>>
      ELSE <<SubSeq(s, j, WordEnd(s, j) - 1)>> \o args[WordEnd(s, j)]

\* getArgs is defined at every index of every line.
LEMMA GetArgsUnfolds ==
  ASSUME NEW s \in Seq(Byte), NEW i \in 1 .. Len(s) + 1
  PROVE  GetArgs(s)[i] = ArgsAt(s, GetArgs(s), i)
<1> DEFINE n       == Len(s) + 1
           from(k) == SkipSpaces(s, k)
           A       == Seq(Seq(Byte))
           ends    == {k \in 1 .. n : from(k) > Len(s) \/ s[from(k)] = Colon}
           last(k) == IF from(k) > Len(s) THEN <<>> ELSE <<SubSeq(s, from(k) + 1, Len(s))>>
           base    == [k \in 1 .. n |-> last(k)]
           next    == [k \in 1 .. n |-> WordEnd(s, from(k))]
           word(k) == IF k \in ends THEN <<>> ELSE SubSeq(s, from(k), WordEnd(s, from(k)) - 1)
           step    == [p \in A \X (1 .. n) |-> <<word(p[2])>> \o p[1]]
           at(x, k) == LET j == SkipSpaces(s, k)
                       IN  IF j > Len(s) THEN <<>>
                           ELSE IF s[j] = Colon THEN <<SubSeq(s, j + 1, Len(s))>>
                           ELSE <<SubSeq(s, j, WordEnd(s, j) - 1)>> \o x[WordEnd(s, j)]
           args    == CHOOSE x : x = [k \in 1 .. n |-> at(x, k)]
<1>1. n \in Nat /\ n = Len(s) + 1
  OBVIOUS
<1>2. ASSUME NEW k \in 1 .. n PROVE from(k) \in k .. n /\ (from(k) <= Len(s) => s[from(k)] # Space)
  BY SkipSpacesFacts
<1>4. ASSUME NEW k \in 1 .. n PROVE last(k) \in A
  <2>1. CASE from(k) > Len(s)
    <3>1. last(k) = <<>> /\ <<>> \in Seq(Seq(Byte))
      BY <2>1
    <3> QED BY <3>1
  <2>2. CASE ~ (from(k) > Len(s))
    <3>1. from(k) \in 1 .. Len(s)
      BY <1>1, <1>2, <2>2
    <3>2. SubSeq(s, from(k) + 1, Len(s)) \in Seq(Byte)
      <4> DEFINE j == from(k)
      <4>1. j \in 1 .. Len(s)
        BY <3>1
      <4> HIDE DEF j
      <4>2. SubSeq(s, j + 1, Len(s)) \in Seq(Byte)
        BY <4>1
      <4> QED BY <4>2 DEF j
    <3>3. last(k) = <<SubSeq(s, from(k) + 1, Len(s))>>
      BY <2>2
    <3> QED BY <3>2, <3>3
  <2> QED BY <2>1, <2>2
<1>5. ASSUME NEW k \in 1 .. n, k \notin ends
      PROVE  word(k) \in Seq(Byte) /\ next[k] \in k + 1 .. n
  <2> DEFINE j == from(k)
  <2>1. j \in k .. n /\ j \in 1 .. Len(s) /\ s[j] # Space
    BY <1>1, <1>2, <1>5
  <2>2. word(k) = SubSeq(s, j, WordEnd(s, j) - 1) /\ next[k] = WordEnd(s, j)
    BY <1>5
  <2> HIDE DEF j, word, next
  <2>3. WordEnd(s, j) \in j .. Len(s) + 1 /\ (\A x \in j .. WordEnd(s, j) - 1 : s[x] # Space)
        /\ (WordEnd(s, j) <= Len(s) => s[WordEnd(s, j)] = Space)
    <3>1. j \in 1 .. Len(s) + 1
      BY <2>1
    <3> QED BY <3>1, WordEndFacts
  <2>4. WordEnd(s, j) # j
    BY <2>1, <2>3
  <2>5. WordEnd(s, j) \in k + 1 .. n /\ WordEnd(s, j) - 1 <= Len(s)
    BY <1>1, <2>1, <2>3, <2>4
  <2>6. SubSeq(s, j, WordEnd(s, j) - 1) \in Seq(Byte)
    BY <2>1, <2>3, <2>5
  <2> QED BY <2>2, <2>5, <2>6
<1>6. base \in [1 .. n -> A]
  <2> HIDE DEF last, n, A
  <2> QED BY <1>4
<1>7. ASSUME NEW p \in A \X (1 .. n) PROVE <<word(p[2])>> \o p[1] \in A
  <2>1. p[1] \in A /\ p[2] \in 1 .. n
    OBVIOUS
  <2>2. word(p[2]) \in Seq(Byte)
    <3>1. CASE p[2] \in ends
      BY <3>1
    <3>2. CASE p[2] \notin ends
      <4> HIDE DEF word, ends, n
      <4> QED BY <1>5, <2>1, <3>2
    <3> QED BY <3>1, <3>2
  <2> HIDE DEF word, ends, n
  <2> QED BY <2>1, <2>2
<1>8. step \in [A \X (1 .. n) -> A] /\ \A a \in A, k \in 1 .. n : step[<<a, k>>] = <<word(k)>> \o a
  <2> HIDE DEF word, n, A
  <2> QED BY <1>7
<1> HIDE DEF base, step, word
<1>9. PICK f \in [1 .. n -> A] : Descends(f, n, ends, base, next, step)
  <2>1. \A k \in 1 .. n : k \notin ends => next[k] \in k + 1 .. n
    BY <1>5
  <2> HIDE DEF n, ends, next, A
  <2> QED BY <1>1, <1>6, <1>8, <2>1, DescentExists
<1>10. ASSUME NEW k \in 1 .. n PROVE f[k] = at(f, k)
  <2>1. CASE k \in ends
    <3>1. f[k] = base[k]
      BY <1>9, <2>1 DEF Descends
    <3>2. base[k] = last(k)
      BY DEF base
    <3> QED BY <2>1, <3>1, <3>2
  <2>2. CASE k \notin ends
    <3>1. f[k] = step[<<f[next[k]], k>>]
      <4> HIDE DEF next, ends, A, n
      <4> QED BY <1>9, <2>2 DEF Descends
    <3>2. f[next[k]] \in A
      <4>1. next[k] \in 1 .. n
        BY <1>5, <2>2
      <4> QED BY <4>1
    <3>3. f[k] = <<word(k)>> \o f[next[k]]
      <4> HIDE DEF A, n, next
      <4> QED BY <1>8, <3>1, <3>2
    <3>4. next[k] = WordEnd(s, from(k)) /\ word(k) = SubSeq(s, from(k), WordEnd(s, from(k)) - 1)
      BY <2>2 DEF word
    <3>5. ~ (from(k) > Len(s)) /\ s[from(k)] # Colon
      BY <2>2
    <3> QED BY <3>3, <3>4, <3>5
  <2> QED BY <2>1, <2>2
<1>11. f = [k \in 1 .. n |-> at(f, k)]
  <2> HIDE DEF at, n, A
  <2> QED BY <1>10
<1>12. args = [k \in 1 .. n |-> at(args, k)]
  <2> HIDE DEF at, n
  <2> QED BY <1>11
<1>13. GetArgs(s) = args
  BY DEF GetArgs
<1>14. \A k \in 1 .. n : args[k] = at(args, k)
  <2> HIDE DEF at, n, args
  <2> QED BY <1>12
<1>15. args[i] = at(args, i)
  <2> HIDE DEF at, args
  <2> QED BY <1>14
<1> HIDE DEF args
<1> QED BY <1>13, <1>15 DEF ArgsAt

\* What getArgs returns at index i of a line, wherever that is.
LEMMA GetArgsFacts ==
  ASSUME NEW s \in Seq(Byte), LineEnds(s, 1) = {}, NEW i \in 1 .. Len(s) + 1
  PROVE  Params(GetArgs(s)[i])
<1> DEFINE n    == Len(s) + 1
           args == GetArgs(s)
           Good == {k \in 1 .. n : Params(args[k])}
<1>1. n \in Nat /\ n = Len(s) + 1
  OBVIOUS
<1>2. \A k \in 1 .. n : args[k] = ArgsAt(s, args, k)
  BY GetArgsUnfolds
<1> HIDE DEF args
<1>3. ASSUME NEW k \in 1 .. n, \A j \in k + 1 .. n : j \in Good PROVE k \in Good
  <2> DEFINE j == SkipSpaces(s, k)
             e == WordEnd(s, j)
  <2>1. j \in k .. n /\ (j <= Len(s) => s[j] # Space)
    BY SkipSpacesFacts
  <2>2. args[k] = IF j > Len(s) THEN <<>>
                  ELSE IF s[j] = Colon THEN <<SubSeq(s, j + 1, Len(s))>>
                  ELSE <<SubSeq(s, j, e - 1)>> \o args[e]
    BY <1>2 DEF ArgsAt
  <2> HIDE DEF j
  <2>3. CASE j > Len(s)
    <3>1. <<>> \in Seq(Byte) /\ LineEnds(<<>>, 1) = {}
      <4>1. \A a \in 1 .. 0 - 1 : FALSE
        OBVIOUS
      <4> QED BY <4>1 DEF LineEnds
    <3> QED BY <2>2, <2>3, <3>1, ParamsFew
  <2>4. CASE j <= Len(s) /\ s[j] = Colon
    <3>1. /\ SubSeq(s, j + 1, Len(s)) \in Seq(Byte)
          /\ LineEnds(SubSeq(s, j + 1, Len(s)), 1) = {}
      <4>1. j + 1 \in 1 .. Len(s) + 1 /\ n \in j + 1 .. Len(s) + 1 /\ n - 1 = Len(s)
        BY <1>1, <2>1, <2>4
      <4> QED BY <4>1, NoEndWithin
    <3>2. args[k] = <<SubSeq(s, j + 1, Len(s))>>
      BY <1>1, <2>1, <2>2, <2>4
    <3> QED BY <3>1, <3>2, ParamsFew
  <2>5. CASE j <= Len(s) /\ s[j] # Colon
    <3>1. j \in 1 .. Len(s) /\ s[j] # Space /\ s[j] # Colon
      BY <1>1, <2>1, <2>5
    <3>2. e \in j + 1 .. Len(s) + 1 /\ Word(SubSeq(s, j, e - 1))
      BY <3>1, CutsWord
    <3>3. args[k] = <<SubSeq(s, j, e - 1)>> \o args[e]
      BY <1>1, <2>1, <2>2, <2>5
    <3> HIDE DEF e
    <3>4. Params(args[e])
      <4>1. e \in k + 1 .. n
        BY <1>1, <2>1, <3>2
      <4> QED BY <1>3, <4>1
    <3> QED BY <3>2, <3>3, <3>4, ParamsLonger
  <2>6. j > Len(s) \/ j <= Len(s)
    BY <1>1, <2>1
  <2> QED BY <2>3, <2>4, <2>5, <2>6
<1>4. \A k \in 1 .. n : k \in Good
  <2> HIDE DEF Good, n
  <2> QED BY <1>1, <1>3, DownInduction
<1> QED BY <1>4 DEF args

\* CommandStart is a place in the line, or its end.
LEMMA CommandStartFacts ==
  ASSUME NEW s \in Seq(Byte)
  PROVE  CommandStart(s) \in 1 .. Len(s) + 1
<1> DEFINE i == SkipSpaces(s, 1)
           j == IF i <= Len(s) /\ s[i] = Colon THEN WordEnd(s, i) ELSE i
<1>1. Len(s) \in Nat /\ 1 \in 1 .. Len(s) + 1
  OBVIOUS
<1>2. i \in 1 .. Len(s) + 1
  BY <1>1, SkipSpacesFacts
<1>3. WordEnd(s, i) \in i .. Len(s) + 1
  <2> HIDE DEF i
  <2> QED BY <1>2, WordEndFacts
<1> HIDE DEF i
<1>4. j \in 1 .. Len(s) + 1
  BY <1>2, <1>3
<1> HIDE DEF j
<1>5. CommandStart(s) = IF j <= Len(s) /\ s[j] = Space THEN j + 1 ELSE j
  BY DEF CommandStart, i, j
<1> QED BY <1>1, <1>4, <1>5

\* A payload the dispatcher may get.
Payload(p) ==
  /\ p.command \in Seq(Byte) /\ LineEnds(p.command, 1) = {}
  /\ \A i \in DOMAIN p.command : p.command[i] # Space
  /\ Params(p.params)

\* Whatever the line, parseMessage gives a payload.
LEMMA ParseMessageFacts ==
  ASSUME NEW s \in Seq(Byte), LineEnds(s, 1) = {}
  PROVE  Payload(ParseMessage(s))
<1> DEFINE i == CommandStart(s)
           k == WordEnd(s, i)
           c == SubSeq(s, i, k - 1)
<1>1. i \in 1 .. Len(s) + 1 /\ Len(s) \in Nat
  BY CommandStartFacts
<1> HIDE DEF i
<1>2. k \in i .. Len(s) + 1 /\ \A j \in i .. k - 1 : s[j] # Space
  BY <1>1, WordEndFacts
<1> HIDE DEF k
<1>3. c \in Seq(Byte) /\ LineEnds(c, 1) = {}
  BY <1>1, <1>2, NoEndWithin
<1>4. Len(c) = k - i /\ \A j \in 1 .. k - i : c[j] = s[i + j - 1]
  BY <1>1, <1>2
<1> HIDE DEF c
<1>5. ASSUME NEW j \in DOMAIN c PROVE c[j] # Space
  <2>1. j \in 1 .. k - i
    BY <1>3, <1>4
  <2>2. i + j - 1 \in i .. k - 1
    BY <1>1, <1>2, <2>1
  <2> QED BY <1>2, <1>4, <2>1, <2>2
<1>6. Params(GetArgs(s)[k])
  <2>1. k \in 1 .. Len(s) + 1
    BY <1>1, <1>2
  <2> QED BY <2>1, GetArgsFacts
<1>7. ParseMessage(s) = [command |-> c, params |-> GetArgs(s)[k]]
  BY DEF ParseMessage, c, k, i
<1>8. ParseMessage(s).command = c /\ ParseMessage(s).params = GetArgs(s)[k]
  BY <1>7
<1> QED BY <1>3, <1>5, <1>6, <1>8 DEF Payload

-----------------------------------------------------------------------------
(* What occurs where.                                                      *)

\* w occurs in s after p bytes.
At(s, p, w) ==
  /\ p \in Nat /\ p + Len(w) <= Len(s)
  /\ \A x \in 1 .. Len(w) : s[p + x] = w[x]

\* What occurs, occurs in parts.
LEMMA AtConcat ==
  ASSUME NEW s \in Seq(Byte), NEW p \in Nat, NEW u \in Seq(Byte), NEW v \in Seq(Byte),
         At(s, p, u \o v)
  PROVE  At(s, p, u) /\ At(s, p + Len(u), v)
<1> DEFINE w == u \o v
           m == Len(u)
           n == Len(v)
<1>1. /\ Len(w) = m + n /\ m \in Nat /\ n \in Nat
      /\ \A i \in 1 .. m : w[i] = u[i]
      /\ \A i \in 1 .. n : w[m + i] = v[i]
  BY ConcatAt
<1>2. p + Len(w) <= Len(s) /\ \A x \in 1 .. Len(w) : s[p + x] = w[x]
  BY DEF At
<1>3. Len(s) \in Nat
  OBVIOUS
<1> HIDE DEF w, m, n
<1>4. ASSUME NEW x \in 1 .. m PROVE s[p + x] = u[x]
  <2>1. x \in 1 .. Len(w)
    BY <1>1
  <2> QED BY <1>1, <1>2, <2>1
<1>5. ASSUME NEW x \in 1 .. n PROVE s[(p + m) + x] = v[x]
  <2>1. m + x \in 1 .. Len(w) /\ p + (m + x) = (p + m) + x
    BY <1>1
  <2> QED BY <1>1, <1>2, <2>1
<1>6. p + m <= Len(s) /\ (p + m) + n <= Len(s) /\ p + m \in Nat
  BY <1>1, <1>2, <1>3
<1> QED BY <1>4, <1>5, <1>6 DEF At, m, n

\* The parts of s occur in s.
LEMMA AtSelf ==
  ASSUME NEW s \in Seq(Byte), NEW w \in Seq(Byte), NEW x \in Seq(Byte), s = w \o x
  PROVE  At(s, 0, w) /\ At(s, Len(w), x) /\ Len(s) = Len(w) + Len(x)
<1>1. At(s, 0, s)
  BY DEF At
<1>2. At(s, 0, w) /\ At(s, 0 + Len(w), x)
  BY <1>1, AtConcat
<1>3. 0 + Len(w) = Len(w) /\ Len(s) = Len(w) + Len(x)
  OBVIOUS
<1> QED BY <1>2, <1>3

\* What is cut there is what occurs there.
LEMMA AtSubSeq ==
  ASSUME NEW s \in Seq(Byte), NEW p, NEW w \in Seq(Byte), At(s, p, w)
  PROVE  SubSeq(s, p + 1, p + Len(w)) = w
<1> DEFINE c == SubSeq(s, p + 1, p + Len(w))
           n == Len(w)
<1>1. p \in Nat /\ n \in Nat /\ p + n <= Len(s) /\ \A x \in 1 .. n : s[p + x] = w[x]
  BY DEF At
<1>2. c \in Seq(Byte) /\ Len(c) = n /\ \A x \in 1 .. n : c[x] = s[p + x]
  BY <1>1
<1> HIDE DEF c
<1>3. c = w
  BY <1>1, <1>2, SeqEqual
<1> QED BY <1>3 DEF c

\* SkipSpaces passes the spaces that occur, and no more.
LEMMA SkipsTo ==
  ASSUME NEW s \in Seq(Byte), NEW p, NEW k \in Nat, At(s, p, Spaces(k)),
         p + k = Len(s) \/ s[p + k + 1] # Space
  PROVE  SkipSpaces(s, p + 1) = p + k + 1
<1> DEFINE r == SkipSpaces(s, p + 1)
<1>1. p \in Nat /\ p + k <= Len(s) /\ Len(s) \in Nat /\ \A x \in 1 .. k : s[p + x] = Space
  BY DEF At, Spaces
<1>2. p + 1 \in 1 .. Len(s) + 1
  BY <1>1
<1>3. /\ r \in p + 1 .. Len(s) + 1 /\ (r <= Len(s) => s[r] # Space)
      /\ \A j \in p + 1 .. r - 1 : s[j] = Space
  BY <1>2, SkipSpacesFacts
<1> HIDE DEF r
<1>4. ~ (r < p + k + 1)
  <2> SUFFICES ASSUME r < p + k + 1 PROVE FALSE
    OBVIOUS
  <2>1. r - p \in 1 .. k /\ p + (r - p) = r /\ r <= Len(s)
    BY <1>1, <1>3
  <2> QED BY <1>1, <1>3, <2>1
<1>5. ~ (p + k + 1 < r)
  <2> SUFFICES ASSUME p + k + 1 < r PROVE FALSE
    OBVIOUS
  <2>1. p + k + 1 \in p + 1 .. r - 1 /\ p + k # Len(s)
    BY <1>1, <1>3
  <2> QED BY <1>3, <2>1
<1> QED BY <1>1, <1>3, <1>4, <1>5 DEF r

\* WordEnd passes the word that occurs, and no more.
LEMMA EndsAt ==
  ASSUME NEW s \in Seq(Byte), NEW p, NEW w \in Seq(Byte), At(s, p, w),
         \A i \in DOMAIN w : w[i] # Space,
         p + Len(w) = Len(s) \/ s[p + Len(w) + 1] = Space
  PROVE  WordEnd(s, p + 1) = p + Len(w) + 1
<1> DEFINE r == WordEnd(s, p + 1)
           k == Len(w)
<1>1. /\ p \in Nat /\ k \in Nat /\ p + k <= Len(s) /\ Len(s) \in Nat
      /\ \A x \in 1 .. k : s[p + x] # Space
  BY DEF At
<1>2. p + 1 \in 1 .. Len(s) + 1
  BY <1>1
<1>3. /\ r \in p + 1 .. Len(s) + 1 /\ (r <= Len(s) => s[r] = Space)
      /\ \A j \in p + 1 .. r - 1 : s[j] # Space
  BY <1>2, WordEndFacts
<1>6. p + k = Len(s) \/ s[p + k + 1] = Space
  OBVIOUS
<1> HIDE DEF r, k
<1>4. ~ (r < p + k + 1)
  <2> SUFFICES ASSUME r < p + k + 1 PROVE FALSE
    OBVIOUS
  <2>1. r - p \in 1 .. k /\ p + (r - p) = r /\ r <= Len(s)
    BY <1>1, <1>3
  <2> QED BY <1>1, <1>3, <2>1
<1>5. ~ (p + k + 1 < r)
  <2> SUFFICES ASSUME p + k + 1 < r PROVE FALSE
    OBVIOUS
  <2>1. p + k + 1 \in p + 1 .. r - 1 /\ p + k # Len(s)
    BY <1>1, <1>3
  <2> QED BY <1>3, <1>6, <2>1
<1> QED BY <1>1, <1>3, <1>4, <1>5 DEF r, k

-----------------------------------------------------------------------------
(* There is one way to cut bytes into lines.                               *)

\* Of two lines that occur at the same place, neither is longer.
LEMMA NotLonger ==
  ASSUME NEW s \in Seq(Byte), NEW p, NEW u \in Seq(Byte), NEW v \in Seq(Byte),
         At(s, p, u \o <<CR, LF>>), At(s, p, v \o <<CR, LF>>), LineEnds(v, 1) = {}
  PROVE  ~ (Len(u) < Len(v))
<1> SUFFICES ASSUME Len(u) < Len(v) PROVE FALSE
  OBVIOUS
<1> DEFINE e == <<CR, LF>>
           m == Len(u)
           n == Len(v)
<1>1. e \in Seq(Byte) /\ Len(e) = 2 /\ e[1] = CR /\ e[2] = LF
  BY LineEndIsBytes
<1>2. p \in Nat /\ m \in Nat /\ n \in Nat /\ m < n /\ Len(s) \in Nat
  BY DEF At
<1> HIDE DEF e
<1>3. At(s, p, u) /\ At(s, p + m, e) /\ At(s, p, v) /\ At(s, p + n, e)
  <2>1. At(s, p, u \o e) /\ At(s, p, v \o e)
    BY DEF e
  <2> QED BY <1>1, <1>2, <2>1, AtConcat
<1> HIDE DEF m, n
<1>4. /\ \A x \in 1 .. 2 : s[(p + m) + x] = e[x] /\ s[(p + n) + x] = e[x]
      /\ \A x \in 1 .. n : s[p + x] = v[x]
  <2>1. \A x \in 1 .. Len(e) : s[(p + m) + x] = e[x] /\ s[(p + n) + x] = e[x]
    BY <1>3 DEF At
  <2>2. \A x \in 1 .. n : s[p + x] = v[x]
    BY <1>3 DEF At, n
  <2> QED BY <1>1, <2>1, <2>2
<1>5. s[(p + m) + 1] = CR /\ s[(p + m) + 2] = LF /\ s[(p + n) + 1] = CR
  <2>1. 1 \in 1 .. 2 /\ 2 \in 1 .. 2
    OBVIOUS
  <2> QED BY <1>1, <1>4, <2>1
<1>6. m + 1 \in 1 .. n /\ p + (m + 1) = (p + m) + 1
  BY <1>2
<1>7. v[m + 1] = CR
  BY <1>4, <1>5, <1>6
<1>8. CASE m + 1 = n
  <2>1. (p + m) + 2 = (p + n) + 1
    BY <1>2, <1>8
  <2>2. CR = LF
    BY <1>5, <2>1
  <2> QED BY <2>2, InputAssumption
<1>9. CASE m + 1 # n
  <2>1. m + 2 \in 1 .. n /\ p + (m + 2) = (p + m) + 2 /\ m + 1 \in 1 .. n - 1 /\ (m + 1) + 1 = m + 2
    BY <1>2, <1>9
  <2>2. v[m + 2] = LF
    BY <1>4, <1>5, <2>1
  <2>3. m + 1 \in LineEnds(v, 1)
    BY <1>7, <2>1, <2>2 DEF LineEnds, n
  <2> QED BY <2>3
<1> QED BY <1>8, <1>9

\* Two lines that occur at the same place are one.
LEMMA SameLine ==
  ASSUME NEW s \in Seq(Byte), NEW p, NEW u \in Seq(Byte), NEW v \in Seq(Byte),
         At(s, p, u \o <<CR, LF>>), At(s, p, v \o <<CR, LF>>),
         LineEnds(u, 1) = {}, LineEnds(v, 1) = {}
  PROVE  u = v
<1>1. ~ (Len(u) < Len(v)) /\ ~ (Len(v) < Len(u))
  BY NotLonger
<1>2. Len(u) = Len(v) /\ Len(u) \in Nat
  BY <1>1
<1>3. At(s, p, u) /\ At(s, p, v)
  <2>1. p \in Nat
    BY DEF At
  <2> QED BY <2>1, AtConcat, LineEndIsBytes
<1>4. \A x \in 1 .. Len(u) : u[x] = v[x]
  <2>1. \A x \in 1 .. Len(u) : s[p + x] = u[x]
    BY <1>3 DEF At
  <2>2. \A x \in 1 .. Len(v) : s[p + x] = v[x]
    BY <1>3 DEF At
  <2> QED BY <1>2, <2>1, <2>2
<1> QED BY <1>2, <1>4, SeqEqual

\* Each member of a sequence occurs where the members before it end.
LEMMA TraceAt ==
  ASSUME NEW s \in Seq(Byte), NEW p \in Nat, NEW seqs \in Seq(Seq(Byte)),
         NEW g \in [0 .. Len(seqs) -> Seq(Byte)], Traces(g, seqs), At(s, p, g[Len(seqs)])
  PROVE  \A k \in 0 .. Len(seqs) - 1 :
           /\ At(s, p + Len(g[k]), seqs[k + 1])
           /\ Len(g[k + 1]) = Len(g[k]) + Len(seqs[k + 1])
<1> DEFINE n == Len(seqs)
           S == {d \in Nat : d <= n /\ At(s, p, g[n - d])}
<1>1. n \in Nat /\ \A i \in 1 .. n : seqs[i] \in Seq(Byte)
  OBVIOUS
<1>2. \A k \in 0 .. n : g[k] \in Seq(Byte)
  OBVIOUS
<1>3. \A k \in 0 .. n - 1 : g[k + 1] = g[k] \o seqs[k + 1]
  BY DEF Traces
<1>4. At(s, p, g[n])
  OBVIOUS
<1> HIDE DEF n
<1>5. ASSUME NEW k \in 0 .. n - 1, At(s, p, g[k + 1])
      PROVE  At(s, p, g[k]) /\ At(s, p + Len(g[k]), seqs[k + 1])
  <2>1. g[k] \in Seq(Byte) /\ seqs[k + 1] \in Seq(Byte) /\ g[k + 1] = g[k] \o seqs[k + 1]
    <3>1. k \in 0 .. n /\ k + 1 \in 1 .. n
      BY <1>1
    <3> QED BY <1>1, <1>2, <1>3, <3>1
  <2>2. At(s, p, g[k] \o seqs[k + 1])
    BY <1>5, <2>1
  <2> QED BY <2>1, <2>2, AtConcat
<1>6. 0 \in S
  <2>1. n - 0 = n /\ 0 <= n
    BY <1>1
  <2> QED BY <1>4, <2>1
<1>7. ASSUME NEW d \in 0 .. n - 1, d \in S PROVE d + 1 \in S
  <2> DEFINE k == n - (d + 1)
  <2>1. k \in 0 .. n - 1 /\ k + 1 = n - d /\ d + 1 <= n /\ d + 1 \in Nat
    BY <1>1
  <2>2. At(s, p, g[n - d])
    BY <1>7
  <2> HIDE DEF k
  <2>3. At(s, p, g[k])
    BY <1>5, <2>1, <2>2
  <2> QED BY <2>1, <2>3 DEF k
<1>8. \A d \in 0 .. n : d \in S
  <2> HIDE DEF S
  <2> QED BY <1>1, <1>6, <1>7, UpInduction
<1>9. ASSUME NEW k \in 0 .. n - 1
      PROVE  /\ At(s, p + Len(g[k]), seqs[k + 1])
             /\ Len(g[k + 1]) = Len(g[k]) + Len(seqs[k + 1])
  <2>1. n - (k + 1) \in 0 .. n /\ n - (n - (k + 1)) = k + 1 /\ k \in 0 .. n /\ k + 1 \in 1 .. n
    BY <1>1
  <2>2. n - (k + 1) \in S
    <3> HIDE DEF S
    <3> QED BY <1>8, <2>1
  <2>3. At(s, p, g[k + 1])
    BY <2>1, <2>2
  <2>4. Len(g[k] \o seqs[k + 1]) = Len(g[k]) + Len(seqs[k + 1])
    BY <1>1, <1>2, <2>1, ConcatAt
  <2> QED BY <1>3, <1>5, <2>3, <2>4
<1> QED BY <1>9 DEF n

\* Where the lines of L occur in what begins with all of them.
LEMMA LinesAt ==
  ASSUME NEW L \in Seq(Seq(Byte)), NEW s \in Seq(Byte), At(s, 0, Joined(L))
  PROVE  \E g \in [0 .. Len(L) -> Seq(Byte)] :
           /\ g[0] = <<>> /\ g[Len(L)] = Joined(L)
           /\ \A k \in 0 .. Len(L) - 1 :
                g[k + 1] = g[k] \o (L[k + 1] \o <<CR, LF>>)
                /\ At(s, Len(g[k]), L[k + 1] \o <<CR, LF>>)
<1> DEFINE n  == Len(L)
           el == Ended(L)
<1>1. n \in Nat /\ el \in Seq(Seq(Byte)) /\ Joined(L) = FlattenSeq(el)
  <2>1. el \in Seq(Seq(Byte))
    BY EndedFacts
  <2>2. Joined(L) = FlattenSeq(el)
    BY DEF Joined, Ended
  <2> QED BY <2>1, <2>2
<1>2. Len(el) = n /\ \A k \in 1 .. n : el[k] = L[k] \o <<CR, LF>>
  <2>1. DOMAIN L = 1 .. n
    OBVIOUS
  <2> QED BY <1>1, <2>1 DEF Ended
<1> HIDE DEF n, el
<1>3. PICK g \in [0 .. n -> Seq(Byte)] : Traces(g, el) /\ FlattenSeq(el) = g[n]
  BY <1>1, <1>2, FlattenTrace
<1>4. g[0] = <<>> /\ \A k \in 0 .. n - 1 : g[k + 1] = g[k] \o el[k + 1]
  BY <1>2, <1>3 DEF Traces
<1>5. \A k \in 0 .. n - 1 : At(s, 0 + Len(g[k]), el[k + 1])
  <2>1. At(s, 0, g[Len(el)]) /\ g \in [0 .. Len(el) -> Seq(Byte)]
    BY <1>1, <1>2, <1>3
  <2>2. \A k \in 0 .. Len(el) - 1 : At(s, 0 + Len(g[k]), el[k + 1])
    BY <1>1, <1>3, <2>1, TraceAt
  <2> QED BY <1>2, <2>2
<1>6. ASSUME NEW k \in 0 .. n - 1
      PROVE  /\ g[k + 1] = g[k] \o (L[k + 1] \o <<CR, LF>>)
             /\ At(s, Len(g[k]), L[k + 1] \o <<CR, LF>>)
  <2>1. k + 1 \in 1 .. n /\ g[k] \in Seq(Byte)
    BY <1>1
  <2>2. 0 + Len(g[k]) = Len(g[k])
    BY <2>1
  <2> QED BY <1>2, <1>4, <1>5, <2>1, <2>2
<1>7. g[n] = Joined(L)
  BY <1>1, <1>3
<1> QED BY <1>4, <1>6, <1>7 DEF n

\* What was framed, K and the rest r, of what is made of the lines of L.
LEMMA SameLines ==
  ASSUME NEW K \in Seq(Seq(Byte)), NEW L \in Seq(Seq(Byte)),
         \A i \in DOMAIN K : LineEnds(K[i], 1) = {},
         \A i \in DOMAIN L : LineEnds(L[i], 1) = {},
         NEW r \in Seq(Byte), LineEnds(r, 1) = {}, NEW x \in Seq(Byte),
         (Joined(K) \o r) \o x = Joined(L)
  PROVE  /\ Len(K) <= Len(L)
         /\ \A i \in 1 .. Len(K) : K[i] = L[i]
         /\ x = <<>> => Len(K) = Len(L)
<1> DEFINE s == Joined(L)
           e == <<CR, LF>>
           m == Len(K)
           n == Len(L)
           jk == Joined(K)
<1>1. s \in Seq(Byte) /\ jk \in Seq(Byte) /\ m \in Nat /\ n \in Nat /\ Len(s) \in Nat
  BY JoinedIsBytes
<1>2. e \in Seq(Byte) /\ Len(e) = 2 /\ e[1] = CR /\ e[2] = LF
  BY LineEndIsBytes
<1>3. /\ \A i \in 1 .. m : K[i] \in Seq(Byte) /\ LineEnds(K[i], 1) = {}
      /\ \A i \in 1 .. n : L[i] \in Seq(Byte) /\ LineEnds(L[i], 1) = {}
  OBVIOUS
<1>4. s = (jk \o r) \o x
  OBVIOUS
<1>5. At(s, 0, jk) /\ At(s, Len(jk), r) /\ At(s, 0, s) /\ (x = <<>> => Len(jk) + Len(r) = Len(s))
  <2> HIDE DEF s, jk
  <2>1. jk \o r \in Seq(Byte) /\ Len(jk \o r) = Len(jk) + Len(r) /\ Len(jk) \in Nat
    BY <1>1, ConcatAt
  <2>2. At(s, 0, jk \o r) /\ Len(s) = Len(jk \o r) + Len(x)
    BY <1>1, <1>4, <2>1, AtSelf, ZenonT(30)
  <2>3. At(s, 0, jk) /\ At(s, 0 + Len(jk), r)
    BY <1>1, <2>2, AtConcat
  <2>4. 0 + Len(jk) = Len(jk)
    BY <2>1
  <2>5. At(s, 0, s)
    BY <1>1 DEF At
  <2>6. ASSUME x = <<>> PROVE Len(jk) + Len(r) = Len(s)
    <3>1. Len(x) = 0 /\ Len(r) \in Nat
      BY <2>6
    <3> QED BY <2>1, <2>2, <3>1
  <2> QED BY <2>3, <2>4, <2>5, <2>6
<1> HIDE DEF s
<1>6. PICK g \in [0 .. m -> Seq(Byte)] :
        /\ g[0] = <<>> /\ g[m] = jk
        /\ \A k \in 0 .. m - 1 : g[k + 1] = g[k] \o (K[k + 1] \o e) /\ At(s, Len(g[k]), K[k + 1] \o e)
  BY <1>1, <1>5, LinesAt
<1>7. PICK h \in [0 .. n -> Seq(Byte)] :
        /\ h[0] = <<>> /\ h[n] = s
        /\ \A k \in 0 .. n - 1 : h[k + 1] = h[k] \o (L[k + 1] \o e) /\ At(s, Len(h[k]), L[k + 1] \o e)
  BY <1>1, <1>5, LinesAt DEF s
<1>8. \A k \in 0 .. m : g[k] \in Seq(Byte)
  OBVIOUS
<1>9. \A k \in 0 .. n : h[k] \in Seq(Byte)
  OBVIOUS
<1> HIDE DEF e, m, n, jk
<1> DEFINE S == {k \in Nat : k <= n /\ h[k] = g[k] /\ \A i \in 1 .. k : K[i] = L[i]}
<1>10. 0 \in S
  <2>1. 0 <= n /\ h[0] = g[0] /\ \A i \in 1 .. 0 : FALSE
    BY <1>1, <1>6, <1>7
  <2> QED BY <2>1
<1>11. ASSUME NEW k \in 0 .. m - 1, k \in S PROVE k + 1 \in S
  <2>1. k <= n /\ h[k] = g[k] /\ \A i \in 1 .. k : K[i] = L[i]
    BY <1>11
  <2>2. k \in 0 .. m /\ k + 1 \in 1 .. m /\ k \in Nat /\ k + 1 \in Nat
    BY <1>1
  <2>3. g[k] \in Seq(Byte) /\ K[k + 1] \in Seq(Byte) /\ LineEnds(K[k + 1], 1) = {}
    BY <1>3, <1>8, <2>2
  <2>4. g[k + 1] = g[k] \o (K[k + 1] \o e) /\ At(s, Len(g[k]), K[k + 1] \o e)
    BY <1>6
  <2>5. k # n
    <3> SUFFICES ASSUME k = n PROVE FALSE
      OBVIOUS
    <3>1. g[k] = s
      BY <1>7, <2>1
    <3>2. At(s, Len(s) + Len(K[k + 1]), e)
      <4>1. At(s, Len(s), K[k + 1] \o e)
        BY <2>4, <3>1
      <4> QED BY <1>1, <1>2, <2>3, <4>1, AtConcat
    <3>3. Len(s) + Len(K[k + 1]) + 2 <= Len(s)
      BY <1>2, <3>2 DEF At
    <3>4. Len(K[k + 1]) \in Nat
      BY <2>3
    <3> QED BY <1>1, <3>3, <3>4, SMTT(30)
  <2>6. k \in 0 .. n - 1 /\ k + 1 \in 1 .. n
    BY <1>1, <2>1, <2>2, <2>5
  <2>7. h[k + 1] = h[k] \o (L[k + 1] \o e) /\ At(s, Len(h[k]), L[k + 1] \o e)
    BY <1>7, <2>6
  <2>8. K[k + 1] = L[k + 1]
    <3>1. L[k + 1] \in Seq(Byte) /\ LineEnds(L[k + 1], 1) = {}
      BY <1>3, <2>6
    <3>2. At(s, Len(g[k]), L[k + 1] \o <<CR, LF>>) /\ At(s, Len(g[k]), K[k + 1] \o <<CR, LF>>)
      BY <2>1, <2>4, <2>7 DEF e
    <3> QED BY <1>1, <2>3, <3>1, <3>2, SameLine
  <2>9. h[k + 1] = g[k + 1]
    BY <2>1, <2>4, <2>7, <2>8
  <2>10. \A i \in 1 .. k + 1 : i \in 1 .. k \/ i = k + 1
    BY <2>2
  <2>11. \A i \in 1 .. k + 1 : K[i] = L[i]
    BY <2>1, <2>8, <2>10
  <2>12. k + 1 <= n
    BY <2>6
  <2> QED BY <2>2, <2>9, <2>11, <2>12
<1>12. m \in S
  <2>1. \A k \in 0 .. m : k \in S
    <3> HIDE DEF S
    <3> QED BY <1>1, <1>10, <1>11, UpInduction
  <2>2. m \in 0 .. m
    BY <1>1
  <2> HIDE DEF S
  <2> QED BY <2>1, <2>2
<1>13. m <= n /\ h[m] = jk /\ \A i \in 1 .. m : K[i] = L[i]
  BY <1>6, <1>12
<1>14. ASSUME x = <<>>, m # n PROVE FALSE
  <2>1. m \in 0 .. n - 1 /\ m + 1 \in 1 .. n
    BY <1>1, <1>13, <1>14
  <2> DEFINE l == L[m + 1]
             p == Len(jk)
             a == Len(l)
  <2>2. l \in Seq(Byte) /\ a \in Nat /\ p \in Nat /\ Len(r) \in Nat
    BY <1>1, <1>3, <2>1, SMTT(30)
  <2>3. At(s, p, l \o e)
    BY <1>7, <1>13, <2>1
  <2>4. p + Len(r) = Len(s) /\ \A i \in 1 .. Len(r) : s[p + i] = r[i]
    BY <1>5, <1>14 DEF At
  <2> HIDE DEF l, p
  <2>5. At(s, p + a, e)
    BY <1>1, <1>2, <2>2, <2>3, AtConcat
  <2> HIDE DEF a
  <2>6. p + a + 2 <= Len(s) /\ \A i \in 1 .. 2 : s[(p + a) + i] = e[i]
    BY <1>2, <2>5 DEF At
  <2>7. s[(p + a) + 1] = CR /\ s[(p + a) + 2] = LF
    <3>1. 1 \in 1 .. 2 /\ 2 \in 1 .. 2
      OBVIOUS
    <3> QED BY <1>2, <2>6, <3>1
  <2>8. /\ a + 1 \in 1 .. Len(r) - 1 /\ a + 1 \in 1 .. Len(r) /\ a + 2 \in 1 .. Len(r)
        /\ p + (a + 1) = (p + a) + 1 /\ p + (a + 2) = (p + a) + 2 /\ (a + 1) + 1 = a + 2
    BY <1>1, <2>2, <2>4, <2>6, SMTT(30)
  <2>9. r[a + 1] = CR /\ r[a + 2] = LF
    BY <2>4, <2>7, <2>8
  <2>10. a + 1 \in LineEnds(r, 1)
    BY <2>8, <2>9 DEF LineEnds
  <2> QED BY <2>10
<1> QED BY <1>13, <1>14 DEF m, n

-----------------------------------------------------------------------------
(* What a client composes is read as it was meant.                         *)

\* A message a client composes: all its parameters need no colon, but a last one after a colon.
Message(m, colon) ==
  /\ m = [command |-> m.command, params |-> m.params]
  /\ m.command \in Command
  /\ m.params \in Seq(Seq(Plain))
  /\ \A i \in 1 .. Len(m.params) : (colon /\ i = Len(m.params)) \/ m.params[i] \in Middle

\* The bytes before a parameter's own, the spaces apart.
Mark(m, colon, i) == IF colon /\ i = Len(m.params) THEN <<Colon>> ELSE <<>>

\* A parameter as it is written.
Piece(m, gap, colon, i) == Spaces(gap) \o Mark(m, colon, i) \o m.params[i]

\* A message as it is written, its line end apart.
LineOf(m, colon, lead, prefix, gap, tail) ==
  Spaces(lead) \o prefix \o Written(m, gap, colon) \o Spaces(tail)

\* Spaces(n) is n bytes, none of them CR or LF.
LEMMA SpacesArePlain ==
  ASSUME NEW n \in Nat
  PROVE  Spaces(n) \in Seq(Plain) /\ Len(Spaces(n)) = n
<1>1. Space \in Plain
  BY DEF Plain
<1> QED BY <1>1 DEF Spaces

\* Plain bytes are bytes, in sequences too.
LEMMA PlainIsBytes ==
  Plain \subseteq Byte /\ Seq(Plain) \subseteq Seq(Byte) /\ Seq(Seq(Plain)) \subseteq Seq(Seq(Byte))
<1>1. Plain \subseteq Byte
  BY DEF Byte
<1>2. ASSUME NEW s \in Seq(Plain) PROVE s \in Seq(Byte)
  BY <1>1
<1>3. ASSUME NEW s \in Seq(Seq(Plain)) PROVE s \in Seq(Seq(Byte))
  <2>1. Len(s) \in Nat /\ s \in [1 .. Len(s) -> Seq(Plain)]
    OBVIOUS
  <2> DEFINE T == Seq(Byte)
  <2>2. s \in [1 .. Len(s) -> T]
    BY <1>2, <2>1
  <2> HIDE DEF T
  <2>3. s \in Seq(T)
    BY <2>1, <2>2, SMTT(30)
  <2> QED BY <2>3 DEF T
<1> QED BY <1>1, <1>2, <1>3

\* A prefix is empty or a colon, a word and a space.
LEMMA PrefixIsPlain ==
  ASSUME NEW prefix \in Prefix
  PROVE  /\ prefix \in Seq(Plain)
         /\ \/ prefix = <<>>
            \/ \E c \in Command : prefix = <<Colon>> \o c \o <<Space>>
<1> DEFINE c == CHOOSE w \in Command : TRUE
<1>1. c \in Command
  BY WordsAssumption
<1>2. prefix = <<>> \/ prefix = <<Colon>> \o c \o <<Space>>
  BY DEF Prefix
<1> HIDE DEF c
<1>3. c \in Seq(Plain)
  BY <1>1, WordsAssumption
<1> DEFINE before == <<Colon>> \o c \o <<Space>>
<1>4. before \in Seq(Plain)
  <2>1. Space \in Plain /\ Colon \in Plain
    BY DEF Plain
  <2> QED BY <1>3, <2>1
<1>5. <<>> \in Seq(Plain)
  OBVIOUS
<1> HIDE DEF before
<1>6. prefix = <<>> \/ prefix = before
  BY <1>2 DEF before
<1>7. prefix \in Seq(Plain)
  BY <1>4, <1>5, <1>6, Zenon
<1> QED BY <1>1, <1>2, <1>7

\* A written parameter has neither CR nor LF.
LEMMA PieceIsPlain ==
  ASSUME NEW m, NEW colon, Message(m, colon), NEW gap \in Nat, NEW i \in 1 .. Len(m.params)
  PROVE  /\ Spaces(gap) \in Seq(Plain) /\ Mark(m, colon, i) \in Seq(Plain)
         /\ m.params[i] \in Seq(Plain) /\ Piece(m, gap, colon, i) \in Seq(Plain)
<1>1. Spaces(gap) \in Seq(Plain)
  BY SpacesArePlain
<1>2. Mark(m, colon, i) \in Seq(Plain)
  <2>1. Colon \in Plain
    BY DEF Plain
  <2> QED BY <2>1 DEF Mark
<1>3. m.params[i] \in Seq(Plain)
  BY DEF Message
<1>4. Piece(m, gap, colon, i) \in Seq(Plain)
  BY <1>1, <1>2, <1>3 DEF Piece
<1> QED BY <1>1, <1>2, <1>3, <1>4

\* From p to the end x is the parameters of m, the kth of them after q[k - 1], and tail spaces.
ParamsAt(x, p, m, colon, gap, tail, q) ==
  LET n == Len(m.params)
  IN  /\ q \in [0 .. n -> Nat] /\ q[0] = p
      /\ \A k \in 0 .. n - 1 :
           /\ At(x, q[k], Piece(m, gap, colon, k + 1))
           /\ q[k + 1] = q[k] + Len(Piece(m, gap, colon, k + 1))
      /\ At(x, q[n], Spaces(tail)) /\ q[n] + tail = Len(x)

\* The parts of a composed line x.
Parts(x, m, colon, lead, prefix, gap, tail) ==
  /\ x \in Seq(Plain)
  /\ At(x, 0, Spaces(lead)) /\ At(x, lead, prefix) /\ At(x, lead + Len(prefix), m.command)
  /\ \E q : ParamsAt(x, lead + Len(prefix) + Len(m.command), m, colon, gap, tail, q)

\* Where what a client composed occurs in its line.
LEMMA LineParts ==
  ASSUME NEW m, NEW colon, Message(m, colon), NEW prefix \in Prefix,
         NEW lead \in Nat, NEW gap \in Nat, NEW tail \in Nat
  PROVE  Parts(LineOf(m, colon, lead, prefix, gap, tail), m, colon, lead, prefix, gap, tail)
<1> DEFINE n   == Len(m.params)
           c   == m.command
           ps  == [i \in DOMAIN m.params |-> Piece(m, gap, colon, i)]
           F   == FlattenSeq(ps)
           l   == Spaces(lead)
           t   == Spaces(tail)
           x   == LineOf(m, colon, lead, prefix, gap, tail)
<1>1. n \in Nat /\ DOMAIN m.params = 1 .. n /\ c \in Seq(Plain)
  BY WordsAssumption DEF Message
<1>2. ps \in Seq(Seq(Plain)) /\ Len(ps) = n /\ \A i \in 1 .. n : ps[i] = Piece(m, gap, colon, i)
  <2>1. \A i \in 1 .. n : Piece(m, gap, colon, i) \in Seq(Plain)
    BY PieceIsPlain
  <2> HIDE DEF n
  <2> QED BY <1>1, <2>1
<1>3. l \in Seq(Plain) /\ Len(l) = lead /\ t \in Seq(Plain) /\ Len(t) = tail /\ prefix \in Seq(Plain)
  BY SpacesArePlain, PrefixIsPlain
<1>4. x = ((l \o prefix) \o (c \o F)) \o t
  BY DEF LineOf, Written, Piece, Mark
<1> HIDE DEF n, c, ps, l, t, x
<1>5. PICK g \in [0 .. n -> Seq(Plain)] : Traces(g, ps) /\ F = g[n]
  BY <1>2, FlattenTrace
<1> HIDE DEF F
<1>6. F \in Seq(Plain)
  BY <1>1, <1>5
<1>7. l \o prefix \in Seq(Plain) /\ Len(l \o prefix) = lead + Len(prefix) /\ Len(prefix) \in Nat
  BY <1>3, ConcatAt
<1>8. c \o F \in Seq(Plain) /\ Len(c \o F) = Len(c) + Len(F) /\ Len(c) \in Nat /\ Len(F) \in Nat
  BY <1>1, <1>6, ConcatAt
<1> DEFINE lp == l \o prefix
           cf == c \o F
           a  == lead + Len(prefix)
<1>9. lp \o cf \in Seq(Plain) /\ Len(lp \o cf) = Len(lp) + Len(cf)
  BY <1>7, <1>8, ConcatAt
<1>10. x \in Seq(Plain)
  BY <1>3, <1>4, <1>9
<1>11. Seq(Plain) \subseteq Seq(Byte)
  BY PlainIsBytes
<1>12. /\ l \in Seq(Byte) /\ prefix \in Seq(Byte) /\ c \in Seq(Byte) /\ F \in Seq(Byte)
       /\ t \in Seq(Byte) /\ x \in Seq(Byte) /\ lp \in Seq(Byte) /\ cf \in Seq(Byte)
       /\ lp \o cf \in Seq(Byte)
  BY <1>1, <1>3, <1>6, <1>7, <1>8, <1>9, <1>10, <1>11
<1>13. Len(lp) = a /\ Len(cf) = Len(c) + Len(F) /\ a \in Nat
  BY <1>7, <1>8
<1>14. x = (lp \o cf) \o t
  BY <1>4
<1> HIDE DEF lp, cf
<1>15. At(x, 0, lp \o cf) /\ At(x, Len(lp \o cf), t) /\ Len(x) = Len(lp \o cf) + Len(t)
  <2> DEFINE w == lp \o cf
  <2>1. w \in Seq(Byte) /\ t \in Seq(Byte) /\ x \in Seq(Byte) /\ x = w \o t
    BY <1>12, <1>14
  <2> HIDE DEF w
  <2>2. At(x, 0, w) /\ At(x, Len(w), t) /\ Len(x) = Len(w) + Len(t)
    BY <2>1, AtSelf
  <2> QED BY <2>2 DEF w
<1>16. At(x, 0, lp) /\ At(x, 0 + Len(lp), cf)
  BY <1>12, <1>15, AtConcat
<1>17. At(x, 0, l) /\ At(x, 0 + Len(l), prefix)
  BY <1>12, <1>16, AtConcat DEF lp
<1>18. At(x, a, cf)
  <2>1. 0 + Len(lp) = a
    BY <1>13
  <2> QED BY <1>16, <2>1
<1>19. At(x, a, c) /\ At(x, a + Len(c), F)
  BY <1>12, <1>13, <1>18, AtConcat DEF cf
<1>20. At(x, lead, prefix)
  <2>1. 0 + Len(l) = lead
    BY <1>3
  <2> QED BY <1>17, <2>1
<1> DEFINE p == a + Len(c)
           q == [k \in 0 .. n |-> p + Len(g[k])]
<1>21. p \in Nat /\ \A k \in 0 .. n : g[k] \in Seq(Plain) /\ Len(g[k]) \in Nat
  BY <1>5, <1>8, <1>13
<1> HIDE DEF a
<1> HIDE DEF p
<1>22. q \in [0 .. n -> Nat] /\ \A k \in 0 .. n : q[k] = p + Len(g[k])
  BY <1>21
<1> HIDE DEF q
<1>23. q[0] = p
  <2>1. 0 \in 0 .. n /\ g[0] = <<>>
    BY <1>1, <1>5 DEF Traces
  <2>2. Len(g[0]) = 0
    BY <2>1
  <2> QED BY <1>21, <1>22, <2>1, <2>2
<1>24. \A k \in 0 .. n - 1 : At(x, p + Len(g[k]), ps[k + 1]) /\ Len(g[k + 1]) = Len(g[k]) + Len(ps[k + 1])
  <2>1. ps \in Seq(Seq(Byte))
    BY <1>2, PlainIsBytes
  <2>2. g \in [0 .. Len(ps) -> Seq(Byte)]
    BY <1>2, <1>5, <1>11
  <2>3. At(x, p, g[Len(ps)])
    BY <1>2, <1>5, <1>19 DEF p
  <2>4. \A k \in 0 .. Len(ps) - 1 :
          At(x, p + Len(g[k]), ps[k + 1]) /\ Len(g[k + 1]) = Len(g[k]) + Len(ps[k + 1])
    <3>1. /\ x \in Seq(Byte) /\ p \in Nat /\ ps \in Seq(Seq(Byte))
          /\ g \in [0 .. Len(ps) -> Seq(Byte)] /\ Traces(g, ps) /\ At(x, p, g[Len(ps)])
      BY <1>5, <1>12, <1>21, <2>1, <2>2, <2>3
    <3> QED BY ONLY <3>1, TraceAt
  <2> QED BY <1>2, <2>4
<1>25. ASSUME NEW k \in 0 .. n - 1
       PROVE  /\ At(x, q[k], Piece(m, gap, colon, k + 1))
              /\ q[k + 1] = q[k] + Len(Piece(m, gap, colon, k + 1))
  <2>1. k \in 0 .. n /\ k + 1 \in 0 .. n /\ k + 1 \in 1 .. n
    BY <1>1
  <2>2. /\ q[k] = p + Len(g[k]) /\ q[k + 1] = p + Len(g[k + 1])
        /\ ps[k + 1] = Piece(m, gap, colon, k + 1)
    BY <1>2, <1>22, <2>1
  <2>3. At(x, p + Len(g[k]), ps[k + 1]) /\ Len(g[k + 1]) = Len(g[k]) + Len(ps[k + 1])
    BY <1>24
  <2>4. Len(g[k]) \in Nat /\ Len(ps[k + 1]) \in Nat /\ Len(g[k + 1]) \in Nat
    <3>1. ps[k + 1] \in Seq(Plain)
      BY <1>2, <2>1
    <3> QED BY <1>21, <2>1, <3>1
  <2>5. p + Len(g[k + 1]) = (p + Len(g[k])) + Len(ps[k + 1])
    <3>1. \A u, v \in Nat : p + (u + v) = (p + u) + v
      BY <1>21
    <3>2. p + (Len(g[k]) + Len(ps[k + 1])) = (p + Len(g[k])) + Len(ps[k + 1])
      BY <2>4, <3>1
    <3>3. Len(g[k + 1]) = Len(g[k]) + Len(ps[k + 1])
      BY <2>3
    <3> QED BY <3>2, <3>3
  <2> QED BY <2>2, <2>3, <2>5
<1>26. q[n] = Len(lp \o cf)
  <2>1. n \in 0 .. n /\ q[n] = p + Len(F)
    BY <1>1, <1>5, <1>22
  <2>2. Len(lp \o cf) = a + (Len(c) + Len(F))
    BY <1>9, <1>13 DEF lp, cf
  <2> QED BY <1>8, <1>13, <2>1, <2>2 DEF p
<1>27. At(x, q[n], t) /\ q[n] + tail = Len(x)
  BY <1>3, <1>15, <1>26
<1>28. q[0] = lead + Len(prefix) + Len(c)
  BY <1>23 DEF p, a
<1>29. ParamsAt(x, lead + Len(prefix) + Len(m.command), m, colon, gap, tail, q)
  BY <1>22, <1>25, <1>27, <1>28 DEF ParamsAt, n, c, t
<1>30. At(x, lead + Len(prefix), m.command)
  BY <1>19 DEF a, c
<1> QED BY <1>10, <1>17, <1>20, <1>29, <1>30 DEF Parts, x, l

\* Only spaces are left.
LEMMA NoArg ==
  ASSUME NEW s \in Seq(Byte), NEW p, NEW k \in Nat, At(s, p, Spaces(k)), p + k = Len(s)
  PROVE  GetArgs(s)[p + 1] = <<>>
<1>1. p \in Nat /\ p + 1 \in 1 .. Len(s) + 1 /\ Len(s) \in Nat
  BY DEF At
<1>2. SkipSpaces(s, p + 1) = p + k + 1
  BY SkipsTo
<1>3. p + k + 1 > Len(s)
  BY <1>1
<1>4. GetArgs(s)[p + 1] = ArgsAt(s, GetArgs(s), p + 1)
  BY <1>1, GetArgsUnfolds
<1> QED BY <1>2, <1>3, <1>4 DEF ArgsAt

\* A parameter after a colon is the last.
LEMMA LastArg ==
  ASSUME NEW s \in Seq(Byte), NEW p, NEW gap \in Nat, NEW w \in Seq(Byte),
         At(s, p, Spaces(gap) \o <<Colon>> \o w), p + (gap + 1 + Len(w)) = Len(s)
  PROVE  GetArgs(s)[p + 1] = <<w>>
<1>1. p \in Nat /\ Len(s) \in Nat /\ Len(w) \in Nat
  BY DEF At
<1>2. /\ Spaces(gap) \in Seq(Byte) /\ Len(Spaces(gap)) = gap
      /\ <<Colon>> \in Seq(Byte) /\ Len(<<Colon>>) = 1 /\ <<Colon>>[1] = Colon
  <2>1. Colon \in Byte
    BY DEF Byte, Plain
  <2> QED BY <2>1, SpacesArePlain, PlainIsBytes
<1> DEFINE l == Spaces(gap)
           c == <<Colon>>
           j == p + gap + 1
<1> HIDE DEF l, c
<1>3. l \o c \in Seq(Byte) /\ Len(l \o c) = gap + 1
  BY <1>2, ConcatAt DEF l, c
<1>4. At(s, p, l \o c) /\ At(s, p + Len(l \o c), w)
  <2>1. At(s, p, (l \o c) \o w)
    BY DEF l, c
  <2> QED BY <1>1, <1>3, <2>1, AtConcat
<1>5. At(s, p, l) /\ At(s, p + gap, c)
  <2>1. At(s, p, l) /\ At(s, p + Len(l), c)
    BY <1>1, <1>2, <1>4, AtConcat DEF l, c
  <2> QED BY <1>2, <2>1 DEF l
<1>6. At(s, j, w)
  <2>1. p + Len(l \o c) = j
    BY <1>1, <1>3
  <2> QED BY <1>4, <2>1
<1>7. s[j] = Colon
  <2>1. \A x \in 1 .. 1 : s[(p + gap) + x] = c[x]
    BY <1>2, <1>5 DEF At, c
  <2>2. 1 \in 1 .. 1
    OBVIOUS
  <2> QED BY <1>2, <2>1, <2>2 DEF c
<1>8. SkipSpaces(s, p + 1) = j
  <2>1. s[p + gap + 1] # Space
    BY <1>7, InputAssumption
  <2> QED BY <1>5, <2>1, SkipsTo DEF l
<1>9. SubSeq(s, j + 1, Len(s)) = w
  <2>1. j + Len(w) = Len(s)
    BY <1>1
  <2> HIDE DEF j
  <2>2. SubSeq(s, j + 1, j + Len(w)) = w
    BY <1>6, AtSubSeq
  <2> QED BY <2>1, <2>2
<1>10. p + 1 \in 1 .. Len(s) + 1 /\ ~ (j > Len(s))
  BY <1>1
<1>11. GetArgs(s)[p + 1] = ArgsAt(s, GetArgs(s), p + 1)
  BY <1>10, GetArgsUnfolds
<1> HIDE DEF j
<1> QED BY <1>7, <1>8, <1>9, <1>10, <1>11 DEF ArgsAt

\* w can be written without a colon.
NeedsNoColon(w) == w # <<>> /\ w[1] # Colon /\ \A i \in DOMAIN w : w[i] # Space

\* w occurs in s from p to e, after spaces, and is all of a word.
WordAt(s, p, gap, w, e) ==
  /\ w \in Seq(Byte) /\ gap \in Nat /\ NeedsNoColon(w)
  /\ At(s, p, Spaces(gap) \o w) /\ e = p + (gap + Len(w))
  /\ e = Len(s) \/ s[e + 1] = Space

\* getArgs reads w at p and goes on at e.
ReadsWord(s, p, w, e) == GetArgs(s)[p + 1] = <<w>> \o GetArgs(s)[e + 1]

\* A word, then the others.
LEMMA OneArg ==
  ASSUME NEW s \in Seq(Byte), NEW p \in Nat, NEW gap \in Nat, NEW w \in Seq(Byte), NEW e \in Nat,
         WordAt(s, p, gap, w, e)
  PROVE  ReadsWord(s, p, w, e)
<1>a. /\ w \in Seq(Byte) /\ gap \in Nat /\ NeedsNoColon(w)
      /\ At(s, p, Spaces(gap) \o w) /\ e = p + (gap + Len(w))
      /\ e = Len(s) \/ s[e + 1] = Space
  BY DEF WordAt
<1>1. p \in Nat /\ Len(s) \in Nat /\ Len(w) \in Nat
  BY <1>a DEF At
<1>0. w # <<>> /\ w[1] # Colon /\ \A i \in DOMAIN w : w[i] # Space
  BY <1>a DEF NeedsNoColon
<1>2. Spaces(gap) \in Seq(Byte) /\ Len(Spaces(gap)) = gap
  BY <1>a, SpacesArePlain, PlainIsBytes
<1> DEFINE j == p + gap + 1
<1>3. At(s, p, Spaces(gap)) /\ At(s, p + gap, w)
  BY <1>a, <1>1, <1>2, AtConcat
<1>4. s[j] = w[1] /\ 1 \in DOMAIN w /\ ~ (j > Len(s))
  <2>1. 1 \in 1 .. Len(w)
    BY <1>0, <1>1
  <2>2. /\ (p + gap) + Len(w) <= Len(s)
        /\ \A x \in 1 .. Len(w) : s[(p + gap) + x] = w[x]
    BY <1>a, <1>3 DEF At
  <2>3. 1 \in DOMAIN w
    BY <1>a, <2>1
  <2> QED BY <1>a, <1>1, <2>1, <2>2, <2>3
<1>5. s[j] # Space /\ s[j] # Colon
  BY <1>0, <1>4
<1>6. SkipSpaces(s, p + 1) = j
  BY <1>a, <1>3, <1>5, SkipsTo
<1>7. e = (p + gap) + Len(w) /\ e + 1 = (p + gap) + Len(w) + 1
  BY <1>a, <1>1
<1>8. WordEnd(s, j) = e + 1
  <2>1. (p + gap) + Len(w) = Len(s) \/ s[(p + gap) + Len(w) + 1] = Space
    BY <1>a, <1>7
  <2>2. WordEnd(s, (p + gap) + 1) = (p + gap) + Len(w) + 1
    BY <1>a, <1>0, <1>3, <2>1, EndsAt
  <2> QED BY <1>7, <2>2
<1>9. SubSeq(s, j, (e + 1) - 1) = w
  <2>1. SubSeq(s, (p + gap) + 1, (p + gap) + Len(w)) = w
    BY <1>a, <1>3, AtSubSeq
  <2>2. (e + 1) - 1 = (p + gap) + Len(w)
    BY <1>1, <1>7
  <2> QED BY <2>1, <2>2
<1>10. p + 1 \in 1 .. Len(s) + 1
  BY <1>a, <1>1, <1>4
<1>11. GetArgs(s)[p + 1] = ArgsAt(s, GetArgs(s), p + 1)
  BY <1>10, GetArgsUnfolds
<1> HIDE DEF j
<1>12. GetArgs(s)[p + 1] = <<w>> \o GetArgs(s)[e + 1]
  BY <1>4, <1>5, <1>6, <1>8, <1>9, <1>11 DEF ArgsAt
<1> QED BY <1>12 DEF ReadsWord

\* Spaces come first.
LEMMA SpaceFirst ==
  ASSUME NEW s \in Seq(Byte), NEW p, NEW gap \in Nat \ {0}, NEW w \in Seq(Byte),
         At(s, p, Spaces(gap) \o w)
  PROVE  s[p + 1] = Space
<1>1. Spaces(gap) \in Seq(Byte) /\ Len(Spaces(gap)) = gap
  BY SpacesArePlain, PlainIsBytes
<1>2. p \in Nat
  BY DEF At
<1>3. At(s, p, Spaces(gap))
  BY <1>1, <1>2, AtConcat
<1>4. \A x \in 1 .. gap : s[p + x] = Spaces(gap)[x]
  BY <1>1, <1>3 DEF At
<1>5. 1 \in 1 .. gap /\ Spaces(gap)[1] = Space
  BY DEF Spaces
<1> QED BY <1>4, <1>5

\* getArgs from where the parameters begin to occur.
LEMMA ArgsReadBack ==
  ASSUME NEW m, NEW colon, Message(m, colon), NEW s \in Seq(Byte),
         NEW gap \in Nat \ {0}, NEW tail \in Nat, colon => tail = 0,
         NEW p, NEW q, ParamsAt(s, p, m, colon, gap, tail, q)
  PROVE  /\ p = Len(s) \/ s[p + 1] = Space
         /\ GetArgs(s)[p + 1] = m.params
<1> DEFINE ps == m.params
           n  == Len(ps)
<1>0. /\ q \in [0 .. n -> Nat] /\ q[0] = p
      /\ \A k \in 0 .. n - 1 :
           /\ At(s, q[k], Piece(m, gap, colon, k + 1))
           /\ q[k + 1] = q[k] + Len(Piece(m, gap, colon, k + 1))
      /\ At(s, q[n], Spaces(tail)) /\ q[n] + tail = Len(s)
  BY DEF ParamsAt
<1>1. n \in Nat /\ Len(s) \in Nat /\ ps \in Seq(Seq(Plain)) /\ \A k \in 0 .. n : q[k] \in Nat
  BY <1>0 DEF Message
<1>2. ASSUME NEW k \in 0 .. n - 1
      PROVE  /\ At(s, q[k], Piece(m, gap, colon, k + 1))
             /\ q[k + 1] = q[k] + Len(Piece(m, gap, colon, k + 1))
             /\ k + 1 \in 1 .. n /\ k \in 0 .. n /\ k + 1 \in 0 .. n
  BY <1>0, <1>1
<1>3. At(s, q[n], Spaces(tail)) /\ q[n] + tail = Len(s)
  BY <1>0
<1>4. \A i \in 1 .. n : (colon /\ i = n) \/ ps[i] \in Middle
  BY DEF Message
<1>5. \A i \in 1 .. n : Mark(m, colon, i) = IF colon /\ i = n THEN <<Colon>> ELSE <<>>
  BY DEF Mark
<1>6. \A i \in 1 .. n :
        /\ Spaces(gap) \in Seq(Byte) /\ Len(Spaces(gap)) = gap
        /\ Mark(m, colon, i) \in Seq(Byte) /\ ps[i] \in Seq(Byte)
        /\ Piece(m, gap, colon, i) = Spaces(gap) \o Mark(m, colon, i) \o ps[i]
  BY PieceIsPlain, PlainIsBytes, SpacesArePlain DEF Piece
<1> HIDE DEF n, ps
<1>7. ASSUME NEW k \in 0 .. n PROVE q[k] = Len(s) \/ s[q[k] + 1] = Space
  <2>1. CASE k = n
    <3>1. CASE tail = 0
      BY <1>1, <1>3, <2>1, <3>1
    <3>2. CASE tail # 0
      <4>1. At(s, q[n], Spaces(tail) \o <<>>) /\ <<>> \in Seq(Byte) /\ tail \in Nat \ {0}
        <5>1. Spaces(tail) \o <<>> = Spaces(tail)
          BY SpacesArePlain
        <5> QED BY <1>3, <3>2, <5>1
      <4> QED BY <2>1, <4>1, SpaceFirst
    <3> QED BY <3>1, <3>2
  <2>2. CASE k # n
    <3>1. k \in 0 .. n - 1 /\ k + 1 \in 1 .. n
      BY <1>1, <2>2
    <3> DEFINE w == Mark(m, colon, k + 1) \o ps[k + 1]
    <3>2. w \in Seq(Byte) /\ Piece(m, gap, colon, k + 1) = Spaces(gap) \o w
      <4>1. \A a, b, c \in Seq(Byte) : (a \o b) \o c = a \o (b \o c) /\ b \o c \in Seq(Byte)
        BY SMTT(30)
      <4>2. /\ Spaces(gap) \in Seq(Byte) /\ Mark(m, colon, k + 1) \in Seq(Byte)
            /\ ps[k + 1] \in Seq(Byte)
        BY <1>6, <3>1
      <4>3. Piece(m, gap, colon, k + 1) = (Spaces(gap) \o Mark(m, colon, k + 1)) \o ps[k + 1]
        BY <1>6, <3>1
      <4>4. Mark(m, colon, k + 1) \o ps[k + 1] \in Seq(Byte)
        BY ONLY <4>1, <4>2
      <4>5. (Spaces(gap) \o Mark(m, colon, k + 1)) \o ps[k + 1]
              = Spaces(gap) \o (Mark(m, colon, k + 1) \o ps[k + 1])
        <5> DEFINE a == Spaces(gap)
                   b == Mark(m, colon, k + 1)
                   c == ps[k + 1]
        <5>1. a \in Seq(Byte) /\ b \in Seq(Byte) /\ c \in Seq(Byte)
          BY <4>2
        <5> HIDE DEF a, b, c
        <5>2. (a \o b) \o c = a \o (b \o c)
          BY ONLY <4>1, <5>1, SMTT(30)
        <5> QED BY <5>2 DEF a, b, c
      <4> QED BY <4>3, <4>4, <4>5
    <3> HIDE DEF w
    <3>3. At(s, q[k], Spaces(gap) \o w)
      BY <1>2, <3>1, <3>2
    <3> QED BY <3>2, <3>3, SpaceFirst
  <2> QED BY <2>1, <2>2
<1> DEFINE S == {d \in Nat : d <= n /\ GetArgs(s)[q[n - d] + 1] = SubSeq(ps, n - d + 1, n)}
<1>8. 0 \in S
  <2>1. GetArgs(s)[q[n] + 1] = <<>>
    BY <1>3, NoArg
  <2>2. SubSeq(ps, n + 1, n) = <<>>
    BY <1>1
  <2>3. n - 0 = n /\ n - 0 + 1 = n + 1 /\ 0 <= n
    BY <1>1
  <2> QED BY <2>1, <2>2, <2>3
<1>9. ASSUME NEW d \in 0 .. n - 1, d \in S PROVE d + 1 \in S
  <2> DEFINE k == n - (d + 1)
             w == ps[k + 1]
  <2>1. k \in 0 .. n - 1 /\ n - d = k + 1 /\ d + 1 <= n /\ d + 1 \in Nat /\ k + 1 \in 1 .. n
    BY <1>1
  <2>2. GetArgs(s)[q[k + 1] + 1] = SubSeq(ps, (k + 1) + 1, n)
    <3>1. GetArgs(s)[q[n - d] + 1] = SubSeq(ps, n - d + 1, n)
      BY <1>9
    <3> HIDE DEF k
    <3> QED BY <2>1, <3>1
  <2>3. k = n - (d + 1)
    OBVIOUS
  <2> HIDE DEF k
  <2>4. /\ At(s, q[k], Piece(m, gap, colon, k + 1))
        /\ q[k + 1] = q[k] + Len(Piece(m, gap, colon, k + 1)) /\ q[k] \in Nat
    BY <1>1, <1>2, <2>1
  <2>5. /\ Spaces(gap) \in Seq(Byte) /\ Len(Spaces(gap)) = gap /\ w \in Seq(Byte)
        /\ Piece(m, gap, colon, k + 1) = Spaces(gap) \o Mark(m, colon, k + 1) \o w
    BY <1>6, <2>1
  <2>6. SubSeq(ps, k + 1, n) = <<w>> \o SubSeq(ps, (k + 1) + 1, n)
    <3>1. ps \in Seq(Seq(Plain)) /\ k + 1 \in 1 .. Len(ps) /\ n = Len(ps)
      BY <1>1, <2>1 DEF n
    <3>2. n \in k + 1 .. Len(ps)
      BY <2>1, <3>1
    <3> QED BY <3>1, <3>2, SubSeqRecursiveFirst
  <2>9. k + 1 \in 1 .. n /\ w = ps[k + 1] /\ n \in Nat
    BY <1>1, <2>1
  <2> HIDE DEF w
  <2>7. CASE colon /\ k + 1 = n
    <3>1. Piece(m, gap, colon, k + 1) = Spaces(gap) \o <<Colon>> \o w
      BY <1>5, <2>1, <2>5, <2>7
    <3>2. Len(Spaces(gap) \o <<Colon>> \o w) = gap + 1 + Len(w)
      <4>1. <<Colon>> \in Seq(Byte) /\ Len(<<Colon>>) = 1
        BY DEF Byte, Plain
      <4>2. Spaces(gap) \o <<Colon>> \in Seq(Byte) /\ Len(Spaces(gap) \o <<Colon>>) = gap + 1
        BY <2>5, <4>1, ConcatAt
      <4>3. w \in Seq(Byte)
        BY <2>5
      <4>4. Len((Spaces(gap) \o <<Colon>>) \o w) = Len(Spaces(gap) \o <<Colon>>) + Len(w)
        BY ONLY <4>2, <4>3, ConcatAt
      <4> QED BY <4>2, <4>4
    <3>3. q[k] + (gap + 1 + Len(w)) = Len(s)
      <4>1. q[n] = Len(s)
        BY <1>1, <1>3, <2>7
      <4> QED BY <2>4, <2>7, <3>1, <3>2, <4>1
    <3>4. GetArgs(s)[q[k] + 1] = <<w>>
      <4>1. At(s, q[k], Spaces(gap) \o <<Colon>> \o w)
        BY <2>4, <3>1
      <4> QED BY <2>5, <3>3, <4>1, LastArg
    <3>5. SubSeq(ps, (k + 1) + 1, n) = <<>>
      BY <1>1, <2>7
    <3>6. SubSeq(ps, k + 1, n) = <<w>>
      <4>1. <<w>> \o <<>> = <<w>>
        OBVIOUS
      <4> QED BY <2>6, <3>5, <4>1
    <3> QED BY <2>1, <2>3, <3>4, <3>6
  <2>8. CASE ~ (colon /\ k + 1 = n)
    <3>1. w \in Middle /\ Mark(m, colon, k + 1) = <<>>
      BY <1>4, <1>5, <2>8, <2>9
    <3>2. NeedsNoColon(w)
      BY <3>1, WordsAssumption DEF NeedsNoColon
    <3>3. Piece(m, gap, colon, k + 1) = Spaces(gap) \o w
      <4>1. Spaces(gap) \o <<>> = Spaces(gap)
        BY <2>5
      <4> QED BY <2>5, <3>1, <4>1
    <3>4. q[k + 1] = q[k] + (gap + Len(w))
      <4>1. Len(Spaces(gap) \o w) = gap + Len(w)
        <5>1. Spaces(gap) \in Seq(Byte) /\ w \in Seq(Byte)
          BY <2>5
        <5>2. Len(Spaces(gap) \o w) = Len(Spaces(gap)) + Len(w)
          BY ONLY <5>1, ConcatAt
        <5> QED BY <2>5, <5>2
      <4> QED BY <2>4, <3>3, <4>1
    <3>5. q[k + 1] = Len(s) \/ s[q[k + 1] + 1] = Space
      <4>1. k + 1 \in 0 .. n
        BY <2>1
      <4> QED BY <1>7, <4>1
    <3>6. GetArgs(s)[q[k] + 1] = <<w>> \o GetArgs(s)[q[k + 1] + 1]
      <4>1. At(s, q[k], Spaces(gap) \o w)
        BY <2>4, <3>3
      <4> DEFINE e == q[k + 1]
                 o == q[k]
      <4>2. WordAt(s, o, gap, w, e)
        BY <2>5, <3>2, <3>4, <3>5, <4>1 DEF WordAt
      <4>4. w \in Seq(Byte) /\ o \in Nat /\ e \in Nat
        BY <1>1, <2>1, <2>4, <2>5
      <4> HIDE DEF e, o
      <4>3. ReadsWord(s, o, w, e)
        BY <4>2, <4>4, OneArg
      <4> QED BY <4>3 DEF ReadsWord, e, o
    <3> QED BY <2>1, <2>2, <2>3, <2>6, <3>6
  <2> QED BY <2>7, <2>8
<1>10. n \in S
  <2>1. \A d \in 0 .. n : d \in S
    <3> HIDE DEF S
    <3> QED BY <1>1, <1>8, <1>9, UpInduction
  <2>2. n \in 0 .. n
    BY <1>1
  <2> HIDE DEF S
  <2> QED BY <2>1, <2>2
<1>11. GetArgs(s)[q[0] + 1] = ps
  <2>1. n - n = 0 /\ n - n + 1 = 1
    BY <1>1
  <2>2. GetArgs(s)[q[0] + 1] = SubSeq(ps, 1, n)
    BY <1>10, <2>1
  <2>3. SubSeq(ps, 1, n) = ps
    BY <1>1 DEF n
  <2> QED BY <2>2, <2>3
<1>12. 0 \in 0 .. n
  BY <1>1
<1> QED BY <1>0, <1>7, <1>11, <1>12 DEF ps

\* Where the command begins.
LEMMA StartReadBack ==
  ASSUME NEW x \in Seq(Byte), NEW lead \in Nat, NEW prefix \in Prefix, NEW c \in Command,
         At(x, 0, Spaces(lead)), At(x, lead, prefix), At(x, lead + Len(prefix), c)
  PROVE  CommandStart(x) = lead + Len(prefix) + 1
<1> DEFINE a == lead + Len(prefix)
<1>1. prefix \in Seq(Byte) /\ Len(prefix) \in Nat /\ a \in Nat /\ Len(x) \in Nat
  <2>1. prefix \in Seq(Byte)
    BY PrefixIsPlain, PlainIsBytes
  <2> QED BY <2>1
<1>2. c \in Seq(Byte) /\ c # <<>> /\ c[1] # Colon /\ \A i \in DOMAIN c : c[i] # Space
  BY WordsAssumption, PlainIsBytes
<1>3. 1 \in DOMAIN c /\ 1 \in 1 .. Len(c) /\ Len(c) \in Nat
  BY <1>2
<1>4. At(x, a, c)
  OBVIOUS
<1> HIDE DEF a
<1>5. a + 1 <= Len(x) /\ x[a + 1] = c[1] /\ c[1] # Space
  <2>1. a + Len(c) <= Len(x) /\ \A y \in 1 .. Len(c) : x[a + y] = c[y]
    BY <1>4 DEF At
  <2> QED BY <1>1, <1>2, <1>3, <2>1
<1>6. CASE prefix = <<>>
  <2>1. a = lead
    BY <1>6 DEF a
  <2>2. x[0 + lead + 1] # Space
    BY <1>5, <2>1
  <2>3. SkipSpaces(x, 0 + 1) = 0 + lead + 1
    BY <2>2, SkipsTo
  <2>4. SkipSpaces(x, 1) = a + 1
    BY <2>1, <2>3
  <2> QED BY <1>2, <1>5, <2>4 DEF CommandStart, a
<1>7. CASE \E d \in Command : prefix = <<Colon>> \o d \o <<Space>>
  <2>1. PICK d \in Command : prefix = <<Colon>> \o d \o <<Space>>
    BY <1>7
  <2>2. d \in Seq(Byte) /\ \A i \in DOMAIN d : d[i] # Space
    BY WordsAssumption, PlainIsBytes
  <2> DEFINE w == <<Colon>> \o d
  <2>3. <<Colon>> \in Seq(Byte) /\ <<Space>> \in Seq(Byte) /\ Len(<<Colon>>) = 1 /\ Len(<<Space>>) = 1
    BY DEF Byte, Plain
  <2>4. /\ w \in Seq(Byte) /\ Len(w) = 1 + Len(d) /\ Len(d) \in Nat
        /\ w[1] = Colon /\ \A i \in 1 .. Len(d) : w[1 + i] = d[i]
    BY <2>2, <2>3, ConcatAt
  <2>5. prefix = w \o <<Space>>
    BY <2>1
  <2> HIDE DEF w
  <2>6. Len(prefix) = Len(w) + 1
    BY <2>3, <2>4, <2>5, ConcatAt
  <2>7. At(x, lead, w) /\ At(x, lead + Len(w), <<Space>>)
    BY <2>3, <2>4, <2>5, AtConcat
  <2>8. /\ lead + Len(w) + 1 <= Len(x) /\ x[lead + Len(w) + 1] = Space
        /\ x[lead + 1] = Colon
    <3>1. 1 \in 1 .. 1 /\ <<Space>>[1] = Space /\ 1 \in 1 .. Len(w)
      BY <2>4
    <3>2. lead + Len(w) + 1 <= Len(x) /\ x[lead + Len(w) + 1] = Space
      BY <2>3, <2>4, <2>7, <3>1 DEF At
    <3>3. x[lead + 1] = w[1]
      BY <2>7, <3>1 DEF At
    <3> QED BY <2>4, <3>2, <3>3
  <2>9. \A i \in DOMAIN w : w[i] # Space
    <3> SUFFICES ASSUME NEW i \in 1 .. 1 + Len(d) PROVE w[i] # Space
      BY <2>4
    <3>1. CASE i = 1
      BY <2>4, <3>1, InputAssumption
    <3>2. CASE i # 1
      <4>1. i - 1 \in 1 .. Len(d) /\ 1 + (i - 1) = i
        BY <2>4, <3>2
      <4>2. i - 1 \in DOMAIN d
        BY <2>2, <4>1
      <4> QED BY <2>2, <2>4, <4>1, <4>2
    <3> QED BY <3>1, <3>2
  <2>10. WordEnd(x, lead + 1) = lead + Len(w) + 1
    BY <2>4, <2>7, <2>8, <2>9, EndsAt
  <2>11. SkipSpaces(x, 1) = lead + 1
    <3>1. x[0 + lead + 1] # Space
      BY <2>8, InputAssumption
    <3>2. SkipSpaces(x, 0 + 1) = 0 + lead + 1
      BY <3>1, SkipsTo
    <3> QED BY <3>2
  <2>12. lead + 1 <= Len(x) /\ x[lead + 1] = Colon
    BY <1>1, <2>4, <2>8
  <2>13. CommandStart(x) = (lead + Len(w) + 1) + 1
    BY <2>8, <2>10, <2>11, <2>12 DEF CommandStart
  <2> QED BY <2>4, <2>6, <2>13
<1> QED BY <1>6, <1>7, PrefixIsPlain

\* parseMessage gives back what the client composed, with a prefix, which exactly one
\* space follows, or without, and with any number of spaces at the start, between the
\* words and at the end.
LEMMA LineReadsBack ==
  ASSUME NEW m, NEW colon, Message(m, colon), NEW prefix \in Prefix,
         NEW lead \in Nat, NEW gap \in Nat \ {0}, NEW tail \in Nat, colon => tail = 0
  PROVE  /\ LineOf(m, colon, lead, prefix, gap, tail) \in Seq(Plain)
         /\ ParseMessage(LineOf(m, colon, lead, prefix, gap, tail)) = m
<1> DEFINE x == LineOf(m, colon, lead, prefix, gap, tail)
           c == m.command
           n == Len(m.params)
           a == lead + Len(prefix)
<1>0. gap \in Nat
  OBVIOUS
<1>1. Parts(x, m, colon, lead, prefix, gap, tail)
  BY <1>0, LineParts
<1> HIDE DEF x
<1>2. x \in Seq(Plain) /\ At(x, 0, Spaces(lead)) /\ At(x, lead, prefix) /\ At(x, a, c)
  BY <1>1 DEF Parts
<1>3. x \in Seq(Byte)
  BY <1>2, PlainIsBytes
<1>4. (a + Len(c) = Len(x) \/ x[a + Len(c) + 1] = Space) /\ GetArgs(x)[a + Len(c) + 1] = m.params
  <2> DEFINE p == a + Len(c)
  <2>1. PICK q : ParamsAt(x, p, m, colon, gap, tail, q)
    BY <1>1 DEF Parts
  <2> HIDE DEF p
  <2>2. (p = Len(x) \/ x[p + 1] = Space) /\ GetArgs(x)[p + 1] = m.params
    BY <1>3, <2>1, ArgsReadBack
  <2> QED BY <2>2 DEF p
<1>5. c \in Command /\ m = [command |-> c, params |-> m.params]
  BY DEF Message
<1>6. c \in Seq(Byte) /\ \A i \in DOMAIN c : c[i] # Space
  BY <1>5, WordsAssumption, PlainIsBytes
<1>7. a \in Nat /\ Len(c) \in Nat
  BY <1>6, PrefixIsPlain
<1> HIDE DEF c
<1>8. CommandStart(x) = a + 1
  BY <1>2, <1>3, <1>5, StartReadBack DEF a
<1> HIDE DEF a
<1>9. WordEnd(x, a + 1) = a + Len(c) + 1
  BY <1>2, <1>3, <1>4, <1>6, EndsAt
<1>10. SubSeq(x, a + 1, a + Len(c)) = c
  BY <1>2, <1>3, <1>6, AtSubSeq
<1>11. (a + Len(c) + 1) - 1 = a + Len(c)
  BY <1>7
<1>12. ParseMessage(x) = [command |-> c, params |-> m.params]
  BY <1>4, <1>8, <1>9, <1>10, <1>11 DEF ParseMessage
<1> QED BY <1>2, <1>5, <1>12 DEF x

-----------------------------------------------------------------------------
(* The specification.                                                      *)

\* The payloads of some lines.
Parsed(lines) == [i \in DOMAIN lines |-> ParseMessage(lines[i])]

\* What parseMessage may return.
Payloads == {ParseMessage(line) : line \in Seq(Byte)}

\* The payloads are as many as the lines, one for each.
LEMMA ParsedFacts ==
  ASSUME NEW L \in Seq(Seq(Byte))
  PROVE  /\ Parsed(L) \in Seq(Payloads) /\ Len(Parsed(L)) = Len(L)
         /\ \A i \in 1 .. Len(L) : Parsed(L)[i] = ParseMessage(L[i])
<1>1. Len(L) \in Nat /\ DOMAIN L = 1 .. Len(L) /\ \A i \in 1 .. Len(L) : L[i] \in Seq(Byte)
  OBVIOUS
<1>2. \A i \in 1 .. Len(L) : ParseMessage(L[i]) \in Payloads
  BY <1>1 DEF Payloads
<1> QED BY <1>1, <1>2 DEF Parsed

\* The payloads of lines, then of others, are the payloads of all.
LEMMA ParsedConcat ==
  ASSUME NEW s \in Seq(Seq(Byte)), NEW t \in Seq(Seq(Byte))
  PROVE  Parsed(s \o t) = Parsed(s) \o Parsed(t)
<1> DEFINE Lines == Seq(Byte)
           parse == [line \in Lines |-> ParseMessage(line)]
<1>1. ASSUME NEW r \in Seq(Lines) PROVE Parsed(r) = Image(parse, r)
  <2>1. \A i \in DOMAIN r : r[i] \in Lines
    OBVIOUS
  <2> QED BY <2>1 DEF Parsed, Image
<1>2. s \in Seq(Lines) /\ t \in Seq(Lines) /\ s \o t \in Seq(Lines)
  OBVIOUS
<1> HIDE DEF parse
<1>3. Image(parse, s \o t) = Image(parse, s) \o Image(parse, t)
  BY <1>2, ImageConcat
<1> HIDE DEF Lines
<1> QED BY <1>1, <1>2, <1>3

(***************************************************************************)
(* The inductive invariant: what FramesWhatWasSent says, the types it      *)
(* needs, and that what is dispatched is each framed line, parsed.         *)
(***************************************************************************)
InputInv ==
  /\ stream \in Seq(Byte) /\ taken \in 0 .. Len(stream)
  /\ buffer \in Seq(Byte) /\ extracted \in Seq(Seq(Byte))
  /\ Joined(extracted) \o buffer = SubSeq(stream, 1, taken)
  /\ LineEnds(buffer, 1) = {}
  /\ \A i \in DOMAIN extracted : LineEnds(extracted[i], 1) = {}
  /\ dispatched = Parsed(extracted)

\* Nothing sent, nothing framed.
LEMMA NothingYet ==
  /\ <<>> \in Seq(Byte) /\ <<>> \in Seq(Seq(Byte)) /\ 0 \in 0 .. Len(<<>>)
  /\ Joined(<<>>) \o <<>> = SubSeq(<<>>, 1, 0)
  /\ LineEnds(<<>>, 1) = {}
  /\ \A i \in DOMAIN <<>> : FALSE
  /\ Parsed(<<>>) = <<>>
<1>1. <<>> \in Seq(Byte) /\ <<>> \in Seq(Seq(Byte)) /\ Len(<<>>) = 0 /\ 0 \in 0 .. 0
  OBVIOUS
<1>2. Joined(<<>>) \o <<>> = SubSeq(<<>>, 1, 0)
  <2>1. Joined(<<>>) = <<>>
    BY <1>1, JoinedFew
  <2>2. <<>> \o <<>> = <<>> /\ SubSeq(<<>>, 1, 0) = <<>>
    OBVIOUS
  <2> QED BY <2>1, <2>2
<1>3. LineEnds(<<>>, 1) = {}
  <2>1. \A a \in 1 .. 0 - 1 : FALSE
    OBVIOUS
  <2> QED BY <1>1, <2>1 DEF LineEnds
<1>4. Parsed(<<>>) = <<>>
  BY DEF Parsed
<1>5. \A i \in DOMAIN <<>> : FALSE
  OBVIOUS
<1> QED BY <1>1, <1>2, <1>3, <1>4, <1>5

\* The client only adds to what it has sent.
LEMMA SendsMore ==
  ASSUME InputInv, NEW x \in Seq(Byte), stream' = stream \o x,
         UNCHANGED <<taken, buffer, extracted, dispatched>>
  PROVE  InputInv'
<1>1. stream \in Seq(Byte) /\ taken \in 0 .. Len(stream)
  BY DEF InputInv
<1>2. /\ stream \o x \in Seq(Byte) /\ Len(stream \o x) = Len(stream) + Len(x)
      /\ Len(stream) \in Nat /\ Len(x) \in Nat
      /\ \A i \in 1 .. Len(stream) : (stream \o x)[i] = stream[i]
  BY <1>1, ConcatAt
<1>3. SubSeq(stream \o x, 1, taken) = SubSeq(stream, 1, taken)
  <2> DEFINE new == stream \o x
  <2>1. taken \in 0 .. Len(new) /\ taken \in 0 .. Len(stream)
    BY <1>1, <1>2
  <2>2. \A i \in 1 .. taken : new[i] = stream[i]
    BY <1>1, <1>2
  <2> HIDE DEF new
  <2> QED BY <1>1, <1>2, <2>1, <2>2 DEF new
<1>4. taken \in 0 .. Len(stream \o x)
  BY <1>1, <1>2
<1> QED BY <1>2, <1>3, <1>4 DEF InputInv

\* The client sends the bytes of line, without a line end in it, and means what it says.
Sends(line) ==
  /\ line \in Seq(Byte) /\ LineEnds(line, 1) = {}
  /\ stream' = stream \o line \o <<CR, LF>>
  /\ meant # NoMeaning /\ meant' = Append(meant, ParseMessage(line))
  /\ UNCHANGED <<taken, buffer, extracted, dispatched>>

\* What the client composes is one line.
LEMMA ComposeSends ==
  ASSUME NEW m, NEW colon, Message(m, colon), Compose(m, colon)
  PROVE  \E line : Sends(line)
<1>1. PICK lead \in 0 .. 1 : \E prefix \in Prefix : \E gap \in 1 .. 2 : \E tail \in 0 .. 1 :
        /\ colon => tail = 0
        /\ stream' = stream \o LineOf(m, colon, lead, prefix, gap, tail) \o <<CR, LF>>
  BY DEF Compose, LineOf
<1>2. PICK prefix \in Prefix : \E gap \in 1 .. 2 : \E tail \in 0 .. 1 :
        /\ colon => tail = 0
        /\ stream' = stream \o LineOf(m, colon, lead, prefix, gap, tail) \o <<CR, LF>>
  BY <1>1
<1>3. PICK gap \in 1 .. 2 : \E tail \in 0 .. 1 :
        /\ colon => tail = 0
        /\ stream' = stream \o LineOf(m, colon, lead, prefix, gap, tail) \o <<CR, LF>>
  BY <1>2
<1>4. PICK tail \in 0 .. 1 :
        /\ colon => tail = 0
        /\ stream' = stream \o LineOf(m, colon, lead, prefix, gap, tail) \o <<CR, LF>>
  BY <1>3
<1> DEFINE line == LineOf(m, colon, lead, prefix, gap, tail)
<1>5. lead \in Nat /\ gap \in Nat \ {0} /\ tail \in Nat
  OBVIOUS
<1>6. line \in Seq(Plain) /\ ParseMessage(line) = m
  BY <1>4, <1>5, LineReadsBack
<1>7. stream' = stream \o line \o <<CR, LF>>
  BY <1>4
<1> HIDE DEF line
<1>8. line \in Seq(Byte) /\ LineEnds(line, 1) = {}
  BY <1>6, PlainHasNoEnd
<1>9. /\ meant # NoMeaning /\ meant' = Append(meant, m)
      /\ UNCHANGED <<taken, buffer, extracted, dispatched>>
  BY DEF Compose
<1>10. Sends(line)
  BY <1>6, <1>7, <1>8, <1>9 DEF Sends
<1> QED BY <1>10, SMTT(30)

\* Words(n), and a last parameter after them, are the parameters of a message.
LEMMA AnyMessage ==
  ASSUME NEW c \in Command, NEW n \in Nat, NEW ps \in Words(n)
  PROVE  /\ Message([command |-> c, params |-> ps], FALSE)
         /\ \A last \in Trailing : Message([command |-> c, params |-> Append(ps, last)], TRUE)
<1>1. ps \in [1 .. n -> Middle]
  BY DEF Words
<1>2. ps \in Seq(Seq(Plain)) /\ Len(ps) = n /\ \A i \in 1 .. n : ps[i] \in Middle
  <2> DEFINE T == Seq(Plain)
  <2>1. Middle \subseteq T
    BY WordsAssumption
  <2> HIDE DEF T
  <2>2. ps \in Seq(T) /\ Len(ps) = n /\ \A i \in 1 .. n : ps[i] \in Middle
    BY <1>1, <2>1
  <2> QED BY <2>2 DEF T
<1>3. Message([command |-> c, params |-> ps], FALSE)
  <2> DEFINE m == [command |-> c, params |-> ps]
  <2>1. m.command = c /\ m.params = ps
    OBVIOUS
  <2>2. m = [command |-> m.command, params |-> m.params]
    BY <2>1
  <2> HIDE DEF m
  <2> QED BY <1>2, <2>1, <2>2 DEF Message, m
<1>4. ASSUME NEW last \in Trailing
      PROVE  Message([command |-> c, params |-> Append(ps, last)], TRUE)
  <2> DEFINE all == Append(ps, last)
             m   == [command |-> c, params |-> all]
  <2>1. last \in Seq(Plain)
    BY WordsAssumption
  <2>2. /\ all \in Seq(Seq(Plain)) /\ Len(all) = n + 1
        /\ \A i \in 1 .. n : all[i] = ps[i]
    <3> DEFINE T == Seq(Plain)
    <3>1. ps \in Seq(T) /\ last \in T
      BY <1>2, <2>1
    <3> HIDE DEF T
    <3>2. all \in Seq(T) /\ Len(all) = n + 1 /\ \A i \in 1 .. n : all[i] = ps[i]
      BY <1>2, <3>1
    <3> QED BY <3>2 DEF T
  <2> HIDE DEF all
  <2>3. m.command = c /\ m.params = all
    OBVIOUS
  <2>4. m = [command |-> m.command, params |-> m.params]
    BY <2>3
  <2> HIDE DEF m
  <2>5. ASSUME NEW i \in 1 .. Len(all) PROVE i = Len(all) \/ all[i] \in Middle
    <3>1. i = n + 1 \/ i \in 1 .. n
      BY <2>2
    <3> QED BY <1>2, <2>2, <3>1
  <2>6. Message(m, TRUE)
    BY <2>2, <2>3, <2>4, <2>5 DEF Message
  <2> QED BY <2>6 DEF m, all
<1> QED BY <1>3, <1>4

\* Every message the client composes is one line.
LEMMA ComposeAnySends ==
  ASSUME ComposeAny
  PROVE  \E line : Sends(line)
<1>1. PICK c \in Command, n \in 0 .. 2 : \E ps \in Words(n) :
        \/ Compose([command |-> c, params |-> ps], FALSE)
        \/ \E last \in Trailing : Compose([command |-> c, params |-> Append(ps, last)], TRUE)
  BY DEF ComposeAny
<1>2. PICK ps \in Words(n) :
        \/ Compose([command |-> c, params |-> ps], FALSE)
        \/ \E last \in Trailing : Compose([command |-> c, params |-> Append(ps, last)], TRUE)
  BY <1>1
<1>3. n \in Nat
  OBVIOUS
<1>4. CASE Compose([command |-> c, params |-> ps], FALSE)
  <2> DEFINE m == [command |-> c, params |-> ps]
  <2>1. Message(m, FALSE) /\ Compose(m, FALSE)
    BY <1>3, <1>4, AnyMessage
  <2> HIDE DEF m
  <2> QED BY <2>1, ComposeSends
<1>5. CASE \E last \in Trailing : Compose([command |-> c, params |-> Append(ps, last)], TRUE)
  <2>1. PICK last \in Trailing : Compose([command |-> c, params |-> Append(ps, last)], TRUE)
    BY <1>5
  <2> DEFINE m == [command |-> c, params |-> Append(ps, last)]
  <2>2. Message(m, TRUE) /\ Compose(m, TRUE)
    BY <1>3, <2>1, AnyMessage
  <2> HIDE DEF m
  <2> QED BY <2>2, ComposeSends
<1> QED BY <1>2, <1>4, <1>5

\* Composing keeps what has been framed.
LEMMA ComposeAnySendsMore ==
  ASSUME ComposeAny, InputInv
  PROVE  InputInv'
<1>1. PICK line : Sends(line)
  BY ComposeAnySends
<1>2. /\ line \in Seq(Byte) /\ stream' = (stream \o line) \o <<CR, LF>>
      /\ UNCHANGED <<taken, buffer, extracted, dispatched>>
  BY <1>1 DEF Sends
<1>3. stream \in Seq(Byte)
  BY DEF InputInv
<1> DEFINE x == line \o <<CR, LF>>
<1>4. x \in Seq(Byte)
  BY <1>2, LineEndIsBytes
<1>5. stream' = stream \o x
  <2>1. \A a, b, c \in Seq(Byte) : (a \o b) \o c = a \o (b \o c)
    OBVIOUS
  <2>2. (stream \o line) \o <<CR, LF>> = stream \o (line \o <<CR, LF>>)
    BY <1>2, <1>3, <2>1, LineEndIsBytes
  <2> QED BY <1>2, <2>2
<1> HIDE DEF x
<1> QED BY <1>2, <1>4, <1>5, SendsMore

\* Any bytes at all.
LEMMA GarbleSendsMore ==
  ASSUME Garble, InputInv
  PROVE  InputInv'
<1>1. PICK n \in 1 .. MaxBytes : stream' \in [1 .. n -> Byte]
  BY DEF Garble
<1>2. n \in Nat
  BY InputAssumption
<1>3. stream' \in Seq(Byte)
  BY <1>1, <1>2
<1>4. stream' = stream \o stream'
  <2>1. stream = <<>>
    BY DEF Garble
  <2> QED BY <1>3, <2>1
<1>5. UNCHANGED <<taken, buffer, extracted, dispatched>>
  BY DEF Garble
<1> DEFINE x == stream'
<1>6. x \in Seq(Byte) /\ stream' = stream \o x
  BY <1>3, <1>4
<1> HIDE DEF x
<1> QED BY <1>5, <1>6, SendsMore

\* Framing the buffer and what has come keeps every byte, in order.
LEMMA ProcessDataFrames ==
  ASSUME InputInv, NEW n \in 1 .. Len(stream) - taken, ProcessData(n)
  PROVE  InputInv'
<1> DEFINE chunk == SubSeq(stream, taken + 1, taken + n)
           whole == buffer \o chunk
           framed == Framed(whole)
           lines == framed.lines
           rest  == framed.rest
           done  == SubSeq(stream, 1, taken)
           je    == Joined(extracted)
           jl    == Joined(lines)
<1>1. /\ stream \in Seq(Byte) /\ taken \in 0 .. Len(stream)
      /\ buffer \in Seq(Byte) /\ extracted \in Seq(Seq(Byte))
      /\ je \o buffer = done
      /\ \A i \in DOMAIN extracted : LineEnds(extracted[i], 1) = {}
      /\ dispatched = Parsed(extracted)
  BY DEF InputInv
<1>2. /\ taken' = taken + n /\ buffer' = rest /\ extracted' = extracted \o lines
      /\ dispatched' = dispatched \o Parsed(lines) /\ stream' = stream
  BY DEF ProcessData, Parsed, client
<1>3. chunk \in Seq(Byte) /\ whole \in Seq(Byte) /\ taken + n \in 0 .. Len(stream)
  <2>1. /\ taken + 1 \in 1 .. Len(stream) /\ taken + n \in 0 .. Len(stream)
        /\ \A i \in taken + 1 .. taken + n : stream[i] \in Byte
    BY <1>1
  <2>2. chunk \in Seq(Byte)
    BY <1>1, <2>1
  <2> HIDE DEF chunk
  <2> QED BY <1>1, <2>1, <2>2
<1>4. done \o chunk = SubSeq(stream, 1, taken + n)
  <2>1. 1 \in 1 .. Len(stream) + 1 /\ taken \in 1 - 1 .. Len(stream) /\ taken + n \in taken .. Len(stream)
    BY <1>1
  <2> QED BY <1>1, <2>1, ConcatAdjacentSubSeq
<1> HIDE DEF chunk, done
<1>5. FramesFrom(framed, whole, 1)
  <2> HIDE DEF whole
  <2> QED BY <1>3, FramedFacts, SMTT(30)
<1> HIDE DEF framed
<1>6. /\ lines \in Seq(Seq(Byte)) /\ rest \in Seq(Byte)
      /\ jl \o rest = whole
      /\ LineEnds(rest, 1) = {}
      /\ \A i \in DOMAIN lines : LineEnds(lines[i], 1) = {}
  <2>1. SubSeq(whole, 1, Len(whole)) = whole
    <3> HIDE DEF whole
    <3> QED BY <1>3
  <2> HIDE DEF whole
  <2> QED BY <1>5, <2>1 DEF FramesFrom
<1> HIDE DEF lines, rest
<1>7. je \in Seq(Byte) /\ jl \in Seq(Byte) /\ Joined(extracted \o lines) = je \o jl
  <2>1. je \in Seq(Byte) /\ jl \in Seq(Byte)
    BY <1>1, <1>6, JoinedIsBytes
  <2> QED BY <1>1, <1>6, <2>1, JoinedConcat
<1> HIDE DEF je, jl
<1>8. Joined(extracted \o lines) \o rest = SubSeq(stream, 1, taken + n)
  <2>1. \A x, y, z \in Seq(Byte) : (x \o y) \o z = x \o (y \o z)
    OBVIOUS
  <2>2. (je \o jl) \o rest = je \o (jl \o rest)
    <3>1. je \in Seq(Byte) /\ jl \in Seq(Byte) /\ rest \in Seq(Byte)
      BY <1>6, <1>7
    <3> QED BY <2>1, <3>1, Zenon
  <2>3. (je \o buffer) \o chunk = je \o (buffer \o chunk)
    <3>1. je \in Seq(Byte) /\ buffer \in Seq(Byte) /\ chunk \in Seq(Byte)
      BY <1>1, <1>3, <1>7
    <3> QED BY <2>1, <3>1, Zenon
  <2> QED BY <1>1, <1>4, <1>6, <1>7, <2>2, <2>3
<1>9. /\ extracted \o lines \in Seq(Seq(Byte))
      /\ \A i \in DOMAIN (extracted \o lines) : LineEnds((extracted \o lines)[i], 1) = {}
  <2> DEFINE all == extracted \o lines
             a == Len(extracted)
             b == Len(lines)
  <2>1. extracted \in Seq(Seq(Byte)) /\ lines \in Seq(Seq(Byte))
    BY <1>1, <1>6
  <2>2. /\ all \in Seq(Seq(Byte)) /\ Len(all) = a + b /\ a \in Nat /\ b \in Nat
        /\ \A i \in 1 .. a : all[i] = extracted[i]
        /\ \A i \in 1 .. b : all[a + i] = lines[i]
    BY ONLY <2>1, ConcatAt
  <2>3. DOMAIN extracted = 1 .. a /\ DOMAIN lines = 1 .. b
    BY <2>1
  <2> HIDE DEF all, a, b
  <2>4. ASSUME NEW i \in DOMAIN all PROVE LineEnds(all[i], 1) = {}
    <3>1. i \in 1 .. a + b
      BY <2>2
    <3>2. CASE i \in 1 .. a
      BY <1>1, <2>2, <2>3, <3>2
    <3>3. CASE i \notin 1 .. a
      <4>1. i - a \in 1 .. b /\ a + (i - a) = i
        BY <2>2, <3>1, <3>3
      <4>2. all[i] = lines[i - a]
        BY <2>2, <4>1
      <4> QED BY <1>6, <2>3, <4>1, <4>2
    <3> QED BY <3>2, <3>3
  <2> QED BY <2>2, <2>4 DEF all
<1>10. dispatched' = Parsed(extracted \o lines)
  BY <1>1, <1>2, <1>6, ParsedConcat
<1> QED BY <1>1, <1>2, <1>3, <1>6, <1>8, <1>9, <1>10 DEF InputInv

\* InputInv holds of every behaviour.
THEOREM InputInvariantHolds == Spec => []InputInv
<1>1. Init => InputInv
  BY NothingYet DEF Init, InputInv
<1>2. InputInv /\ [Next]_vars => InputInv'
  <2> SUFFICES ASSUME InputInv, [Next]_vars PROVE InputInv'
    OBVIOUS
  <2>1. CASE ComposeAny
    BY <2>1, ComposeAnySendsMore
  <2>2. CASE Garble
    BY <2>2, GarbleSendsMore
  <2>3. CASE Receive
    BY <2>3, ProcessDataFrames DEF Receive
  <2>4. CASE ClearClient
    <3>1. /\ stream' = <<>> /\ taken' = 0 /\ buffer' = <<>>
          /\ extracted' = <<>> /\ dispatched' = <<>>
      BY <2>4 DEF ClearClient
    <3> QED BY <3>1, NothingYet DEF InputInv
  <2>5. CASE UNCHANGED vars
    BY <2>5 DEF vars, client, InputInv
  <2> QED BY <2>1, <2>2, <2>3, <2>4, <2>5 DEF Next
<1> QED BY <1>1, <1>2, PTL DEF Spec

\* FramesWhatWasSent: no byte of a client is lost, invented or reordered by the framer.
THEOREM FramesWhatWasSentHolds == Spec => []FramesWhatWasSent
<1>1. InputInv => FramesWhatWasSent
  <2> SUFFICES ASSUME InputInv PROVE FramesWhatWasSent
    OBVIOUS
  <2>1. extracted \in Seq(Seq(Byte)) /\ dispatched = Parsed(extracted)
    BY DEF InputInv
  <2>2. Len(dispatched) = Len(extracted)
    BY <2>1 DEF Parsed
  <2> QED BY <2>2 DEF InputInv, FramesWhatWasSent
<1> QED BY <1>1, InputInvariantHolds, PTL

\* What a payload is made of is made of words.
LEMMA PayloadHasWords ==
  ASSUME NEW p, Payload(p)
  PROVE  /\ ~ \E i \in DOMAIN p.command : p.command[i] = Space
         /\ LineEnds(p.command, 1) = {}
         /\ \A j \in 1 .. Len(p.params) - 1 :
              /\ p.params[j] # <<>> /\ p.params[j][1] # Colon
              /\ ~ \E i \in DOMAIN p.params[j] : p.params[j][i] = Space
              /\ LineEnds(p.params[j], 1) = {}
         /\ p.params # <<>> => LineEnds(Last(p.params), 1) = {}
<1>1. Params(p.params)
  BY DEF Payload
<1>2. ASSUME NEW j \in 1 .. Len(p.params) - 1
      PROVE  /\ p.params[j] # <<>> /\ p.params[j][1] # Colon
             /\ ~ \E i \in DOMAIN p.params[j] : p.params[j][i] = Space
             /\ LineEnds(p.params[j], 1) = {}
  <2>1. Word(p.params[j])
    BY <1>1 DEF Params
  <2> QED BY <2>1 DEF Word
<1>3. ASSUME p.params # <<>> PROVE LineEnds(Last(p.params), 1) = {}
  <2>1. p.params \in Seq(Seq(Byte)) /\ \A j \in 1 .. Len(p.params) : LineEnds(p.params[j], 1) = {}
    BY <1>1 DEF Params
  <2>2. Len(p.params) \in 1 .. Len(p.params)
    BY <1>3, <2>1
  <2>3. Last(p.params) = p.params[Len(p.params)]
    BY DEF Last
  <2> QED BY <2>1, <2>2, <2>3
<1> QED BY <1>2, <1>3 DEF Payload

\* WordsAreWords: whatever was sent, only the last parameter may hold more than a word.
THEOREM WordsAreWordsHolds == Spec => []WordsAreWords
<1>1. InputInv => WordsAreWords
  <2> SUFFICES ASSUME InputInv PROVE WordsAreWords
    OBVIOUS
  <2>1. ASSUME NEW i \in DOMAIN dispatched PROVE Payload(dispatched[i])
    <3>1. i \in DOMAIN extracted /\ dispatched[i] = ParseMessage(extracted[i])
      BY DEF InputInv, Parsed
    <3>2. extracted[i] \in Seq(Byte) /\ LineEnds(extracted[i], 1) = {}
      BY <3>1 DEF InputInv
    <3> QED BY <3>1, <3>2, ParseMessageFacts
  <2>2. ASSUME NEW i \in DOMAIN dispatched
        PROVE  LET p == dispatched[i]
               IN  /\ ~ \E k \in DOMAIN p.command : p.command[k] = Space
                   /\ LineEnds(p.command, 1) = {}
                   /\ \A j \in 1 .. Len(p.params) - 1 :
                        /\ p.params[j] # <<>> /\ p.params[j][1] # Colon
                        /\ ~ \E k \in DOMAIN p.params[j] : p.params[j][k] = Space
                        /\ LineEnds(p.params[j], 1) = {}
                   /\ p.params # <<>> => LineEnds(Last(p.params), 1) = {}
    BY <2>1, PayloadHasWords
  <2> QED BY <2>2, Zenon DEF WordsAreWords
<1> QED BY <1>1, InputInvariantHolds, PTL

-----------------------------------------------------------------------------
(* What was meant.                                                         *)

\* The bytes of the client are some lines, and it meant what they say.
Composed(lines) ==
  /\ lines \in Seq(Seq(Byte)) /\ \A i \in DOMAIN lines : LineEnds(lines[i], 1) = {}
  /\ stream = Joined(lines) /\ meant = Parsed(lines)

(***************************************************************************)
(* The part of the inductive invariant ReadAsMeant needs: bytes that were  *)
(* composed can be cut into lines, each of which parseMessage reads as     *)
(* meant, whatever recv() has returned of them.                            *)
(***************************************************************************)
MeantInv == meant # NoMeaning => \E lines : Composed(lines)

\* One more composed line is read as it was meant.
LEMMA ComposedMore ==
  ASSUME NEW lines, Composed(lines), NEW line, Sends(line)
  PROVE  Composed(Append(lines, line))'
<1> DEFINE all == Append(lines, line)
           e   == <<CR, LF>>
           jl  == Joined(lines)
<1>1. /\ lines \in Seq(Seq(Byte)) /\ \A i \in DOMAIN lines : LineEnds(lines[i], 1) = {}
      /\ stream = jl /\ meant = Parsed(lines)
  BY DEF Composed
<1>2. /\ line \in Seq(Byte) /\ LineEnds(line, 1) = {}
      /\ stream' = (stream \o line) \o e /\ meant' = Append(meant, ParseMessage(line))
  BY DEF Sends
<1>3. /\ all \in Seq(Seq(Byte)) /\ Len(all) = Len(lines) + 1 /\ Len(lines) \in Nat
      /\ all[Len(lines) + 1] = line /\ \A i \in 1 .. Len(lines) : all[i] = lines[i]
      /\ all = lines \o <<line>> /\ <<line>> \in Seq(Seq(Byte))
      /\ DOMAIN all = 1 .. Len(lines) + 1 /\ DOMAIN lines = 1 .. Len(lines)
  <2> DEFINE T == Seq(Byte)
  <2>1. lines \in Seq(T) /\ line \in T
    BY <1>1, <1>2
  <2> HIDE DEF T
  <2>2. all = lines \o <<line>>
    BY <2>1
  <2>3. /\ all \in Seq(T) /\ Len(all) = Len(lines) + 1 /\ Len(lines) \in Nat
        /\ all[Len(lines) + 1] = line /\ \A i \in 1 .. Len(lines) : all[i] = lines[i]
        /\ <<line>> \in Seq(T)
        /\ DOMAIN all = 1 .. Len(lines) + 1 /\ DOMAIN lines = 1 .. Len(lines)
    BY <2>1
  <2> QED BY <2>2, <2>3 DEF T
<1> HIDE DEF all
<1>4. \A i \in DOMAIN all : LineEnds(all[i], 1) = {}
  <2> SUFFICES ASSUME NEW i \in 1 .. Len(lines) + 1 PROVE LineEnds(all[i], 1) = {}
    BY <1>3
  <2>1. CASE i = Len(lines) + 1
    BY <1>2, <1>3, <2>1
  <2>2. CASE i # Len(lines) + 1
    <3>1. i \in 1 .. Len(lines)
      BY <1>3, <2>2
    <3> QED BY <1>1, <1>3, <3>1
  <2> QED BY <2>1, <2>2
<1>5. stream' = Joined(all)
  <2>1. Joined(all) = jl \o (line \o e)
    BY <1>1, <1>2, <1>3, JoinedConcat, JoinedFew
  <2>2. jl \in Seq(Byte) /\ e \in Seq(Byte)
    BY <1>1, JoinedIsBytes, LineEndIsBytes
  <2>3. \A a, b, c \in Seq(Byte) : (a \o b) \o c = a \o (b \o c)
    OBVIOUS
  <2> HIDE DEF e, jl
  <2>4. (jl \o line) \o e = jl \o (line \o e)
    BY ONLY <1>2, <2>2, <2>3
  <2> QED BY <1>1, <1>2, <2>1, <2>4
<1>6. meant' = Parsed(all)
  <2> DEFINE P == Parsed(lines)
             Q == Parsed(all)
             n == Len(lines)
             A == Append(P, ParseMessage(line))
  <2>1. /\ P \in Seq(Payloads) /\ Len(P) = n
        /\ \A i \in 1 .. n : P[i] = ParseMessage(lines[i])
    BY <1>1, ParsedFacts
  <2>2. /\ Q \in Seq(Payloads) /\ Len(Q) = n + 1
        /\ \A i \in 1 .. n + 1 : Q[i] = ParseMessage(all[i])
    <3>1. /\ Q \in Seq(Payloads) /\ Len(Q) = Len(all)
          /\ \A i \in 1 .. Len(all) : Q[i] = ParseMessage(all[i])
      BY <1>3, ParsedFacts
    <3> QED BY <1>3, <3>1
  <2>3. ParseMessage(line) \in Payloads
    BY <1>2 DEF Payloads
  <2> HIDE DEF P, Q
  <2>4. /\ A \in Seq(Payloads) /\ Len(A) = n + 1
        /\ A[n + 1] = ParseMessage(line) /\ \A i \in 1 .. n : A[i] = P[i]
    BY <2>1, <2>3
  <2> HIDE DEF A
  <2>5. ASSUME NEW i \in 1 .. n + 1 PROVE A[i] = Q[i]
    <3>1. CASE i = n + 1
      BY <1>3, <2>2, <2>4, <3>1
    <3>2. CASE i # n + 1
      <4>1. i \in 1 .. n
        BY <1>3, <3>2
      <4> QED BY <1>3, <2>1, <2>2, <2>4, <4>1
    <3> QED BY <3>1, <3>2
  <2>6. A = Q
    BY <2>2, <2>4, <2>5, SeqEqual
  <2> QED BY <1>1, <1>2, <2>6 DEF A, P, Q
<1> QED BY <1>3, <1>4, <1>5, <1>6 DEF Composed, all

\* A client that has sent nothing meant nothing.
LEMMA NothingMeant ==
  ASSUME stream = <<>>, meant = <<>>
  PROVE  Composed(<<>>)
BY NothingYet, JoinedFew, <<>> \in Seq(Byte) DEF Composed

\* MeantInv holds of every behaviour.
THEOREM MeantInvariantHolds == Spec => []MeantInv
<1>1. Init => MeantInv
  BY NothingMeant DEF Init, MeantInv
<1>2. MeantInv /\ [Next]_vars => MeantInv'
  <2> SUFFICES ASSUME MeantInv, [Next]_vars, meant' # NoMeaning
               PROVE  \E lines : Composed(lines)'
    BY DEF MeantInv
  <2>1. CASE ComposeAny
    <3>1. PICK line : Sends(line)
      BY <2>1, ComposeAnySends
    <3>2. PICK lines : Composed(lines)
      BY <3>1 DEF Sends, MeantInv
    <3>3. Composed(Append(lines, line))'
      BY <3>1, <3>2, ComposedMore
    <3> DEFINE all == Append(lines, line)
    <3>4. Composed(all)'
      BY <3>3
    <3> QED BY <3>4
  <2>2. CASE Garble
    BY <2>2 DEF Garble
  <2>3. CASE Receive
    <3>1. UNCHANGED <<stream, meant>>
      BY <2>3 DEF Receive, ProcessData, client
    <3> QED BY <3>1 DEF MeantInv, Composed
  <2>4. CASE ClearClient
    <3>1. stream' = <<>> /\ meant' = <<>>
      BY <2>4 DEF ClearClient
    <3>2. Composed(<<>>)'
      BY <3>1, NothingYet, JoinedFew, <<>> \in Seq(Byte) DEF Composed
    <3> QED BY <3>2
  <2>5. CASE UNCHANGED vars
    <3>1. UNCHANGED <<stream, meant>>
      BY <2>5 DEF vars, client
    <3> QED BY <3>1 DEF MeantInv, Composed
  <2> QED BY <2>1, <2>2, <2>3, <2>4, <2>5 DEF Next
<1> QED BY <1>1, <1>2, PTL DEF Spec

\* What is framed of composed lines is the first of them, all of them once all has come.
LEMMA DispatchedAsMeant ==
  ASSUME InputInv, NEW lines, Composed(lines)
  PROVE  /\ IsPrefix(dispatched, meant)
         /\ taken = Len(stream) => dispatched = meant
<1> DEFINE K == extracted
           x == SubSeq(stream, taken + 1, Len(stream))
           P == Parsed(K)
           Q == Parsed(lines)
           done == SubSeq(stream, 1, taken)
<1>1. /\ lines \in Seq(Seq(Byte)) /\ \A i \in DOMAIN lines : LineEnds(lines[i], 1) = {}
      /\ stream = Joined(lines) /\ meant = Q
  BY DEF Composed
<1>2. /\ stream \in Seq(Byte) /\ taken \in 0 .. Len(stream) /\ Len(stream) \in Nat
      /\ buffer \in Seq(Byte) /\ K \in Seq(Seq(Byte)) /\ LineEnds(buffer, 1) = {}
      /\ Joined(K) \o buffer = done /\ dispatched = P
      /\ \A i \in DOMAIN K : LineEnds(K[i], 1) = {}
  BY DEF InputInv
<1>3. x \in Seq(Byte) /\ done \o x = stream /\ (taken = Len(stream) => x = <<>>)
  <2>1. \A i \in taken + 1 .. Len(stream) : stream[i] \in Byte
    BY <1>2
  <2>2. x \in Seq(Byte) /\ (taken = Len(stream) => x = <<>>)
    BY <1>2, <2>1
  <2>3. SubSeq(stream, 1, Len(stream)) = stream
    BY <1>2
  <2>4. /\ 1 \in 1 .. Len(stream) + 1 /\ taken \in 1 - 1 .. Len(stream)
        /\ Len(stream) \in taken .. Len(stream)
    BY <1>2
  <2>5. done \o x = SubSeq(stream, 1, Len(stream))
    BY <1>2, <2>4, ConcatAdjacentSubSeq
  <2> QED BY <2>2, <2>3, <2>5
<1> HIDE DEF x, done
<1>4. (Joined(K) \o buffer) \o x = Joined(lines)
  BY <1>1, <1>2, <1>3
<1>5. /\ Len(K) <= Len(lines) /\ \A i \in 1 .. Len(K) : K[i] = lines[i]
      /\ x = <<>> => Len(K) = Len(lines)
  BY <1>1, <1>2, <1>3, <1>4, SameLines
<1>6. /\ P \in Seq(Payloads) /\ Len(P) = Len(K) /\ Len(K) \in Nat
      /\ \A i \in 1 .. Len(K) : P[i] = ParseMessage(K[i])
  BY <1>2, ParsedFacts
<1>7. /\ Q \in Seq(Payloads) /\ Len(Q) = Len(lines) /\ Len(lines) \in Nat
      /\ \A i \in 1 .. Len(lines) : Q[i] = ParseMessage(lines[i])
  BY <1>1, ParsedFacts
<1> HIDE DEF P, Q
<1>8. Len(P) <= Len(Q) /\ \A i \in 1 .. Len(P) : P[i] = Q[i]
  <2> SUFFICES ASSUME NEW i \in 1 .. Len(K) PROVE P[i] = Q[i]
    BY <1>5, <1>6, <1>7
  <2>1. i \in 1 .. Len(lines) /\ K[i] = lines[i]
    BY <1>5, <1>6, <1>7
  <2> QED BY <1>6, <1>7, <2>1
<1>9. SubSeq(P, 1, Len(P)) = SubSeq(Q, 1, Len(P))
  <2> DEFINE a == SubSeq(P, 1, Len(P))
             b == SubSeq(Q, 1, Len(P))
  <2>1. /\ a \in Seq(Payloads) /\ Len(a) = Len(P)
        /\ \A i \in 1 .. Len(P) : a[i] = P[i]
    BY <1>6
  <2>2. /\ b \in Seq(Payloads) /\ Len(b) = Len(P)
        /\ \A i \in 1 .. Len(P) : b[i] = Q[i]
    <3>1. Len(P) \in 0 .. Len(Q) /\ \A i \in 1 .. Len(P) : Q[i] \in Payloads
      BY <1>6, <1>7, <1>8
    <3> QED BY <1>7, <3>1
  <2> HIDE DEF a, b
  <2>3. a = b
    BY <1>8, <2>1, <2>2, SeqEqual
  <2> QED BY <2>3 DEF a, b
<1>10. ASSUME taken = Len(stream) PROVE P = Q
  <2>1. Len(P) = Len(Q)
    BY <1>3, <1>5, <1>6, <1>7, <1>10
  <2> QED BY <1>6, <1>7, <1>8, <2>1, SeqEqual
<1> QED BY <1>1, <1>2, <1>8, <1>9, <1>10 DEF IsPrefix

\* ReadAsMeant: the dispatcher gets what was composed, in order, and no more than that.
THEOREM ReadAsMeantHolds == Spec => []ReadAsMeant
<1>1. InputInv /\ MeantInv => ReadAsMeant
  BY DispatchedAsMeant DEF MeantInv, ReadAsMeant
<1> QED BY <1>1, InputInvariantHolds, MeantInvariantHolds, PTL

=============================================================================
