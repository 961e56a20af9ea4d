---------------------------- MODULE ChannelProofs ----------------------------
(***************************************************************************)
(* Facts about the methods of Channel and about MODE, for any set F of     *)
(* descriptors and T of texts, each stated once and used by the proofs     *)
(* about the commands.                                                     *)
(***************************************************************************)
EXTENDS ModeCommand, FiniteSetTheorems, TLAPS, WellFoundedInduction

\* Sound, without the operator: what holds while somebody is being removed.
Consistent(ch) ==
  JoinOrderAgrees(ch) /\ ch.ops \subseteq ch.members /\ InvitationsPending(ch)

-----------------------------------------------------------------------------
\* A nonempty set of naturals has a least element.
LEMMA SmallestExists ==
  ASSUME NEW S, S \subseteq Nat, S # {}
  PROVE  \E m \in S : \A k \in S : m <= k
<1> DEFINE R == OpToRel(<, Nat)
<1>1. IsWellFoundedOn(R, Nat)
  BY NatLessThanWellFounded
<1>2. \A x, y \in Nat : y < x => <<y, x>> \in R
  BY DEF OpToRel
<1> HIDE DEF R
<1>3. PICK m \in S : \A k \in S : ~ (<<k, m>> \in R)
  BY <1>1, WFMin
<1>4. ASSUME NEW k \in S PROVE m <= k
  <2>1. m \in Nat /\ k \in Nat /\ ~ (k < m)
    BY <1>2, <1>3
  <2> QED BY <2>1
<1> QED BY <1>4

\* A nonempty set of naturals with a bound has a greatest element.
LEMMA LargestExists ==
  ASSUME NEW n \in Nat, NEW S, S \subseteq 1 .. n, S # {}
  PROVE  \E m \in S : \A k \in S : k <= m
<1> DEFINE D == {n - k : k \in S}
<1>1. D \subseteq Nat /\ D # {}
  <2>1. \A k \in S : n - k \in Nat
    BY n \in Nat, S \subseteq 1 .. n
  <2> QED BY <2>1
<1>2. PICK d \in D : \A e \in D : d <= e
  BY <1>1, SmallestExists
<1>3. PICK m \in S : d = n - m
  OBVIOUS
<1>4. ASSUME NEW k \in S PROVE k <= m
  <2>1. n - m <= n - k
    BY <1>2, <1>3
  <2> QED BY <2>1
<1> QED BY <1>4

-----------------------------------------------------------------------------
\* A set of naturals with 0 and the successor of each of its elements has all.
LEMMA SetInduction ==
  ASSUME NEW S, 0 \in S, \A k \in Nat : k \in S => k + 1 \in S
  PROVE  \A k \in Nat : k \in S
<1> SUFFICES ASSUME NEW n \in Nat, n \notin S PROVE FALSE
  OBVIOUS
<1> DEFINE Out == {k \in Nat : k \notin S}
<1>1. PICK m \in Out : \A k \in Out : m <= k
  BY SmallestExists
<1>2. m # 0 /\ m - 1 \in Nat /\ ~ (m <= m - 1)
  BY <1>1
<1>3. m - 1 \in S
  BY <1>1, <1>2
<1> QED BY <1>1, <1>2, <1>3

\* The greatest of the first k naturals, and of any set of them with the last.
LEMMA MaxIsLast ==
  ASSUME NEW k \in Nat, NEW t \in SUBSET (1 .. k + 1), k + 1 \in t
  PROVE  Max(t) = k + 1
<1>1. \A y \in t : k + 1 >= y
  OBVIOUS
<1>2. \A x \in t : (\A y \in t : x >= y) => x = k + 1
  OBVIOUS
<1> QED BY <1>1, <1>2 DEF Max

\* It is one of its elements.
LEMMA MaxIsThere ==
  ASSUME NEW n \in Nat, NEW t \in SUBSET (1 .. n), t # {}
  PROVE  Max(t) \in t
<1>1. \E m \in t : \A k \in t : k <= m
  BY LargestExists
<1>2. \A k \in t : k \in Nat
  OBVIOUS
<1>3. \E m \in t : \A k \in t : m >= k
  BY <1>1, <1>2
<1> QED BY <1>3 DEF Max

\* The sets a fold of n steps passes through, one after the other.
LEMMA FirstSets ==
  ASSUME NEW n \in Nat
  PROVE  /\ 1 .. 0 = {} /\ 0 \in 0 .. n /\ n \in 0 .. n /\ {} \in SUBSET (1 .. n)
         /\ \A k \in 0 .. n - 1 :
              /\ k \in Nat /\ k \in 0 .. n /\ k + 1 \in 0 .. n
              /\ 1 .. k + 1 \in SUBSET (1 .. n) /\ 1 .. k + 1 # {}
              /\ (1 .. k + 1) \ {k + 1} = 1 .. k
              /\ Max(1 .. k + 1) = k + 1
<1>1. ASSUME NEW k \in 0 .. n - 1
      PROVE  /\ k \in Nat /\ k \in 0 .. n /\ k + 1 \in 0 .. n
             /\ 1 .. k + 1 \in SUBSET (1 .. n) /\ 1 .. k + 1 # {}
             /\ (1 .. k + 1) \ {k + 1} = 1 .. k
  OBVIOUS
<1>2. ASSUME NEW k \in 0 .. n - 1 PROVE Max(1 .. k + 1) = k + 1
  <2>1. k \in Nat /\ k + 1 \in 1 .. k + 1
    OBVIOUS
  <2> QED BY <2>1, MaxIsLast
<1> QED BY <1>1, <1>2

\* it is the fold of step over the subsets of 1..n, from base.
IsFold(it, base, n, step) ==
  \A t \in SUBSET (1 .. n) :
    it[t] = IF t = {} THEN base ELSE step[<<it[t \ {Max(t)}], Max(t)>>]

\* A fold over the subsets of 1..n exists: the value on a set is computed from
\* the value on the set without its greatest element.
LEMMA FoldExists ==
  ASSUME NEW A, NEW base \in A, NEW n \in Nat, NEW step \in [A \X (1 .. n) -> A]
  PROVE  \E it \in [SUBSET (1 .. n) -> A] : IsFold(it, base, n, step)
<1> DEFINE Fix(it, k) ==
             \A t \in SUBSET (1 .. k) :
               it[t] = IF t = {} THEN base ELSE step[<<it[t \ {Max(t)}], Max(t)>>]
           Folds(k) == \E it \in [SUBSET (1 .. k) -> A] : Fix(it, k)
           S == {k \in Nat : k <= n => Folds(k)}
<1>1. Folds(0)
  <2> DEFINE it == [t \in SUBSET (1 .. 0) |-> base]
  <2>1. \A t \in SUBSET (1 .. 0) : t = {}
    OBVIOUS
  <2>2. it \in [SUBSET (1 .. 0) -> A] /\ Fix(it, 0)
    BY <2>1
  <2> HIDE DEF it, Fix
  <2> QED BY <2>2
<1>2. ASSUME NEW k \in Nat, k + 1 <= n, Folds(k) PROVE Folds(k + 1)
  <2>1. PICK it \in [SUBSET (1 .. k) -> A] : Fix(it, k)
    BY <1>2
  <2> DEFINE next == [t \in SUBSET (1 .. k + 1) |->
                        IF k + 1 \in t THEN step[<<it[t \ {k + 1}], k + 1>>] ELSE it[t]]
  <2>2. ASSUME NEW t \in SUBSET (1 .. k + 1), k + 1 \in t
        PROVE  next[t] = step[<<next[t \ {Max(t)}], Max(t)>>] /\ next[t] \in A /\ t # {}
    <3>1. Max(t) = k + 1
      BY <2>2, MaxIsLast
    <3>2. t \ {k + 1} \in SUBSET (1 .. k) /\ t \ {k + 1} \in SUBSET (1 .. k + 1)
      OBVIOUS
    <3>3. next[t \ {k + 1}] = it[t \ {k + 1}] /\ it[t \ {k + 1}] \in A
      BY <2>1, <3>2
    <3>4. next[t] = step[<<it[t \ {k + 1}], k + 1>>]
      BY <2>2
    <3>5. k + 1 \in 1 .. n
      BY <1>2
    <3> HIDE DEF next
    <3> QED BY <2>2, <3>1, <3>3, <3>4, <3>5
  <2>3. ASSUME NEW t \in SUBSET (1 .. k + 1), k + 1 \notin t
        PROVE  /\ next[t] = IF t = {} THEN base ELSE step[<<next[t \ {Max(t)}], Max(t)>>]
               /\ next[t] \in A
    <3>1. t \in SUBSET (1 .. k)
      BY <2>3
    <3>2. next[t] = it[t] /\ it[t] \in A
      BY <2>1, <2>3, <3>1
    <3>3. it[t] = IF t = {} THEN base ELSE step[<<it[t \ {Max(t)}], Max(t)>>]
      BY <2>1, <3>1
    <3>4. t \ {Max(t)} \in SUBSET (1 .. k + 1) /\ k + 1 \notin t \ {Max(t)}
      BY <2>3
    <3>5. next[t \ {Max(t)}] = it[t \ {Max(t)}]
      BY <3>4
    <3> HIDE DEF next
    <3> QED BY <3>2, <3>3, <3>5
  <2>4. \A t \in SUBSET (1 .. k + 1) :
          /\ next[t] = IF t = {} THEN base ELSE step[<<next[t \ {Max(t)}], Max(t)>>]
          /\ next[t] \in A
    <3> HIDE DEF next
    <3> QED BY <2>2, <2>3
  <2>5. next \in [SUBSET (1 .. k + 1) -> A]
    BY <2>4
  <2> HIDE DEF next
  <2>6. Fix(next, k + 1)
    BY <2>4
  <2> HIDE DEF Fix
  <2> QED BY <2>5, <2>6
<1> HIDE DEF Folds
<1>3. 0 \in S /\ \A k \in Nat : k \in S => k + 1 \in S
  BY <1>1, <1>2
<1>4. n \in S
  <2> HIDE DEF S
  <2> QED BY <1>3, SetInduction
<1>5. Folds(n)
  BY <1>4
<1> QED BY <1>5 DEF Folds, IsFold

\* What Kept has after each element of the list.
LEMMA KeptTrace ==
  ASSUME NEW S, NEW s \in Seq(S), NEW T
  PROVE  \E g : /\ g[0] = <<>>
                /\ \A k \in 0 .. Len(s) - 1 :
                     g[k + 1] = IF s[k + 1] \in T THEN Append(g[k], s[k + 1]) ELSE g[k]
                /\ Kept(s, T) = g[Len(s)]
<1> DEFINE n == Len(s)
           Fold(it) == [t \in SUBSET DOMAIN s |->
                          IF t = {} THEN <<>>
                          ELSE IF s[Max(t)] \in T THEN Append(it[t \ {Max(t)}], s[Max(t)])
                          ELSE it[t \ {Max(t)}]]
           h == CHOOSE it : it = Fold(it)
           A == Seq(S)
           none == <<>>
           step == [p \in A \X (1 .. n) |-> IF s[p[2]] \in T THEN Append(p[1], s[p[2]]) ELSE p[1]]
<1>1. Kept(s, T) = h[DOMAIN s]
  BY DEF Kept, FoldLeft, MapThenFoldSet
<1>2. DOMAIN s = 1 .. n /\ n \in Nat /\ none \in A
  OBVIOUS
<1>3. step \in [A \X (1 .. n) -> A]
  OBVIOUS
<1>4. PICK it \in [SUBSET (1 .. n) -> A] : IsFold(it, none, n, step)
  <2> HIDE DEF A, n, step, none
  <2> QED BY <1>2, <1>3, FoldExists
<1>5. it = Fold(it)
  <2>1. ASSUME NEW t \in SUBSET (1 .. n), t # {} PROVE Max(t) \in 1 .. n
    BY <1>2, <2>1, MaxIsThere
  <2>2. ASSUME NEW t \in SUBSET (1 .. n), t # {}
        PROVE  step[<<it[t \ {Max(t)}], Max(t)>>]
                 = IF s[Max(t)] \in T THEN Append(it[t \ {Max(t)}], s[Max(t)]) ELSE it[t \ {Max(t)}]
    <3>1. it[t \ {Max(t)}] \in A /\ Max(t) \in 1 .. n
      BY <1>4, <2>1, <2>2
    <3> QED BY <3>1
  <2>3. \A t \in SUBSET (1 .. n) :
          (IF t = {} THEN <<>> ELSE step[<<it[t \ {Max(t)}], Max(t)>>])
          = (IF t = {} THEN <<>>
             ELSE IF s[Max(t)] \in T THEN Append(it[t \ {Max(t)}], s[Max(t)]) ELSE it[t \ {Max(t)}])
    <3> HIDE DEF step
    <3> QED BY <2>2
  <2>4. it = [t \in SUBSET (1 .. n) |-> it[t]]
    OBVIOUS
  <2> HIDE DEF step, n, A
  <2> QED BY <1>2, <1>4, <2>3, <2>4 DEF IsFold
<1>6. h = Fold(h)
  <2> HIDE DEF Fold
  <2> QED BY <1>5
<1> HIDE DEF h
<1>7. \A t \in SUBSET (1 .. n) :
        h[t] = IF t = {} THEN <<>>
               ELSE IF s[Max(t)] \in T THEN Append(h[t \ {Max(t)}], s[Max(t)])
               ELSE h[t \ {Max(t)}]
  BY <1>2, <1>6
<1> HIDE DEF Fold
<1> DEFINE g == [k \in 0 .. n |-> h[1 .. k]]
<1>8. g[0] = <<>>
  BY <1>2, <1>7, FirstSets
<1>9. ASSUME NEW k \in 0 .. n - 1
      PROVE  g[k + 1] = IF s[k + 1] \in T THEN Append(g[k], s[k + 1]) ELSE g[k]
  <2>1. /\ k \in 0 .. n /\ k + 1 \in 0 .. n
        /\ 1 .. k + 1 \in SUBSET (1 .. n) /\ 1 .. k + 1 # {}
        /\ (1 .. k + 1) \ {k + 1} = 1 .. k /\ Max(1 .. k + 1) = k + 1
    BY <1>2, FirstSets
  <2>2. g[k] = h[1 .. k] /\ g[k + 1] = h[1 .. k + 1]
    BY <2>1
  <2> HIDE DEF g, n
  <2> QED BY <1>7, <2>1, <2>2
<1>10. Kept(s, T) = g[n]
  BY <1>1, <1>2
<1> HIDE DEF g
<1> QED BY <1>8, <1>9, <1>10

\* What is kept is of the list and of the set, and nothing of both is lost.
LEMMA KeptKeeps ==
  ASSUME NEW S, NEW s \in Seq(S), NEW T
  PROVE  /\ Kept(s, T) \in Seq(S \cap T)
         /\ \A i \in DOMAIN s : s[i] \in T =>
              \E j \in DOMAIN Kept(s, T) : Kept(s, T)[j] = s[i]
<1> DEFINE n == Len(s)
<1>1. PICK g : /\ g[0] = <<>>
               /\ \A k \in 0 .. n - 1 :
                    g[k + 1] = IF s[k + 1] \in T THEN Append(g[k], s[k + 1]) ELSE g[k]
               /\ Kept(s, T) = g[n]
  BY KeptTrace
<1> DEFINE Has(k) == /\ g[k] \in Seq(S \cap T)
                     /\ \A i \in 1 .. k : s[i] \in T => \E j \in DOMAIN g[k] : g[k][j] = s[i]
           I == {k \in Nat : k <= n => Has(k)}
<1>2. n \in Nat /\ DOMAIN s = 1 .. n
  OBVIOUS
<1> HIDE DEF n
<1>3. Has(0)
  BY <1>1
<1>4. ASSUME NEW k \in Nat, k + 1 <= n, Has(k) PROVE Has(k + 1)
  <2>1. k \in 0 .. n - 1 /\ s[k + 1] \in S
    BY <1>2, <1>4
  <2>2. g[k] \in Seq(S \cap T)
    BY <1>4
  <2>3. CASE s[k + 1] \in T
    <3>1. g[k + 1] = Append(g[k], s[k + 1])
      BY <1>1, <2>1, <2>3
    <3>2. /\ g[k + 1] \in Seq(S \cap T) /\ Len(g[k + 1]) = Len(g[k]) + 1
          /\ \A j \in DOMAIN g[k] : j \in DOMAIN g[k + 1] /\ g[k + 1][j] = g[k][j]
          /\ Len(g[k]) + 1 \in DOMAIN g[k + 1] /\ g[k + 1][Len(g[k]) + 1] = s[k + 1]
      BY <2>1, <2>2, <2>3, <3>1
    <3>3. ASSUME NEW i \in 1 .. k + 1, s[i] \in T
          PROVE  \E j \in DOMAIN g[k + 1] : g[k + 1][j] = s[i]
      <4>1. CASE i = k + 1
        BY <3>2, <4>1
      <4>2. CASE i # k + 1
        <5>1. PICK j \in DOMAIN g[k] : g[k][j] = s[i]
          BY <1>4, <3>3, <4>2
        <5> QED BY <3>2, <5>1
      <4> QED BY <4>1, <4>2
    <3> QED BY <3>2, <3>3
  <2>4. CASE s[k + 1] \notin T
    <3>1. g[k + 1] = g[k]
      BY <1>1, <2>1, <2>4
    <3>2. \A i \in 1 .. k + 1 : s[i] \in T => i \in 1 .. k
      BY <2>4
    <3> QED BY <1>4, <3>1, <3>2
  <2> QED BY <2>3, <2>4
<1> HIDE DEF Has
<1>5. 0 \in I /\ \A k \in Nat : k \in I => k + 1 \in I
  BY <1>2, <1>3, <1>4
<1>6. n \in I
  <2> HIDE DEF I
  <2> QED BY <1>2, <1>5, SetInduction
<1>7. Has(n)
  BY <1>6
<1> QED BY <1>1, <1>2, <1>7 DEF Has

\* As many elements are kept as places of the list hold an element of the set.
LEMMA KeptLength ==
  ASSUME NEW S, NEW s \in Seq(S), NEW T
  PROVE  /\ IsFiniteSet({i \in DOMAIN s : s[i] \in T})
         /\ Len(Kept(s, T)) = Cardinality({i \in DOMAIN s : s[i] \in T})
<1> DEFINE n == Len(s)
           places(k) == {i \in 1 .. k : s[i] \in T}
<1>1. PICK g : /\ g[0] = <<>>
               /\ \A k \in 0 .. n - 1 :
                    g[k + 1] = IF s[k + 1] \in T THEN Append(g[k], s[k + 1]) ELSE g[k]
               /\ Kept(s, T) = g[n]
  BY KeptTrace
<1>2. n \in Nat /\ DOMAIN s = 1 .. n /\ \A i \in 1 .. n : s[i] \in S
  OBVIOUS
<1> HIDE DEF n
<1> DEFINE Counts(k) == /\ g[k] \in Seq(S) /\ IsFiniteSet(places(k))
                        /\ Len(g[k]) = Cardinality(places(k))
           I == {k \in Nat : k <= n => Counts(k)}
<1>3. Counts(0)
  <2>1. places(0) = {}
    OBVIOUS
  <2>2. g[0] \in Seq(S) /\ Len(g[0]) = 0
    BY <1>1
  <2> HIDE DEF places
  <2> QED BY <2>1, <2>2, FS_EmptySet
<1>4. ASSUME NEW k \in Nat, k + 1 <= n, Counts(k) PROVE Counts(k + 1)
  <2>1. k \in 0 .. n - 1 /\ k + 1 \in 1 .. n /\ s[k + 1] \in S
    BY <1>2, <1>4
  <2>2. k + 1 \notin places(k) /\ Len(g[k]) \in Nat
    BY <1>4
  <2>3. CASE s[k + 1] \in T
    <3>1. places(k + 1) = places(k) \cup {k + 1}
      BY <2>3
    <3>2. g[k + 1] = Append(g[k], s[k + 1])
      BY <1>1, <2>1, <2>3
    <3>3. g[k + 1] \in Seq(S) /\ Len(g[k + 1]) = Len(g[k]) + 1
      BY <1>4, <2>1, <3>2
    <3> HIDE DEF places
    <3> QED BY <1>4, <2>2, <3>1, <3>3, FS_AddElement
  <2>4. CASE s[k + 1] \notin T
    <3>1. places(k + 1) = places(k)
      BY <2>4
    <3>2. g[k + 1] = g[k]
      BY <1>1, <2>1, <2>4
    <3> HIDE DEF places
    <3> QED BY <1>4, <3>1, <3>2
  <2> QED BY <2>3, <2>4
<1> HIDE DEF Counts
<1>5. 0 \in I /\ \A k \in Nat : k \in I => k + 1 \in I
  BY <1>2, <1>3, <1>4
<1>6. n \in I
  <2> HIDE DEF I
  <2> QED BY <1>2, <1>5, SetInduction
<1>7. Counts(n) /\ places(n) = {i \in DOMAIN s : s[i] \in T}
  BY <1>2, <1>6
<1> HIDE DEF places
<1> QED BY <1>1, <1>7 DEF Counts

-----------------------------------------------------------------------------
\* Removing a member of the join order removes it and nothing else.
LEMMA RemoveFromJoinOrderRemoves ==
  ASSUME NEW F, NEW order \in Seq(F), NEW f,
         \A i, j \in DOMAIN order : order[i] = order[j] => i = j
  PROVE  LET new == RemoveFromJoinOrder(order, f)
         IN  /\ new \in Seq(F)
             /\ {new[i] : i \in DOMAIN new} = {order[i] : i \in DOMAIN order} \ {f}
             /\ \A i, j \in DOMAIN new : new[i] = new[j] => i = j
<1> DEFINE new == RemoveFromJoinOrder(order, f)
<1>1. CASE \A i \in DOMAIN order : order[i] # f
  BY <1>1 DEF RemoveFromJoinOrder
<1>2. CASE \E i \in DOMAIN order : order[i] = f
  <2> DEFINE n == Len(order)
             k == CHOOSE i \in DOMAIN order : order[i] = f
  <2>1. n \in Nat /\ DOMAIN order = 1 .. n /\ k \in 1 .. n /\ order[k] = f
    BY <1>2
  <2>2. new = [i \in 1 .. n - 1 |-> IF i < k THEN order[i] ELSE order[i + 1]]
    BY <1>2 DEF RemoveFromJoinOrder
  <2> HIDE DEF k, n, new
  <2>3. n - 1 \in Nat /\ DOMAIN new = 1 .. n - 1
    BY <2>1, <2>2
  <2>4. \A i \in 1 .. n - 1 : new[i] = IF i < k THEN order[i] ELSE order[i + 1]
    BY <2>1, <2>2
  <2>5. \A i \in 1 .. n - 1 : i + 1 \in 1 .. n /\ i \in 1 .. n
    BY <2>1
  <2>6. \A i \in 1 .. n : order[i] \in F
    BY <2>1
  <2> DEFINE at(i) == IF i < k THEN i ELSE i + 1
  <2>7. \A i \in 1 .. n - 1 : at(i) \in 1 .. n /\ at(i) # k /\ new[i] = order[at(i)]
    BY <2>1, <2>4, <2>5
  <2>8. \A i, j \in 1 .. n - 1 : at(i) = at(j) => i = j
    BY <2>1
  <2>9. new \in Seq(F)
    <3>1. \A i \in 1 .. n - 1 : new[i] \in F
      BY <2>4, <2>5, <2>6
    <3>2. new = [i \in 1 .. n - 1 |-> new[i]]
      BY <2>2
    <3> QED BY <2>3, <3>1, <3>2
  <2>10. ASSUME NEW i \in DOMAIN new PROVE new[i] \in {order[j] : j \in DOMAIN order} \ {f}
    <3>1. at(i) \in DOMAIN order /\ at(i) # k /\ new[i] = order[at(i)]
      BY <2>1, <2>3, <2>7
    <3> HIDE DEF at
    <3> QED BY <2>1, <3>1
  <2>11. ASSUME NEW j \in DOMAIN order, order[j] # f PROVE \E i \in DOMAIN new : new[i] = order[j]
    <3>1. CASE j < k
      <4>1. j \in 1 .. n - 1
        BY <2>1, <3>1
      <4> QED BY <2>3, <2>4, <3>1, <4>1
    <3>2. CASE j > k
      <4>1. j - 1 \in 1 .. n - 1 /\ ~ (j - 1 < k) /\ (j - 1) + 1 = j
        BY <2>1, <3>2
      <4> QED BY <2>3, <2>4, <4>1
    <3> QED BY <2>1, <2>11, <3>1, <3>2
  <2>12. ASSUME NEW i \in DOMAIN new, NEW j \in DOMAIN new, new[i] = new[j] PROVE i = j
    <3>1. at(i) = at(j)
      <4> HIDE DEF at
      <4> QED BY <2>1, <2>3, <2>12, <2>7
    <3> QED BY <2>3, <2>8, <3>1
  <2> QED BY <2>9, <2>10, <2>11, <2>12 DEF new
<1> QED BY <1>1, <1>2

-----------------------------------------------------------------------------
\* A channel nobody has joined.
LEMMA NewChannelIsConsistent ==
  ASSUME NEW F, NEW T
  PROVE  NewChannel \in ChannelType(F, T) /\ Consistent(NewChannel)
BY DEF NewChannel, ChannelType, Consistent, JoinOrderAgrees, InvitationsPending

\* JOIN: the newcomer is in, and holds no invitation any more.
LEMMA AddUserAdds ==
  ASSUME NEW F, NEW T, NEW ch \in ChannelType(F, T), NEW f \in F,
         Consistent(ch), f \notin ch.members
  PROVE  LET in == UninviteUser(AddUser(ch, f), f)
         IN  /\ in \in ChannelType(F, T)
             /\ Consistent(in)
             /\ in.members = ch.members \cup {f}
             /\ in.ops = ch.ops
<1> DEFINE in  == UninviteUser(AddUser(ch, f), f)
           old == ch.joinOrder
<1> USE DEF ChannelType
<1>1. in = [ch EXCEPT !.members = ch.members \cup {f}, !.joinOrder = Append(old, f),
                      !.invited = ch.invited \ {f}]
  BY DEF AddUser, UninviteUser
<1>2. /\ in.members = ch.members \cup {f} /\ in.joinOrder = Append(old, f)
      /\ in.ops = ch.ops /\ in.invited = ch.invited \ {f}
  BY <1>1
<1>3. old \in Seq(F) /\ Append(old, f) \in Seq(F) /\ Len(Append(old, f)) = Len(old) + 1
  OBVIOUS
<1>4. in \in ChannelType(F, T)
  <2>1. ch.members \cup {f} \in SUBSET F /\ ch.invited \ {f} \in SUBSET F
    OBVIOUS
  <2> HIDE DEF in, old
  <2> QED BY <1>1, <1>3, <2>1
<1>5. JoinOrderAgrees(in)
  <2>1. \A i \in 1 .. Len(old) : Append(old, f)[i] = old[i]
    BY <1>3
  <2>2. Append(old, f)[Len(old) + 1] = f
    BY <1>3
  <2>3. DOMAIN Append(old, f) = 1 .. Len(old) + 1 /\ DOMAIN old = 1 .. Len(old)
    BY <1>3
  <2>4. \A i \in DOMAIN Append(old, f) : i \in DOMAIN old \/ i = Len(old) + 1
    BY <1>3, <2>3
  <2>5. f \notin {old[i] : i \in DOMAIN old}
    BY DEF Consistent, JoinOrderAgrees
  <2>6. {Append(old, f)[i] : i \in DOMAIN Append(old, f)} = ch.members \cup {f}
    BY <1>3, <2>1, <2>2, <2>3, <2>4 DEF Consistent, JoinOrderAgrees
  <2>7. \A i, j \in DOMAIN Append(old, f) :
          Append(old, f)[i] = Append(old, f)[j] => i = j
    BY <2>1, <2>2, <2>3, <2>4, <2>5 DEF Consistent, JoinOrderAgrees
  <2> QED BY <1>2, <2>6, <2>7 DEF JoinOrderAgrees
<1> HIDE DEF in
<1>6. in.ops \subseteq in.members /\ InvitationsPending(in)
  BY <1>2 DEF Consistent, InvitationsPending
<1> QED BY <1>2, <1>4, <1>5, <1>6 DEF Consistent, in

\* PART, KICK and disconnection: the channel is consistent without the member.
THEOREM RemoveUserRemoves ==
  ASSUME NEW F, NEW T, NEW ch \in ChannelType(F, T), NEW f, Consistent(ch)
  PROVE  LET rest == RemoveUser(ch, f)
         IN  /\ rest \in ChannelType(F, T)
             /\ Consistent(rest)
             /\ rest.members = ch.members \ {f}
             /\ rest.ops = ch.ops \ {f}
<1> DEFINE rest  == RemoveUser(ch, f)
           order == RemoveFromJoinOrder(ch.joinOrder, f)
<1>1. CASE f \notin ch.members
  BY <1>1 DEF RemoveUser, Consistent
<1>2. CASE f \in ch.members
  <2>1. /\ order \in Seq(F)
        /\ {order[i] : i \in DOMAIN order} = {ch.joinOrder[i] : i \in DOMAIN ch.joinOrder} \ {f}
        /\ \A i, j \in DOMAIN order : order[i] = order[j] => i = j
    BY RemoveFromJoinOrderRemoves DEF Consistent, JoinOrderAgrees, ChannelType
  <2>2. rest = [ch EXCEPT !.members = ch.members \ {f}, !.ops = ch.ops \ {f},
                          !.invited = ch.invited \ {f}, !.joinOrder = order]
    BY <1>2 DEF RemoveUser
  <2> HIDE DEF order
  <2>3. /\ rest.members = ch.members \ {f} /\ rest.ops = ch.ops \ {f}
        /\ rest.invited = ch.invited \ {f} /\ rest.joinOrder = order
    BY <2>2 DEF ChannelType
  <2>4. rest \in ChannelType(F, T)
    <3>1. /\ ch.members \ {f} \in SUBSET F /\ ch.ops \ {f} \in SUBSET F
          /\ ch.invited \ {f} \in SUBSET F /\ order \in Seq(F)
      BY <2>1 DEF ChannelType
    <3> HIDE DEF rest
    <3> QED BY <2>2, <3>1 DEF ChannelType
  <2> HIDE DEF rest
  <2>5. JoinOrderAgrees(rest)
    <3>1. ch.members = {ch.joinOrder[i] : i \in DOMAIN ch.joinOrder}
      BY DEF JoinOrderAgrees, Consistent
    <3>2. rest.members = {order[i] : i \in DOMAIN order}
      BY <2>1, <2>3, <3>1
    <3> QED BY <2>1, <2>3, <3>2 DEF JoinOrderAgrees
  <2>6. rest.ops \subseteq rest.members /\ InvitationsPending(rest)
    BY <2>3 DEF Consistent, InvitationsPending
  <2> QED BY <2>3, <2>4, <2>5, <2>6 DEF Consistent, rest
<1> QED BY <1>1, <1>2

\* ensureAtLeastOneOperator does what its name says when somebody is there.
THEOREM EnsureOperatorEnsures ==
  ASSUME NEW F, NEW T, NEW ch \in ChannelType(F, T), NoFd \notin F,
         Consistent(ch), ch.members # {}
  PROVE  LET next == EnsureOperator(ch)
         IN  /\ next \in ChannelType(F, T)
             /\ Sound(next)
             /\ next.members = ch.members
             /\ next.joinOrder = ch.joinOrder
             /\ ch.ops # {} => next.ops = ch.ops
             /\ ch.ops = {} => next.ops = {ch.joinOrder[1]}
<1> DEFINE next    == EnsureOperator(ch)
           present == {i \in DOMAIN ch.joinOrder : ch.joinOrder[i] \in ch.members}
           first   == CHOOSE i \in present : \A j \in present : i <= j
<1> USE DEF ChannelType
<1>1. ch.ops \cap ch.members = ch.ops
  BY DEF Consistent
<1>2. present = 1 .. Len(ch.joinOrder) /\ Len(ch.joinOrder) \in Nat /\ present # {}
  BY DEF Consistent, JoinOrderAgrees
<1>3. first = 1 /\ 1 \in present
  <2>1. 1 \in present /\ \A j \in present : 1 <= j
    BY <1>2
  <2>2. \A i \in present : (\A j \in present : i <= j) => i = 1
    BY <1>2, <2>1
  <2> HIDE DEF present
  <2> QED BY <2>1, <2>2
<1>4. ch.joinOrder[1] \in ch.members /\ ch.members \subseteq F
  BY <1>3
<1>5. Promoted(ch) = IF ch.ops # {} THEN NoFd ELSE ch.joinOrder[1]
  BY <1>1, <1>2, <1>3 DEF Promoted
<1>6. next = [ch EXCEPT !.ops = IF ch.ops # {} THEN ch.ops ELSE {ch.joinOrder[1]}]
  <2>1. ch.ops \cup ({Promoted(ch)} \ {NoFd})
          = IF ch.ops # {} THEN ch.ops ELSE {ch.joinOrder[1]}
    BY <1>4, <1>5
  <2> QED BY <1>1, <2>1 DEF EnsureOperator
<1> HIDE DEF next
<1>7. next.ops = IF ch.ops # {} THEN ch.ops ELSE {ch.joinOrder[1]}
  BY <1>6
<1>8. /\ next.members = ch.members /\ next.joinOrder = ch.joinOrder
      /\ next.invited = ch.invited
  BY <1>6
<1>9. next \in ChannelType(F, T)
  BY <1>4, <1>6
<1>10. Sound(next)
  BY <1>4, <1>7, <1>8 DEF Sound, Consistent, JoinOrderAgrees, HasOperator,
     InvitationsPending
<1> QED BY <1>7, <1>8, <1>9, <1>10 DEF next

-----------------------------------------------------------------------------
\* The lines MODE works on, with texts of T for arguments.
LineType(T) == [items : Seq(ModeItem), args : Seq(T \cup {Empty})]

\* An argument is one of the line's, or none.
LEMMA BoundArgType ==
  ASSUME NEW T, NEW line \in LineType(T), NEW i \in DOMAIN line.items
  PROVE  BoundArg(line, i) \in T \cup {Empty}
<1> DEFINE takers == {j \in 1 .. i : NeedsArg(line.items[j])}
<1>1. CASE ~ (NeedsArg(line.items[i]) /\ Cardinality(takers) <= Len(line.args))
  BY <1>1 DEF BoundArg, HasArg, ArgIndex
<1>2. CASE NeedsArg(line.items[i]) /\ Cardinality(takers) <= Len(line.args)
  <2>1. i \in Nat /\ i \in takers
    BY <1>2 DEF LineType
  <2>2. IsFiniteSet(takers)
    <3>1. IsFiniteSet(1 .. i) /\ takers \subseteq 1 .. i
      BY <2>1, FS_Interval
    <3> HIDE DEF takers
    <3> QED BY <3>1, FS_Subset
  <2>3. Cardinality(takers) \in Nat /\ Cardinality(takers) # 0
    BY <2>1, <2>2, FS_CardinalityType, FS_EmptySet
  <2>4. line.args \in Seq(T \cup {Empty})
    BY DEF LineType
  <2>5. BoundArg(line, i) = line.args[Cardinality(takers)]
    BY <1>2 DEF BoundArg, HasArg, ArgIndex
  <2> HIDE DEF takers
  <2> QED BY <1>2, <2>3, <2>4, <2>5
<1> QED BY <1>1, <1>2

\* A request that takes effect has the argument it needs.
LEMMA RequestsType ==
  ASSUME NEW T, NEW ch, NEW who, NEW line \in LineType(T), Empty \notin T
  PROVE  LET reqs == Requests(ch, line, who)
         IN  /\ \E n \in Nat : DOMAIN reqs = 1 .. n
             /\ \A i \in DOMAIN reqs :
                  /\ reqs[i].arg \in T \cup {Empty}
                  /\ reqs[i].mode = "o" /\ TakesEffect(reqs[i]) =>
                       who[reqs[i].arg] \in ch.members
                  /\ reqs[i].mode \in {"k", "l"} /\ reqs[i].sign = "+"
                       /\ TakesEffect(reqs[i]) => reqs[i].arg \in T
<1> DEFINE reqs == Requests(ch, line, who)
<1>1. DOMAIN reqs = 1 .. Len(line.items) /\ Len(line.items) \in Nat
  BY DEF Requests, LineType
<1>2. ASSUME NEW i \in DOMAIN reqs
      PROVE  /\ reqs[i].arg \in T \cup {Empty}
             /\ reqs[i].mode = "o" /\ TakesEffect(reqs[i]) =>
                  who[reqs[i].arg] \in ch.members
             /\ reqs[i].mode \in {"k", "l"} /\ reqs[i].sign = "+"
                  /\ TakesEffect(reqs[i]) => reqs[i].arg \in T
  <2> DEFINE item == line.items[i]
             arg  == BoundArg(line, i)
  <2>1. i \in DOMAIN line.items /\ arg \in T \cup {Empty}
    BY BoundArgType DEF Requests
  <2>2. /\ reqs[i].sign = item.sign /\ reqs[i].mode = item.mode
        /\ reqs[i].arg \in {arg, Empty}
        /\ reqs[i].arg # Empty /\ item.mode = "o" => who[reqs[i].arg] \in ch.members
    BY <2>1 DEF Requests
  <2> HIDE DEF reqs, arg
  <2>3. TakesEffect(reqs[i]) /\ reqs[i].mode = "o" => reqs[i].arg # Empty
    BY DEF TakesEffect, NeedsArg
  <2>4. TakesEffect(reqs[i]) /\ reqs[i].mode \in {"k", "l"} /\ reqs[i].sign = "+"
          => reqs[i].arg # Empty
    BY DEF TakesEffect, NeedsArg
  <2> QED BY <2>1, <2>2, <2>3, <2>4
<1> HIDE DEF reqs
<1> QED BY <1>1, <1>2 DEF reqs

\* MODE answers with these four errors only.
LEMMA ComplaintsType ==
  ASSUME NEW T, NEW line \in LineType(T), NEW ch, NEW who
  PROVE  Complaints(ch, line, who) \in Seq({"461", "696", "401", "441"})
<1> DEFINE all   == [i \in DOMAIN line.items |-> Complaint(ch, line, i, who)]
           Codes == {"461", "696", "401", "441"}
<1>1. \A i \in DOMAIN line.items : Complaint(ch, line, i, who) \in Codes \cup {"none"}
  BY DEF Complaint
<1>2. all \in Seq(Codes \cup {"none"})
  BY <1>1 DEF LineType
<1> HIDE DEF all
<1>3. ASSUME NEW some \in SUBSET Codes PROVE Kept(all, some) \in Seq(Codes)
  <2>1. Kept(all, some) \in Seq((Codes \cup {"none"}) \cap some)
    BY <1>2, KeptKeeps
  <2>2. (Codes \cup {"none"}) \cap some \subseteq Codes
    OBVIOUS
  <2> QED BY <2>1, <2>2
<1>4. /\ Kept(all, {"461"}) \in Seq(Codes) /\ Kept(all, {"696"}) \in Seq(Codes)
      /\ Kept(all, {"401", "441"}) \in Seq(Codes)
  BY <1>3
<1>5. Complaints(ch, line, who)
        = Kept(all, {"461"}) \o Kept(all, {"696"}) \o Kept(all, {"401", "441"})
  BY DEF Complaints, all
<1> HIDE DEF Codes
<1>6. Complaints(ch, line, who) \in Seq(Codes)
  BY <1>4, <1>5
<1> QED BY <1>6 DEF Codes

\* The letters of a line that change mode m, those about the operator f, and the
\* last of some letters.
AboutMode(reqs, m) == {i \in DOMAIN reqs : reqs[i].mode = m /\ TakesEffect(reqs[i])}

AboutOperator(reqs, who, f) == {i \in AboutMode(reqs, "o") : who[reqs[i].arg] = f}

LastOf(reqs, S) == reqs[CHOOSE i \in S : \A j \in S : j <= i]

\* The last letter about a field decides it, and no other field changes.
LEMMA ApplyModesFields ==
  ASSUME NEW F, NEW T, NEW ch \in ChannelType(F, T), NEW reqs, NEW who
  PROVE  LET new == ApplyModes(ch, reqs, who)
             i   == AboutMode(reqs, "i")
             t   == AboutMode(reqs, "t")
             k   == AboutMode(reqs, "k")
             l   == AboutMode(reqs, "l")
             o(f) == AboutOperator(reqs, who, f)
         IN  /\ new.members = ch.members /\ new.joinOrder = ch.joinOrder
             /\ new.invited = ch.invited /\ new.topic = ch.topic
             /\ new.inviteOnly = IF i = {} THEN ch.inviteOnly ELSE LastOf(reqs, i).sign = "+"
             /\ new.topicLock = IF t = {} THEN ch.topicLock ELSE LastOf(reqs, t).sign = "+"
             /\ new.key = IF k = {} THEN ch.key ELSE LastOf(reqs, k).arg
             /\ new.limit = IF l = {} THEN ch.limit
                            ELSE IF LastOf(reqs, l).sign = "+" THEN LimitOf[LastOf(reqs, l).arg]
                            ELSE 0
             /\ new.ops = {f \in ch.members \cup ch.ops :
                             IF o(f) = {} THEN f \in ch.ops ELSE LastOf(reqs, o(f)).sign = "+"}
<1> DEFINE i == AboutMode(reqs, "i")
           t == AboutMode(reqs, "t")
           k == AboutMode(reqs, "k")
           l == AboutMode(reqs, "l")
           invites == IF i = {} THEN ch.inviteOnly ELSE LastOf(reqs, i).sign = "+"
           locks   == IF t = {} THEN ch.topicLock ELSE LastOf(reqs, t).sign = "+"
           key     == IF k = {} THEN ch.key ELSE LastOf(reqs, k).arg
           limit   == IF l = {} THEN ch.limit
                      ELSE IF LastOf(reqs, l).sign = "+" THEN LimitOf[LastOf(reqs, l).arg]
                      ELSE 0
           ops     == {f \in ch.members \cup ch.ops :
                         IF AboutOperator(reqs, who, f) = {} THEN f \in ch.ops
                         ELSE LastOf(reqs, AboutOperator(reqs, who, f)).sign = "+"}
           new     == ApplyModes(ch, reqs, who)
<1>1. new = [ch EXCEPT !.inviteOnly = invites, !.topicLock = locks, !.key = key,
                       !.limit = limit, !.ops = ops]
  BY DEF ApplyModes, AboutMode, AboutOperator, LastOf
<1> HIDE DEF new, invites, locks, key, limit, ops
<1>2. /\ new.members = ch.members /\ new.joinOrder = ch.joinOrder
      /\ new.invited = ch.invited /\ new.topic = ch.topic
      /\ new.inviteOnly = invites /\ new.topicLock = locks /\ new.key = key
      /\ new.limit = limit /\ new.ops = ops
  BY <1>1 DEF ChannelType
<1> QED BY <1>2 DEF new, invites, locks, key, limit, ops

\* MODE moves no member, and makes operators of members only.
THEOREM ApplyModesKeepsMembers ==
  ASSUME NEW F, NEW T, NEW ch \in ChannelType(F, T), NEW who,
         NEW line \in LineType(T), Empty \notin T, LimitOf \in [T -> Nat],
         Consistent(ch)
  PROVE  LET new == ApplyModes(ch, Requests(ch, line, who), who)
         IN  /\ new \in ChannelType(F, T)
             /\ Consistent(new)
             /\ new.members = ch.members
             /\ new.joinOrder = ch.joinOrder
<1> DEFINE reqs     == Requests(ch, line, who)
           about(m) == {i \in DOMAIN reqs : reqs[i].mode = m /\ TakesEffect(reqs[i])}
           last(S)  == reqs[CHOOSE i \in S : \A j \in S : j <= i]
           new      == ApplyModes(ch, reqs, who)
<1>1. /\ \E n \in Nat : DOMAIN reqs = 1 .. n
      /\ \A i \in DOMAIN reqs :
           /\ reqs[i].arg \in T \cup {Empty}
           /\ reqs[i].mode \in {"k", "l"} /\ reqs[i].sign = "+"
                /\ TakesEffect(reqs[i]) => reqs[i].arg \in T
  BY RequestsType
<1> HIDE DEF reqs
<1>2. ASSUME NEW m, about(m) # {} PROVE \E i \in about(m) : last(about(m)) = reqs[i]
  <2>1. PICK n \in Nat : about(m) \subseteq 1 .. n
    BY <1>1
  <2> HIDE DEF about
  <2>2. \E i \in about(m) : \A j \in about(m) : j <= i
    BY <1>2, <2>1, LargestExists
  <2> QED BY <2>2
<1> DEFINE newKey   == IF about("k") = {} THEN ch.key ELSE last(about("k")).arg
           newLimit == IF about("l") = {} THEN ch.limit
                       ELSE IF last(about("l")).sign = "+" THEN LimitOf[last(about("l")).arg]
                       ELSE 0
           flag(m, old) == IF about(m) = {} THEN old ELSE last(about(m)).sign = "+"
           oper(f)  == {i \in about("o") : who[reqs[i].arg] = f}
           isOperator(f) == IF oper(f) = {} THEN f \in ch.ops ELSE last(oper(f)).sign = "+"
           newOps   == {f \in ch.members \cup ch.ops : isOperator(f)}
<1>3. new = [ch EXCEPT !.inviteOnly = flag("i", ch.inviteOnly),
                       !.topicLock = flag("t", ch.topicLock),
                       !.key = newKey, !.limit = newLimit, !.ops = newOps]
  BY DEF ApplyModes
<1>4. newKey \in T \cup {Empty}
  <2>1. CASE about("k") = {}
    BY <2>1 DEF ChannelType
  <2>2. CASE about("k") # {}
    <3>1. PICK i \in about("k") : last(about("k")) = reqs[i]
      BY <1>2, <2>2
    <3>2. reqs[i].arg \in T \cup {Empty}
      BY <1>1
    <3> HIDE DEF about, last
    <3> QED BY <2>2, <3>1, <3>2
  <2> QED BY <2>1, <2>2
<1>5. newLimit \in Nat
  <2>1. CASE about("l") = {}
    BY <2>1 DEF ChannelType
  <2>2. CASE about("l") # {}
    <3>1. PICK i \in about("l") : last(about("l")) = reqs[i]
      BY <1>2, <2>2
    <3>2. reqs[i].sign = "+" => reqs[i].arg \in T
      BY <1>1
    <3> HIDE DEF about, last
    <3> QED BY <2>2, <3>1, <3>2
  <2> QED BY <2>1, <2>2
<1>6. newOps \subseteq ch.members /\ ch.members \subseteq F
  BY DEF Consistent, ChannelType
<1>7. flag("i", ch.inviteOnly) \in BOOLEAN /\ flag("t", ch.topicLock) \in BOOLEAN
  BY DEF ChannelType
<1> HIDE DEF newKey, newLimit, newOps, flag, new
<1>8. new \in ChannelType(F, T)
  BY <1>3, <1>4, <1>5, <1>6, <1>7 DEF ChannelType
<1>9. /\ new.members = ch.members /\ new.joinOrder = ch.joinOrder
      /\ new.invited = ch.invited /\ new.ops = newOps
  BY <1>3 DEF ChannelType
<1>10. Consistent(new)
  BY <1>6, <1>9 DEF Consistent, JoinOrderAgrees, InvitationsPending
<1> QED BY <1>8, <1>9, <1>10 DEF new, reqs

=============================================================================
