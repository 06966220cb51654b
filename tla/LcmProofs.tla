------------------------------ MODULE LcmProofs ------------------------------
(***************************************************************************)
(* Theorems about Lcm: what memory, tables and context of the compactor    *)
(* keep of each other, for every configuration and any number of messages, *)
(* failures and restarts.                                                  *)
(***************************************************************************)
EXTENDS Lcm, Recursion

-----------------------------------------------------------------------------
(* Numbers in order.                                                       *)

\* What is bounded has a greatest number.
LEMMA Greatest ==
    ASSUME NEW b \in Nat, NEW T \in SUBSET (0 .. b), T # {}
    PROVE  \E m \in T : \A n \in T : n <= m
<1> DEFINE D == {b - n : n \in T}
<1>1. D \in SUBSET Nat /\ D # {}
  <2>1. \A n \in T : b - n \in Nat
    OBVIOUS
  <2> QED
    BY <2>1
<1>2. PICK d \in D : \A e \in D : d <= e
  <2> HIDE DEF D
  <2> QED
    BY <1>1, Smallest
<1>3. PICK m \in T : d = b - m
  OBVIOUS
<1>4. ASSUME NEW n \in T
      PROVE  n <= m
  <2>1. d <= b - n
    BY <1>2
  <2> HIDE DEF D
  <2> QED
    BY <2>1, <1>3
<1> QED
  BY <1>4

\* A number and its place in a finite set determine each other, and a greater
\* number has a later place.
LEMMA RankFacts ==
    ASSUME NEW S \in SUBSET Nat, IsFiniteSet(S)
    PROVE  /\ Cardinality(S) \in Nat
           /\ \A n \in S : Rank(S, n) \in 1 .. Cardinality(S)
           /\ \A m, n \in S : m < n => Rank(S, m) < Rank(S, n)
           /\ \A k \in 1 .. Cardinality(S) : \E n \in S : Rank(S, n) = k
<1> DEFINE Upto(n) == {m \in S : m <= n}
<1>1. Cardinality(S) \in Nat
  BY FS_CardinalityType
<1>2. ASSUME NEW n \in S
      PROVE  /\ IsFiniteSet(Upto(n))
             /\ Cardinality(Upto(n)) \in Nat
             /\ Cardinality(Upto(n)) <= Cardinality(S)
             /\ Cardinality(Upto(n)) # 0
  <2>1. Upto(n) \in SUBSET S /\ n \in Upto(n)
    OBVIOUS
  <2> QED
    BY <2>1, FS_Subset, FS_CardinalityType, FS_EmptySet
<1>3. \A n \in S : Rank(S, n) \in 1 .. Cardinality(S)
  BY <1>1, <1>2 DEF Rank
<1>4. ASSUME NEW m \in S, NEW n \in S, m < n
      PROVE  Rank(S, m) < Rank(S, n)
  <2>1. Upto(m) \in SUBSET Upto(n) /\ Upto(m) # Upto(n)
    <3>1. n \in Upto(n) /\ n \notin Upto(m)
      BY <1>4
    <3>2. \A l \in S : l <= m => l <= n
      BY <1>4
    <3> QED
      BY <3>1, <3>2
  <2>2. Cardinality(Upto(m)) <= Cardinality(Upto(n)) /\ Cardinality(Upto(m)) # Cardinality(Upto(n))
    <3> HIDE DEF Upto
    <3> QED
      BY <1>2, <2>1, FS_Subset
  <2> QED
    BY <2>2, <1>2 DEF Rank
<1>5. ASSUME NEW k \in 1 .. Cardinality(S)
      PROVE  \E n \in S : Rank(S, n) = k
  <2> DEFINE f == [n \in S |-> Rank(S, n)]
             I == 1 .. Cardinality(S)
  <2>1. f \in Injection(S, I)
    <3>1. f \in [S -> I]
      BY <1>3
    <3>2. \A m, n \in S : m # n => m < n \/ n < m
      OBVIOUS
    <3>3. \A m, n \in S : Rank(S, m) = Rank(S, n) => m = n
      BY <3>2, <1>4, <1>3
    <3>4. \A m, n \in S : f[m] = f[n] => m = n
      BY <3>3
    <3> HIDE DEF f, I
    <3> QED
      BY <3>1, <3>4 DEF Injection, IsInjective
  <2>2. IsFiniteSet(I) /\ Cardinality(I) = Cardinality(S)
    BY <1>1, FS_Interval
  <2>3. f \in Surjection(S, I)
    <3> HIDE DEF f, I
    <3> QED
      BY <2>1, <2>2, FS_Injection
  <2> QED
    BY <2>3 DEF Surjection
<1> QED
  BY <1>1, <1>3, <1>4, <1>5

\* InOrder lists a finite set: increasing, and complete.
LEMMA InOrderFacts ==
    ASSUME NEW S \in SUBSET Nat, IsFiniteSet(S)
    PROVE  /\ InOrder(S) \in Seq(S) /\ Len(InOrder(S)) = Cardinality(S)
           /\ Cardinality(S) \in Nat
           /\ \A i, j \in 1 .. Len(InOrder(S)) : i < j => InOrder(S)[i] < InOrder(S)[j]
           /\ \A n \in S : \E k \in 1 .. Len(InOrder(S)) : InOrder(S)[k] = n
<1> DEFINE c == Cardinality(S)
           At(k) == CHOOSE n \in S : Rank(S, n) = k
<1>1. c \in Nat
  BY RankFacts
<1>2. \A k \in 1 .. c : At(k) \in S /\ Rank(S, At(k)) = k
  BY RankFacts
<1>3. InOrder(S) = [k \in 1 .. c |-> At(k)]
  BY DEF InOrder
<1>4. \A m, n \in S : Rank(S, m) = Rank(S, n) => m = n
  <2>1. \A m, n \in S : m < n \/ n < m \/ m = n
    OBVIOUS
  <2> QED
    BY <2>1, RankFacts
<1>5. ASSUME NEW i \in 1 .. c, NEW j \in 1 .. c, i < j
      PROVE  At(i) < At(j)
  <2>1. PICK m \in S : m = At(i) /\ Rank(S, m) = i
    BY <1>2
  <2>2. PICK n \in S : n = At(j) /\ Rank(S, n) = j
    BY <1>2
  <2>3. n < m => j < i
    BY <2>1, <2>2, RankFacts
  <2>4. m # n
    BY <2>1, <2>2, <1>5
  <2> HIDE DEF At
  <2>5. m < n
    BY <2>3, <2>4, <1>5, <1>1
  <2> QED
    BY <2>5, <2>1, <2>2
<1>6. \A n \in S : \E k \in 1 .. c : At(k) = n
  <2> HIDE DEF At
  <2> SUFFICES ASSUME NEW n \in S
               PROVE  \E k \in 1 .. c : At(k) = n
    OBVIOUS
  <2>1. Rank(S, n) \in 1 .. c
    BY RankFacts
  <2>2. At(Rank(S, n)) = n
    BY ONLY <2>1, <1>2, <1>4, n \in S
  <2> QED
    BY ONLY <2>1, <2>2
<1> HIDE DEF At, c
<1>7. InOrder(S) \in Seq(S) /\ Len(InOrder(S)) = c
  BY <1>1, <1>2, <1>3
<1> QED
  BY <1>1, <1>3, <1>5, <1>6, <1>7 DEF c

-----------------------------------------------------------------------------
(* Messages and tails.                                                     *)

\* A sequence of messages in the order of speaking, none twice.
Sorted(s) == \A i, j \in 1 .. Len(s) : i < j => s[i].id < s[j].id

LEMMA IdsAreNumbers ==
    ASSUME NEW s \in Seq(Message)
    PROVE  Ids(s) \in SUBSET Nat
<1>1. ASSUME NEW i \in 1 .. Len(s)
      PROVE  s[i].id \in Nat
  <2>1. s[i] \in Message
    OBVIOUS
  <2> QED
    BY <2>1 DEF Message
<1> QED
  BY <1>1 DEF Ids

\* Without keeps just the messages whose ids are not in S, in their order.
LEMMA WithoutFacts ==
    ASSUME NEW s \in Seq(Message), NEW S
    PROVE  /\ Without(s, S) \in Seq(Message)
           /\ Ids(Without(s, S)) = Ids(s) \ S
           /\ Sorted(s) => Sorted(Without(s, S))
<1> DEFINE K == {i \in 1 .. Len(s) : s[i].id \notin S}
           kept == InOrder(K)
           t == [k \in 1 .. Len(kept) |-> s[kept[k]]]
<1>1. K \in SUBSET Nat /\ IsFiniteSet(K)
  <2>1. IsFiniteSet(1 .. Len(s)) /\ K \in SUBSET (1 .. Len(s))
    BY FS_Interval
  <2> QED
    BY <2>1, FS_Subset
<1>2. /\ kept \in Seq(K) /\ Len(kept) \in Nat
      /\ \A i, j \in 1 .. Len(kept) : i < j => kept[i] < kept[j]
      /\ \A n \in K : \E k \in 1 .. Len(kept) : kept[k] = n
  <2> HIDE DEF K
  <2> QED
    BY <1>1, InOrderFacts
<1>3. Without(s, S) = t
  BY <1>2 DEF Without
<1>4. \A k \in 1 .. Len(kept) : kept[k] \in K
  <2> HIDE DEF K
  <2> QED
    BY <1>2
<1>5. \A k \in 1 .. Len(kept) : kept[k] \in 1 .. Len(s) /\ s[kept[k]].id \notin S
  BY <1>4
<1>6. \A i \in 1 .. Len(s) : s[i].id \notin S => \E k \in 1 .. Len(kept) : kept[k] = i
  BY <1>2
<1> HIDE DEF kept, K
<1>7. t \in Seq(Message) /\ Len(t) = Len(kept)
  BY <1>2, <1>5
<1>8. Ids(t) = Ids(s) \ S
  <2> HIDE DEF t
  <2>1. \A k \in 1 .. Len(kept) : t[k] = s[kept[k]]
    BY DEF t
  <2>2. Ids(t) \subseteq Ids(s) \ S
    BY <1>5, <1>7, <2>1 DEF Ids
  <2>3. Ids(s) \ S \subseteq Ids(t)
    <3> SUFFICES ASSUME NEW i \in 1 .. Len(s), s[i].id \notin S
                 PROVE  s[i].id \in Ids(t)
      BY DEF Ids
    <3>1. PICK k \in 1 .. Len(kept) : kept[k] = i
      BY <1>6
    <3> QED
      BY <3>1, <2>1, <1>7 DEF Ids
  <2> QED
    BY <2>2, <2>3
<1>9. ASSUME Sorted(s)
      PROVE  Sorted(t)
  <2> SUFFICES ASSUME NEW i \in 1 .. Len(kept), NEW j \in 1 .. Len(kept), i < j
               PROVE  s[kept[i]].id < s[kept[j]].id
    BY <1>7 DEF Sorted
  <2>1. kept[i] < kept[j]
    BY <1>2
  <2> QED
    BY <1>5, <1>9, <2>1 DEF Sorted
<1> QED
  BY <1>3, <1>7, <1>8, <1>9

\* The tail starts within the sequence, and is never empty unless all is.
LEMMA SafeTailFacts ==
    ASSUME LcmAssumption, NEW s \in Seq(Message)
    PROVE  /\ SafeTailStart(s) \in 0 .. Len(s)
           /\ s # <<>> => SafeTailStart(s) < Len(s)
<1> DEFINE cut == IF Len(s) > FreshTail THEN Len(s) - FreshTail ELSE 0
           ok == {i \in 0 .. cut : i = 0 \/ ~s[i + 1].tool}
<1>1. Len(s) \in Nat /\ FreshTail \in Nat /\ FreshTail > 0
  BY DEF LcmAssumption
<1>2. cut \in Nat /\ cut <= Len(s) /\ (Len(s) # 0 => cut < Len(s))
  BY <1>1
<1> HIDE DEF cut
<1>3. ok \in SUBSET (0 .. cut) /\ 0 \in ok
  BY <1>2
<1>4. \E m \in ok : \A j \in ok : j <= m
  <2> HIDE DEF ok
  <2> QED
    BY <1>2, <1>3, Greatest
<1>5. SafeTailStart(s) = CHOOSE i \in ok : \A j \in ok : j <= i
  BY DEF SafeTailStart, cut
<1>6. SafeTailStart(s) \in ok
  <2> HIDE DEF ok
  <2> QED
    BY <1>4, <1>5
<1> QED
  BY <1>1, <1>2, <1>6

LEMMA TailFacts ==
    ASSUME LcmAssumption, NEW s \in Seq(Message)
    PROVE  /\ TailOf(s) \in Seq(Message)
           /\ Ids(TailOf(s)) \subseteq Ids(s)
           /\ Sorted(s) => Sorted(TailOf(s))
<1> DEFINE a == SafeTailStart(s)
           t == TailOf(s)
<1>1. a \in 0 .. Len(s) /\ Len(s) \in Nat
  BY SafeTailFacts
<1>2. /\ t \in Seq(Message)
      /\ Len(t) = Len(s) - a
      /\ \A i \in 1 .. Len(t) : t[i] = s[a + i]
  <2> HIDE DEF a
  <2> QED
    BY <1>1 DEF TailOf, a
<1> HIDE DEF a, t
<1>3. \A i \in 1 .. Len(t) : a + i \in 1 .. Len(s)
  BY <1>1, <1>2
<1>4. Ids(t) \subseteq Ids(s)
  BY <1>2, <1>3 DEF Ids
<1>5. ASSUME Sorted(s), NEW i \in 1 .. Len(t), NEW j \in 1 .. Len(t), i < j
      PROVE  t[i].id < t[j].id
  <2>1. a + i \in 1 .. Len(s) /\ a + j \in 1 .. Len(s) /\ a + i < a + j
    BY <1>1, <1>3, <1>5
  <2>2. s[a + i].id < s[a + j].id
    BY <2>1, <1>5 DEF Sorted
  <2> QED
    BY <2>2, <1>2
<1> QED
  BY <1>2, <1>4, <1>5 DEF t, Sorted

LEMMA ConcatFacts ==
    ASSUME NEW s \in Seq(Message), NEW t \in Seq(Message)
    PROVE  /\ s \o t \in Seq(Message)
           /\ Ids(s \o t) = Ids(s) \cup Ids(t)
           /\ Sorted(s) /\ Sorted(t) /\ (\A a \in Ids(s), b \in Ids(t) : a < b) => Sorted(s \o t)
<1> DEFINE u == s \o t
<1>1. /\ u \in Seq(Message) /\ Len(u) = Len(s) + Len(t)
      /\ Len(s) \in Nat /\ Len(t) \in Nat
      /\ \A i \in 1 .. Len(s) : u[i] = s[i]
      /\ \A i \in 1 .. Len(t) : u[Len(s) + i] = t[i]
      /\ \A i \in 1 .. Len(u) : i > Len(s) => i - Len(s) \in 1 .. Len(t) /\ u[i] = t[i - Len(s)]
  OBVIOUS
<1> HIDE DEF u
<1>2. Ids(u) = Ids(s) \cup Ids(t)
  <2>1. Ids(u) \subseteq Ids(s) \cup Ids(t)
    <3> SUFFICES ASSUME NEW i \in 1 .. Len(u)
                 PROVE  u[i].id \in Ids(s) \cup Ids(t)
      BY DEF Ids
    <3>1. CASE i <= Len(s)
      <4>1. i \in 1 .. Len(s) /\ u[i] = s[i]
        BY <1>1, <3>1
      <4> QED
        BY <4>1 DEF Ids
    <3>2. CASE i > Len(s)
      <4>1. i - Len(s) \in 1 .. Len(t) /\ u[i] = t[i - Len(s)]
        BY <1>1, <3>2
      <4> QED
        BY <4>1 DEF Ids
    <3> QED
      BY <1>1, <3>1, <3>2
  <2>2. Ids(s) \subseteq Ids(u)
    BY <1>1 DEF Ids
  <2>3. \A i \in 1 .. Len(t) : Len(s) + i \in 1 .. Len(u)
    BY <1>1
  <2>4. Ids(t) \subseteq Ids(u)
    BY <1>1, <2>3 DEF Ids
  <2> QED
    BY <2>1, <2>2, <2>4
<1>3. ASSUME Sorted(s), Sorted(t), \A a \in Ids(s), b \in Ids(t) : a < b,
             NEW i \in 1 .. Len(u), NEW j \in 1 .. Len(u), i < j
      PROVE  u[i].id < u[j].id
  <2>1. CASE j <= Len(s)
    BY <1>1, <1>3, <2>1 DEF Sorted
  <2>2. CASE i > Len(s)
    <3>1. i - Len(s) \in 1 .. Len(t) /\ j - Len(s) \in 1 .. Len(t) /\ i - Len(s) < j - Len(s)
      BY <1>1, <1>3, <2>2
    <3>2. t[i - Len(s)].id < t[j - Len(s)].id
      BY <1>3, <3>1 DEF Sorted
    <3>3. u[i] = t[i - Len(s)] /\ u[j] = t[j - Len(s)]
      BY <1>1, <1>3, <2>2
    <3> QED
      BY <3>2, <3>3
  <2>3. CASE i <= Len(s) /\ j > Len(s)
    <3>1. i \in 1 .. Len(s) /\ u[i] = s[i] /\ j - Len(s) \in 1 .. Len(t) /\ u[j] = t[j - Len(s)]
      BY <1>1, <2>3
    <3>2. u[i].id \in Ids(s) /\ u[j].id \in Ids(t)
      BY <3>1 DEF Ids
    <3> QED
      BY <3>2, <1>3
  <2> QED
    BY <1>1, <2>1, <2>2, <2>3
<1> QED
  BY <1>1, <1>2, <1>3 DEF u, Sorted

\* Saving keeps the rows there are; messages that come after them go last.
LEMMA SavedFacts ==
    ASSUME diskRaw \in Seq(Message), NEW new \in Seq(Message)
    PROVE  /\ Saved(new) \in Seq(Message)
           /\ Ids(Saved(new)) = Ids(diskRaw) \cup Ids(new)
           /\ Sorted(diskRaw) /\ Sorted(new) /\ (\A a \in Ids(diskRaw), b \in Ids(new) : a < b)
                 => Sorted(Saved(new))
<1> DEFINE kept == Without(diskRaw, Ids(new))
<1>1. /\ kept \in Seq(Message) /\ Ids(kept) = Ids(diskRaw) \ Ids(new)
      /\ Sorted(diskRaw) => Sorted(kept)
  BY WithoutFacts
<1> HIDE DEF kept
<1>2. /\ kept \o new \in Seq(Message)
      /\ Ids(kept \o new) = Ids(kept) \cup Ids(new)
      /\ Sorted(kept) /\ Sorted(new) /\ (\A a \in Ids(kept), b \in Ids(new) : a < b)
            => Sorted(kept \o new)
  BY <1>1, ConcatFacts
<1>3. Saved(new) = kept \o new
  BY DEF Saved, kept
<1> QED
  BY <1>1, <1>2, <1>3

-----------------------------------------------------------------------------
(* Nodes.                                                                  *)

\* Nodes with numbers up to k.
IsNodes(ns, k) ==
    /\ DOMAIN ns \subseteq 1 .. k
    /\ \A n \in DOMAIN ns : ns[n] \in Node

LEMMA ActiveFacts ==
    ASSUME NEW k \in Nat, NEW ns, IsNodes(ns, k), NEW d
    PROVE  /\ ActiveAt(ns, d) \in SUBSET Nat
           /\ IsFiniteSet(ActiveAt(ns, d))
           /\ Cardinality(ActiveAt(ns, d)) \in Nat
           /\ ActiveAt(ns, d) \subseteq Active(ns)
           /\ Active(ns) \in SUBSET Nat
           /\ IsFiniteSet(Active(ns))
           /\ Active(ns) \subseteq DOMAIN ns
<1>1. IsFiniteSet(1 .. k) /\ Active(ns) \in SUBSET (1 .. k) /\ ActiveAt(ns, d) \in SUBSET (1 .. k)
  BY FS_Interval DEF IsNodes, Active, ActiveAt
<1>2. IsFiniteSet(Active(ns)) /\ IsFiniteSet(ActiveAt(ns, d))
  BY <1>1, FS_Subset
<1> QED
  BY <1>1, <1>2, FS_CardinalityType DEF ActiveAt, Active

LEMMA WithIsNodes ==
    ASSUME NEW k \in Nat, NEW l \in Nat, k <= l, NEW ns, IsNodes(ns, k),
           NEW n \in 1 .. l, NEW y \in Node
    PROVE  IsNodes(With(ns, n, y), l)
<1> DEFINE w == With(ns, n, y)
<1>1. /\ DOMAIN w = DOMAIN ns \cup {n}
      /\ w[n] = y
      /\ \A m \in DOMAIN ns : m # n => w[m] = ns[m]
  BY DEF With
<1> HIDE DEF w
<1>2. \A m \in DOMAIN w : m \in 1 .. l /\ w[m] \in Node
  BY <1>1 DEF IsNodes
<1> QED
  BY <1>2 DEF IsNodes, w

\* NextDepth is the first depth that is condensed.
LEMMA NextDepthFacts ==
    ASSUME LcmAssumption, NEW ns, NEW d \in 0 .. MaxDepth
    PROVE  /\ NextDepth(ns, d) \in d .. MaxDepth
           /\ NextDepth(ns, d) < MaxDepth => Condensable(ns, NextDepth(ns, d))
           /\ \A f \in d .. (NextDepth(ns, d) - 1) : ~Condensable(ns, f)
<1> DEFINE T == {e \in d .. MaxDepth : e < MaxDepth => Condensable(ns, e)}
<1>1. MaxDepth \in Nat
  BY DEF LcmAssumption
<1>2. T \in SUBSET Nat /\ MaxDepth \in T
  BY <1>1
<1>3. PICK m \in T : \A n \in T : m <= n
  <2> HIDE DEF T
  <2> QED
    BY <1>2, Smallest
<1>4. \A f \in d .. (m - 1) : ~Condensable(ns, f)
  <2>1. \A f \in d .. (m - 1) : f \in d .. MaxDepth /\ ~(m <= f) /\ f < MaxDepth
    BY <1>1, <1>3
  <2> QED
    BY <2>1, <1>3
<1>5. m \in d .. MaxDepth /\ (m < MaxDepth => Condensable(ns, m))
  BY <1>3
<1> QED
  BY <1>4, <1>5 DEF NextDepth

\* The nodes that are condensed are CondensationCount, and all there are if
\* there are no more.
LEMMA OldestFacts ==
    ASSUME LcmAssumption, NEW k \in Nat, NEW ns, IsNodes(ns, k), NEW d, Condensable(ns, d)
    PROVE  /\ Oldest(ns, d) \in Seq(ActiveAt(ns, d))
           /\ Len(Oldest(ns, d)) = CondensationCount
           /\ \A i, j \in 1 .. CondensationCount : i < j => Oldest(ns, d)[i] < Oldest(ns, d)[j]
           /\ Cardinality(ActiveAt(ns, d)) = CondensationCount =>
                 \A n \in ActiveAt(ns, d) : \E i \in 1 .. CondensationCount : Oldest(ns, d)[i] = n
<1> DEFINE S == ActiveAt(ns, d)
           o == InOrder(S)
<1>1. S \in SUBSET Nat /\ IsFiniteSet(S)
  BY ActiveFacts
<1> HIDE DEF S
<1>2. /\ o \in Seq(S) /\ Len(o) = Cardinality(S)
      /\ Cardinality(S) \in Nat
      /\ \A i, j \in 1 .. Len(o) : i < j => o[i] < o[j]
      /\ \A n \in S : \E i \in 1 .. Len(o) : o[i] = n
  BY <1>1, InOrderFacts
<1>3. Cardinality(S) >= CondensationCount /\ CondensationCount \in Nat
  BY DEF Condensable, LcmAssumption, S
<1> HIDE DEF o
<1>4. /\ SubSeq(o, 1, CondensationCount) \in Seq(S)
      /\ Len(SubSeq(o, 1, CondensationCount)) = CondensationCount
      /\ \A i \in 1 .. CondensationCount : SubSeq(o, 1, CondensationCount)[i] = o[i]
  BY <1>2, <1>3
<1> QED
  BY <1>2, <1>3, <1>4 DEF S, o, Oldest

\* How a compaction goes on: a depth is condensed, another chunk is
\* summarised, or it ends; the depths passed over have too few nodes.
LEMMA ContinueFacts ==
    ASSUME LcmAssumption, NEW ns, NEW r, NEW d \in 0 .. MaxDepth, Continue(ns, d, r)
    PROVE  \/ \E e \in d .. (MaxDepth - 1) :
                 /\ Condensable(ns, e)
                 /\ \A f \in d .. (e - 1) : ~Condensable(ns, f)
                 /\ Condense(ns, e, r)
           \/ /\ \A f \in d .. (MaxDepth - 1) : ~Condensable(ns, f)
              /\ chunk + FreshTail < SafeTailStart(raw)
              /\ NextChunk(r)
           \/ /\ \A f \in d .. (MaxDepth - 1) : ~Condensable(ns, f)
              /\ Finish(ns, r)
<1> DEFINE e == NextDepth(ns, d)
<1>1. /\ e \in d .. MaxDepth
      /\ e < MaxDepth => Condensable(ns, e)
      /\ \A f \in d .. (e - 1) : ~Condensable(ns, f)
  BY NextDepthFacts
<1>2. MaxDepth \in Nat
  BY DEF LcmAssumption
<1> HIDE DEF e
<1>3. CASE e < MaxDepth /\ Condense(ns, e, r)
  <2>1. e \in d .. (MaxDepth - 1)
    BY <1>1, <1>2, <1>3
  <2> QED
    BY <1>1, <1>3, <2>1
<1>4. CASE e = MaxDepth /\ chunk + FreshTail < SafeTailStart(raw) /\ NextChunk(r)
  BY <1>1, <1>4
<1>5. CASE e = MaxDepth /\ Finish(ns, r)
  BY <1>1, <1>5
<1> QED
  BY <1>3, <1>4, <1>5 DEF Continue, e

-----------------------------------------------------------------------------
(* The inductive invariant, in parts.                                      *)

Condensing == pc \in {"mark", "parent"}

\* The types, and what the locals are worth in each phase.
Typed ==
    /\ TypeOK
    /\ pc # "mark" => children = <<>>
    /\ pc \in {"idle", "save"} => rolled = {} /\ chunk = 0
    /\ Condensing => depth < MaxDepth /\ parent.parent = 0 /\ parent.depth = depth + 1

\* Table, memory and context each tell the messages in the order of speaking;
\* what the context has and the memory has not is newer than all the others know.
Ordered ==
    /\ Sorted(diskRaw) /\ Sorted(raw) /\ Sorted(tail) /\ Sorted(fresh)
    /\ \A a \in Ids(diskRaw) \cup Ids(raw) \cup Ids(tail) \cup Ids(fresh) : a <= spoken
    /\ Ids(tail) \subseteq Ids(raw)
    /\ \A a \in Ids(tail), b \in Ids(fresh) : a < b
    /\ pc # "idle" => Ids(fresh) \subseteq Ids(raw)
    /\ \A b \in Ids(fresh) : b \in Ids(raw) \/ \A a \in Ids(raw) \cup Ids(diskRaw) : a < b
    /\ pc = "save" => /\ Sorted(unsaved)
                      /\ Ids(unsaved) \subseteq Ids(raw)
                      /\ \A a \in Ids(diskRaw), b \in Ids(unsaved) : a < b

\* What the parent that is being made will cover.
Pending == IF Condensing THEN parent.covers ELSE {}

\* Until a store call fails, what is persisted and not held is covered, also
\* while children have lost their place to a parent that is not there yet.
Agreeing ==
    fails = 0 =>
        /\ pc # "idle" \/ ~Unloaded => Ids(diskRaw) \subseteq Ids(raw) \cup Covered(nodes) \cup Pending
        /\ Ids(raw) \subseteq Ids(diskRaw) \cup (IF pc = "save" THEN Ids(unsaved) ELSE {})
        /\ rolled \subseteq Covered(nodes) \cup Pending
        /\ \A i \in DOMAIN children : nodes[children[i]].covers \subseteq parent.covers

\* Active nodes at depth d.
Count(ns, d) == Cardinality(ActiveAt(ns, d))

\* How many nodes more than usual are active: a in memory, b in the table only.
Excess(a, b) ==
    /\ a + b <= CondensationCount * fails + crashes
    /\ \A d \in 0 .. (MaxDepth - 1) :
          /\ ~(pc = "mark" /\ d = depth) => Count(nodes, d) < CondensationCount + a
          /\ Cardinality(ActiveAt(diskNodes, d) \ ActiveAt(nodes, d)) <= b
    /\ pc = "mark" =>
          /\ Count(nodes, depth) - Len(children) <= a
          /\ Len(children) <= CondensationCount
          /\ \A i \in 1 .. Len(children) : children[i] \in ActiveAt(nodes, depth)
          /\ \A i, j \in 1 .. Len(children) : i < j => children[i] < children[j]

Bounded ==
    IF pc = "idle" /\ Unloaded
    THEN \A d \in 0 .. (MaxDepth - 1) :
            Count(diskNodes, d) < CondensationCount * (1 + fails) + crashes
    ELSE \E a, b \in Nat : Excess(a, b)

Earlier(S, T) == \A a \in S, b \in T : a < b

\* The raw messages rolled so far are those before this place.
RolledUpto == IF pc = "chunk" THEN chunk ELSE Smaller(chunk + FreshTail, SafeTailStart(raw))

\* What the nodes cover was spoken, and comes before the messages of S.
Before(ns, S) ==
    \A n \in DOMAIN ns : Earlier(ns[n].covers, S) /\ \A a \in ns[n].covers : a <= spoken

\* The older of two active nodes covers the earlier messages and is no less deep.
Aligned(ns) ==
    \A m, n \in Active(ns) : m < n =>
        Earlier(ns[m].covers, ns[n].covers) /\ ns[m].depth >= ns[n].depth

\* Without faults: what is left to summarise comes after all summaries, which
\* are aligned; and an active node that is not being condensed is deeper and
\* older than those that are.
Told ==
    Untroubled =>
        /\ diskNodes = nodes
        /\ raw = <<>> => diskRaw = <<>>
        /\ Before(nodes, Ids(raw) \ rolled)
        /\ pc = "idle" => Before(nodes, Ids(fresh))
        /\ pc \in {"chunk", "mark", "parent"} =>
              /\ chunk < SafeTailStart(raw)
              /\ rolled = Ids(SubSeq(raw, 1, RolledUpto))
        /\ Aligned(nodes)
        /\ Condensing =>
              /\ parent.covers \subseteq UNION {nodes[n].covers : n \in DOMAIN nodes}
              /\ \A n \in Active(nodes) \ {children[i] : i \in DOMAIN children} :
                    nodes[n].depth > depth /\ Earlier(nodes[n].covers, parent.covers)
        /\ pc = "idle" =>
              /\ \A i \in 1 .. Len(shown) : shown[i] \in Active(nodes)
              /\ \A i, j \in 1 .. Len(shown) : i < j => shown[i] < shown[j]

-----------------------------------------------------------------------------
(* Types.                                                                  *)

\* The end of a compaction hands back nodes and messages.
LEMMA FinishTyped ==
    ASSUME LcmAssumption, raw \in Seq(Message), spoken \in 0 .. MaxMessages,
           NEW k \in Nat, NEW ns, IsNodes(ns, k), NEW r, Finish(ns, r)
    PROVE  /\ shown' \in Seq(Nat)
           /\ tail' \in Seq(Message) /\ fresh' \in Seq(Message)
           /\ spoken' \in 0 .. MaxMessages
           /\ raw' \in Seq(Message) /\ unsaved' \in Seq(Message)
           /\ pc' = "idle"
           /\ chunk' = 0 /\ rolled' = {}
           /\ depth' \in 0 .. MaxDepth
           /\ children' = <<>>
           /\ parent' \in Node
<1>1. Retained(r) \in Seq(Message)
  BY WithoutFacts DEF Retained
<1>2. TailOf(Retained(r)) \in Seq(Message)
  BY <1>1, TailFacts
<1>3. InOrder(Active(ns)) \in Seq(Active(ns)) /\ Active(ns) \in SUBSET Nat
  BY ActiveFacts, InOrderFacts
<1>4. InOrder(Active(ns)) \in Seq(Nat)
  BY <1>3
<1>5. NoNode \in Node /\ <<>> \in Seq(Message)
  BY DEF NoNode, Node
<1> QED
  BY <1>1, <1>2, <1>4, <1>5 DEF Finish, ResetLocals, LcmAssumption

LEMMA ContinueTyped ==
    ASSUME LcmAssumption, Typed, pc \in {"chunk", "parent"},
           NEW k \in Nat, NEW ns, IsNodes(ns, k), nodes' = ns,
           NEW d \in 0 .. MaxDepth, NEW r \in SUBSET Nat, Continue(ns, d, r)
    PROVE  /\ shown' \in Seq(Nat)
           /\ tail' \in Seq(Message) /\ fresh' \in Seq(Message)
           /\ spoken' \in 0 .. MaxMessages
           /\ raw' \in Seq(Message) /\ unsaved' \in Seq(Message)
           /\ pc' \in {"idle", "chunk", "mark"}
           /\ chunk' \in Nat
           /\ rolled' \subseteq Nat
           /\ depth' \in 0 .. MaxDepth
           /\ children' \in Seq(DOMAIN nodes')
           /\ pc' = "mark" <=> children' # <<>>
           /\ parent' \in Node
           /\ pc' = "idle" => rolled' = {} /\ chunk' = 0
           /\ pc' = "mark" => depth' < MaxDepth /\ parent'.parent = 0 /\ parent'.depth = depth' + 1
<1>1. MaxDepth \in Nat /\ FreshTail \in Nat /\ CondensationCount \in Nat \ {0}
  BY DEF LcmAssumption
<1>2. CASE \E e \in d .. (MaxDepth - 1) : Condensable(ns, e) /\ Condense(ns, e, r)
  <2>1. PICK e \in d .. (MaxDepth - 1) : Condensable(ns, e) /\ Condense(ns, e, r)
    BY <1>2
  <2> DEFINE kids == Oldest(ns, e)
  <2>2. kids \in Seq(ActiveAt(ns, e)) /\ Len(kids) = CondensationCount
    BY <2>1, OldestFacts
  <2>3. ActiveAt(ns, e) \subseteq DOMAIN ns /\ DOMAIN ns \subseteq Nat
    BY DEF ActiveAt, Active, IsNodes
  <2> HIDE DEF kids
  <2>4. kids \in Seq(DOMAIN ns) /\ kids # <<>> /\ \A i \in DOMAIN kids : kids[i] \in DOMAIN ns
    BY <2>2, <2>3, <1>1
  <2>5. \A i \in DOMAIN kids : ns[kids[i]].covers \subseteq Nat
    BY <2>4 DEF IsNodes, Node
  <2>6. {kids[i] : i \in DOMAIN kids} \in SUBSET Nat
    BY <2>4, <2>3
  <2>7. UNION {ns[kids[i]].covers : i \in DOMAIN kids} \in SUBSET Nat
    BY <2>5
  <2>8. e \in 0 .. MaxDepth /\ e < MaxDepth /\ e + 1 \in Nat
    BY <1>1
  <2>9. parent' \in Node /\ parent'.parent = 0 /\ parent'.depth = e + 1
    BY <2>1, <2>6, <2>7, <2>8 DEF Condense, Node, kids
  <2> QED
    BY <2>1, <2>4, <2>8, <2>9 DEF Condense, Typed, TypeOK, context, kids
<1>3. CASE NextChunk(r)
  BY <1>3, <1>1 DEF NextChunk, Typed, TypeOK, context
<1>4. CASE Finish(ns, r)
  <2>1. raw \in Seq(Message) /\ spoken \in 0 .. MaxMessages
    BY DEF Typed, TypeOK
  <2>2. /\ shown' \in Seq(Nat)
        /\ tail' \in Seq(Message) /\ fresh' \in Seq(Message)
        /\ spoken' \in 0 .. MaxMessages
        /\ raw' \in Seq(Message) /\ unsaved' \in Seq(Message)
        /\ pc' = "idle"
        /\ chunk' = 0 /\ rolled' = {}
        /\ depth' \in 0 .. MaxDepth
        /\ children' = <<>>
        /\ parent' \in Node
    BY <1>4, <2>1, FinishTyped
  <2>3. <<>> \in Seq(DOMAIN nodes')
    OBVIOUS
  <2> QED
    BY <2>2, <2>3
<1> QED
  BY <1>2, <1>3, <1>4, ContinueFacts

LEMMA TypedInit == LcmAssumption /\ Init => Typed
BY DEF LcmAssumption, Init, Typed, TypeOK, NoNodes, NoNode, Node, Condensing

\* The nodes in memory and in the table have numbers up to the last one made.
LEMMA TypedNodes ==
    ASSUME Typed
    PROVE  IsNodes(nodes, made) /\ IsNodes(diskNodes, made) /\ made \in Nat
BY DEF Typed, TypeOK, IsNodes

\* What a failing store call leaves is well typed if the nodes are.
LEMMA FailsTyped ==
    ASSUME LcmAssumption, Typed, Fails, raw' \in Seq(Message),
           NEW k \in {made, made + 1}, made' = k, IsNodes(nodes', made')
    PROVE  Typed'
<1>1. <<>> \in Seq(Message) /\ <<>> \in Seq(DOMAIN nodes') /\ NoNode \in Node
  BY DEF NoNode, Node
<1>2. made \in Nat /\ made' \in Nat /\ made <= made'
  BY DEF Typed, TypeOK
<1>3. DOMAIN diskNodes' \subseteq 1 .. made'
  <2>1. diskNodes' = diskNodes /\ DOMAIN diskNodes \subseteq 1 .. made
    BY DEF Fails, disk, Typed, TypeOK
  <2> QED
    BY <1>2, <2>1
<1> QED
  BY <1>1, <1>2, <1>3
  DEF Fails, ResetLocals, context, disk, Typed, TypeOK, IsNodes, Condensing, LcmAssumption

\* The first child, once marked, is the only one of the nodes to change.
LEMMA MarkedFacts ==
    ASSUME Typed, pc = "mark"
    PROVE  /\ children # <<>> /\ Head(children) \in DOMAIN nodes
           /\ DOMAIN MarkedNodes = DOMAIN nodes
           /\ MarkedNodes[Head(children)] = [nodes[Head(children)] EXCEPT !.parent = made + 1]
           /\ \A n \in DOMAIN nodes : n # Head(children) => MarkedNodes[n] = nodes[n]
           /\ IsNodes(MarkedNodes, made)
<1>1. children # <<>> /\ Head(children) \in DOMAIN nodes
  BY DEF Typed, TypeOK
<1>2. /\ DOMAIN MarkedNodes = DOMAIN nodes
      /\ MarkedNodes[Head(children)] = [nodes[Head(children)] EXCEPT !.parent = made + 1]
      /\ \A n \in DOMAIN nodes : n # Head(children) => MarkedNodes[n] = nodes[n]
  BY <1>1 DEF MarkedNodes
<1>3. made \in Nat /\ \A n \in DOMAIN nodes : nodes[n] \in Node
  BY DEF Typed, TypeOK
<1>4. [nodes[Head(children)] EXCEPT !.parent = made + 1] \in Node
  BY <1>1, <1>3 DEF Node
<1> HIDE DEF MarkedNodes
<1>5. \A n \in DOMAIN MarkedNodes : MarkedNodes[n] \in Node
  BY <1>2, <1>3, <1>4
<1>6. DOMAIN MarkedNodes \subseteq 1 .. made
  BY <1>2 DEF Typed, TypeOK
<1> QED
  BY <1>1, <1>2, <1>5, <1>6 DEF IsNodes

\* The node of a chunk.
ChunkIds == Ids(SubSeq(raw, chunk + 1, Smaller(chunk + FreshTail, SafeTailStart(raw))))

ChunkNode == [depth |-> 0, sources |-> {}, covers |-> ChunkIds, parent |-> 0]

LEMMA ChunkTyped ==
    ASSUME LcmAssumption, Typed
    PROVE  ChunkIds \in SUBSET Nat /\ ChunkNode \in Node /\ ChunkIds \subseteq Ids(raw)
<1> DEFINE a == chunk + 1
           b == Smaller(chunk + FreshTail, SafeTailStart(raw))
           s == SubSeq(raw, a, b)
<1>1. raw \in Seq(Message) /\ chunk \in Nat /\ FreshTail \in Nat
  BY DEF Typed, TypeOK, LcmAssumption
<1>2. a \in Nat /\ a > 0 /\ b \in Nat /\ b <= Len(raw)
  BY <1>1, SafeTailFacts DEF Smaller
<1> HIDE DEF a, b
<1>3. /\ s \in Seq(Message)
      /\ \A i \in 1 .. Len(s) : a + i - 1 \in 1 .. Len(raw) /\ s[i] = raw[a + i - 1]
  BY <1>1, <1>2
<1> HIDE DEF s
<1>4. Ids(s) \subseteq Ids(raw)
  <2>1. ASSUME NEW i \in 1 .. Len(s)
        PROVE  s[i].id \in Ids(raw)
    BY <1>3 DEF Ids
  <2> QED
    BY <2>1 DEF Ids
<1>5. Ids(raw) \subseteq Nat
  BY <1>1, IdsAreNumbers
<1> QED
  BY <1>4, <1>5 DEF ChunkIds, ChunkNode, Node, s, a, b

LEMMA TypedStep == LcmAssumption /\ Typed /\ [Next]_vars => Typed'
<1> SUFFICES ASSUME LcmAssumption, Typed, [Next]_vars
             PROVE  Typed'
  OBVIOUS
<1> USE DEF context, memory, disk, locals, troubles
<1>1. IsNodes(nodes, made) /\ IsNodes(diskNodes, made) /\ made \in Nat /\ made + 1 \in Nat
  BY TypedNodes
<1>2. <<>> \in Seq(Message) /\ <<>> \in Seq(Nat) /\ <<>> \in Seq(DOMAIN nodes') /\ NoNode \in Node
  BY DEF NoNode, Node
<1>3. ASSUME NEW tool \in BOOLEAN, NEW long \in BOOLEAN, Speak(tool, long)
      PROVE  Typed'
  <2>1. [id |-> spoken + 1, tool |-> tool, long |-> long] \in Message
    BY DEF Typed, TypeOK, Message
  <2>2. fresh' \in Seq(Message)
    BY <1>3, <2>1 DEF Speak, Typed, TypeOK
  <2>3. spoken' \in 0 .. MaxMessages
    BY <1>3 DEF Speak, Typed, TypeOK, LcmAssumption
  <2> QED
    BY <1>3, <2>2, <2>3 DEF Speak, Typed, TypeOK, Condensing
<1>4. ASSUME Forget
      PROVE  Typed'
  BY <1>4, <1>2 DEF Forget, Typed, TypeOK, Condensing, LcmAssumption
<1>5. ASSUME Crash
      PROVE  Typed'
  BY <1>5, <1>2 DEF Crash, Typed, TypeOK, Condensing, LcmAssumption, NoNodes
<1>6. ASSUME Begin
      PROVE  Typed'
  <2> DEFINE held == IF Unloaded THEN diskRaw ELSE raw
  <2>1. held \in Seq(Message) /\ tail \o fresh \in Seq(Message)
    BY DEF Typed, TypeOK
  <2>2. NewMessages(held) \in Seq(Message)
    BY <2>1, WithoutFacts DEF NewMessages
  <2>3. raw' \in Seq(Message) /\ unsaved' \in Seq(Message)
    BY <1>6, <2>1, <2>2 DEF Begin
  <2>4. IsNodes(nodes', made)
    BY <1>6, <1>1 DEF Begin
  <2> QED
    BY <1>6, <1>2, <2>3, <2>4 DEF Begin, IsNodes, Typed, TypeOK, Condensing
<1>7. ASSUME SaveMessages
      PROVE  Typed'
  <2>1. diskRaw' \in Seq(Message)
    BY <1>7, SavedFacts DEF SaveMessages, Typed, TypeOK
  <2>2. CASE Rolls(raw)
    BY <1>7, <1>2, <2>1, <2>2 DEF SaveMessages, Typed, TypeOK, Condensing
  <2>3. CASE Finish(nodes, {})
    <3>1. raw \in Seq(Message) /\ spoken \in 0 .. MaxMessages
      BY DEF Typed, TypeOK
    <3>2. /\ shown' \in Seq(Nat)
          /\ tail' \in Seq(Message) /\ fresh' \in Seq(Message)
          /\ spoken' \in 0 .. MaxMessages
          /\ raw' \in Seq(Message) /\ unsaved' \in Seq(Message)
          /\ pc' = "idle"
          /\ chunk' = 0 /\ rolled' = {}
          /\ depth' \in 0 .. MaxDepth
          /\ children' = <<>>
          /\ parent' \in Node
      BY <1>1, <2>3, <3>1, FinishTyped
    <3> QED
      BY <1>7, <1>2, <2>1, <3>2 DEF SaveMessages, Typed, TypeOK, Condensing
  <2> QED
    BY <1>7, <2>2, <2>3 DEF SaveMessages
<1>8. ASSUME SaveChunk
      PROVE  Typed'
  <2> DEFINE ns == With(nodes, made + 1, ChunkNode)
             r == rolled \cup ChunkIds
  <2>1. /\ pc = "chunk" /\ made' = made + 1
        /\ diskNodes' = With(diskNodes, made + 1, ChunkNode)
        /\ nodes' = ns
        /\ Continue(ns, 0, r)
        /\ UNCHANGED <<diskRaw, troubles>>
    BY <1>8 DEF SaveChunk, ChunkNode, ChunkIds
  <2>2. IsNodes(ns, made + 1) /\ IsNodes(diskNodes', made + 1)
    BY <1>1, <2>1, ChunkTyped, WithIsNodes
  <2>3. r \in SUBSET Nat /\ 0 \in 0 .. MaxDepth
    <3>1. rolled \in SUBSET Nat /\ ChunkIds \in SUBSET Nat
      BY ChunkTyped DEF Typed, TypeOK
    <3> QED
      BY <3>1 DEF LcmAssumption
  <2> HIDE DEF ns, r
  <2>4. /\ shown' \in Seq(Nat)
        /\ tail' \in Seq(Message) /\ fresh' \in Seq(Message)
        /\ spoken' \in 0 .. MaxMessages
        /\ raw' \in Seq(Message) /\ unsaved' \in Seq(Message)
        /\ pc' \in {"idle", "chunk", "mark"}
        /\ chunk' \in Nat
        /\ rolled' \subseteq Nat
        /\ depth' \in 0 .. MaxDepth
        /\ children' \in Seq(DOMAIN nodes')
        /\ pc' = "mark" <=> children' # <<>>
        /\ parent' \in Node
        /\ pc' = "idle" => rolled' = {} /\ chunk' = 0
        /\ pc' = "mark" => depth' < MaxDepth /\ parent'.parent = 0 /\ parent'.depth = depth' + 1
    BY <1>1, <2>1, <2>2, <2>3, ContinueTyped
  <2> QED
    BY <1>1, <2>1, <2>2, <2>4 DEF IsNodes, Typed, TypeOK, Condensing
<1>9. ASSUME MarkChild
      PROVE  Typed'
  <2>1. /\ children # <<>> /\ Head(children) \in DOMAIN nodes
        /\ DOMAIN MarkedNodes = DOMAIN nodes
        /\ IsNodes(MarkedNodes, made)
    BY <1>9, MarkedFacts DEF MarkChild
  <2>2. Head(children) \in 1 .. made /\ MarkedNodes[Head(children)] \in Node
    BY <2>1 DEF IsNodes
  <2>3. IsNodes(diskNodes', made) /\ IsNodes(nodes', made)
    BY <1>1, <1>9, <2>1, <2>2, WithIsNodes DEF MarkChild
  <2>4. children' \in Seq(DOMAIN nodes') /\ Len(children') = Len(children) - 1
    BY <1>9, <2>1 DEF MarkChild, Typed, TypeOK
  <2>5. pc' = "mark" <=> children' # <<>>
    <3>1. children \in Seq(DOMAIN nodes) /\ Len(children) \in Nat /\ Len(children) # 0
      BY <2>1 DEF Typed, TypeOK
    <3>2. children' # <<>> <=> Len(children) # 1
      BY <2>4, <3>1
    <3> QED
      BY <1>9, <3>2 DEF MarkChild
  <2> QED
    BY <1>9, <2>3, <2>4, <2>5 DEF MarkChild, IsNodes, Typed, TypeOK, Condensing
<1>10. ASSUME SaveParent
       PROVE  Typed'
  <2> DEFINE ns == With(nodes, made + 1, parent)
  <2>1. /\ pc = "parent" /\ made' = made + 1
        /\ diskNodes' = With(diskNodes, made + 1, parent)
        /\ nodes' = ns
        /\ Continue(ns, depth + 1, rolled)
        /\ UNCHANGED <<diskRaw, troubles>>
    BY <1>10 DEF SaveParent
  <2>2. parent \in Node /\ rolled \in SUBSET Nat /\ depth + 1 \in 0 .. MaxDepth
    BY <2>1 DEF Typed, TypeOK, Condensing, LcmAssumption
  <2>3. IsNodes(ns, made + 1) /\ IsNodes(diskNodes', made + 1)
    BY <1>1, <2>1, <2>2, WithIsNodes
  <2> HIDE DEF ns
  <2>4. /\ shown' \in Seq(Nat)
        /\ tail' \in Seq(Message) /\ fresh' \in Seq(Message)
        /\ spoken' \in 0 .. MaxMessages
        /\ raw' \in Seq(Message) /\ unsaved' \in Seq(Message)
        /\ pc' \in {"idle", "chunk", "mark"}
        /\ chunk' \in Nat
        /\ rolled' \subseteq Nat
        /\ depth' \in 0 .. MaxDepth
        /\ children' \in Seq(DOMAIN nodes')
        /\ pc' = "mark" <=> children' # <<>>
        /\ parent' \in Node
        /\ pc' = "idle" => rolled' = {} /\ chunk' = 0
        /\ pc' = "mark" => depth' < MaxDepth /\ parent'.parent = 0 /\ parent'.depth = depth' + 1
    BY <1>1, <2>1, <2>2, <2>3, ContinueTyped
  <2> QED
    BY <1>1, <2>1, <2>3, <2>4 DEF IsNodes, Typed, TypeOK, Condensing
<1>11. ASSUME NEW half \in BOOLEAN, LoadFails(half)
       PROVE  Typed'
  <2>1. raw' \in Seq(Message) /\ made' = made /\ IsNodes(nodes', made')
    BY <1>1, <1>11 DEF LoadFails, Typed, TypeOK
  <2> QED
    BY <1>11, <2>1, FailsTyped DEF LoadFails
<1>12. ASSUME SaveMessagesFails
       PROVE  Typed'
  <2>1. raw' \in Seq(Message) /\ made' = made /\ IsNodes(nodes', made')
    BY <1>1, <1>12 DEF SaveMessagesFails, Typed, TypeOK
  <2> QED
    BY <1>12, <2>1, FailsTyped DEF SaveMessagesFails
<1>13. ASSUME SaveChunkFails \/ SaveParentFails
       PROVE  Typed'
  <2>1. raw' \in Seq(Message) /\ made' = made + 1 /\ IsNodes(nodes', made')
    BY <1>1, <1>13 DEF SaveChunkFails, SaveParentFails, Typed, TypeOK, IsNodes
  <2> QED
    BY <1>13, <2>1, FailsTyped DEF SaveChunkFails, SaveParentFails
<1>14. ASSUME MarkChildFails
       PROVE  Typed'
  <2>1. IsNodes(MarkedNodes, made)
    BY <1>14, MarkedFacts DEF MarkChildFails
  <2>2. raw' \in Seq(Message) /\ made' = made + 1 /\ IsNodes(nodes', made')
    BY <1>1, <1>14, <2>1 DEF MarkChildFails, Typed, TypeOK, IsNodes
  <2> QED
    BY <1>14, <2>2, FailsTyped DEF MarkChildFails
<1>15. CASE UNCHANGED vars
  BY <1>15 DEF vars, Typed, TypeOK, Condensing
<1> QED
  BY <1>3, <1>4, <1>5, <1>6, <1>7, <1>8, <1>9, <1>10, <1>11, <1>12, <1>13, <1>14, <1>15
  DEF Next, StoreFails

\* Every variable of memory, tables and context has its type, at any size and
\* through any faults.
THEOREM TypeCorrect == Spec => []TypeOK
<1> USE LcmAssumption
<1>1. Init => Typed
  BY TypedInit
<1>2. Typed /\ [Next]_vars => Typed'
  BY TypedStep
<1>3. Typed => TypeOK
  BY DEF Typed
<1> QED
  BY <1>1, <1>2, <1>3, PTL DEF Spec

-----------------------------------------------------------------------------
(* The order of speaking.                                                  *)

LEMMA EmptyFacts == Ids(<<>>) = {} /\ Sorted(<<>>)
BY DEF Ids, Sorted

LEMMA NoIds ==
    ASSUME NEW s \in Seq(Message), Ids(s) = {}
    PROVE  s = <<>>
<1>1. Len(s) > 0 => s[1].id \in Ids(s)
  BY DEF Ids
<1> QED
  BY <1>1

LEMMA OneFacts ==
    ASSUME NEW m \in Message
    PROVE  <<m>> \in Seq(Message) /\ Ids(<<m>>) = {m.id} /\ Sorted(<<m>>)
BY DEF Ids, Sorted

LEMMA FinishOrdered ==
    ASSUME LcmAssumption, raw \in Seq(Message), Sorted(raw), NEW ns, NEW r, Finish(ns, r)
    PROVE  /\ Sorted(raw') /\ Ids(raw') = Ids(raw) \ r
           /\ Sorted(tail') /\ Ids(tail') \subseteq Ids(raw')
           /\ Sorted(fresh') /\ Ids(fresh') = {}
           /\ pc' = "idle" /\ spoken' = spoken
<1>1. /\ Retained(r) \in Seq(Message)
      /\ Ids(Retained(r)) = Ids(raw) \ r
      /\ Sorted(Retained(r))
  BY WithoutFacts DEF Retained
<1>2. Ids(TailOf(Retained(r))) \subseteq Ids(Retained(r)) /\ Sorted(TailOf(Retained(r)))
  BY <1>1, TailFacts
<1> QED
  BY <1>1, <1>2, EmptyFacts DEF Finish

\* A compaction that goes on leaves the messages alone.
LEMMA ContinueOrdered ==
    ASSUME LcmAssumption, Typed, Ordered, pc \in {"chunk", "parent"},
           NEW ns, NEW r, NEW d \in 0 .. MaxDepth, Continue(ns, d, r), diskRaw' = diskRaw
    PROVE  Ordered'
<1>1. CASE Finish(ns, r)
  <2>1. /\ Sorted(raw') /\ Ids(raw') \subseteq Ids(raw)
        /\ Sorted(tail') /\ Ids(tail') \subseteq Ids(raw')
        /\ Sorted(fresh') /\ Ids(fresh') = {}
        /\ pc' = "idle" /\ spoken' = spoken
    BY <1>1, FinishOrdered DEF Ordered, Typed, TypeOK
  <2> QED
    BY <2>1 DEF Ordered
<1>2. CASE /\ UNCHANGED <<raw, context>>
           /\ pc' \in {"chunk", "mark"}
  BY <1>2 DEF Ordered, context
<1>3. \A e \in d .. (MaxDepth - 1) : Condense(ns, e, r) => UNCHANGED <<raw, context>> /\ pc' = "mark"
  BY DEF Condense
<1>4. NextChunk(r) => UNCHANGED <<raw, context>> /\ pc' = "chunk"
  BY DEF NextChunk
<1> QED
  BY <1>1, <1>2, <1>3, <1>4, ContinueFacts

LEMMA OrderedInit == Init => Ordered
BY EmptyFacts DEF Init, Ordered

LEMMA OrderedStep == LcmAssumption /\ Typed /\ Ordered /\ [Next]_vars => Ordered'
<1> SUFFICES ASSUME LcmAssumption, Typed, Ordered, [Next]_vars
             PROVE  Ordered'
  OBVIOUS
<1> USE DEF context, memory, disk, locals, troubles
<1>1. /\ raw \in Seq(Message) /\ diskRaw \in Seq(Message) /\ unsaved \in Seq(Message)
      /\ tail \in Seq(Message) /\ fresh \in Seq(Message) /\ spoken \in Nat
  BY DEF Typed, TypeOK
<1>2. /\ Ids(raw) \in SUBSET Nat /\ Ids(diskRaw) \in SUBSET Nat /\ Ids(unsaved) \in SUBSET Nat
      /\ Ids(tail) \in SUBSET Nat /\ Ids(fresh) \in SUBSET Nat
  BY <1>1, IdsAreNumbers
<1>3. ASSUME NEW tool \in BOOLEAN, NEW long \in BOOLEAN, Speak(tool, long)
      PROVE  Ordered'
  <2> DEFINE m == [id |-> spoken + 1, tool |-> tool, long |-> long]
  <2>1. m \in Message /\ m.id = spoken + 1
    BY <1>1 DEF Message
  <2>2. fresh' = fresh \o <<m>>
    BY <1>1, <1>3, <2>1 DEF Speak
  <2> HIDE DEF m
  <2>3. <<m>> \in Seq(Message) /\ Ids(<<m>>) = {spoken + 1} /\ Sorted(<<m>>)
    BY <2>1, OneFacts
  <2>4. \A a \in Ids(fresh) : a < spoken + 1
    BY <1>1, <1>2 DEF Ordered
  <2>5. Ids(fresh') = Ids(fresh) \cup {spoken + 1} /\ Sorted(fresh')
    <3>1. \A a \in Ids(fresh), b \in Ids(<<m>>) : a < b
      BY <2>3, <2>4
    <3>2. Sorted(fresh)
      BY DEF Ordered
    <3> QED
      BY <1>1, <2>2, <2>3, <3>1, <3>2, ConcatFacts
  <2>6. \A a \in Ids(raw) \cup Ids(diskRaw) \cup Ids(tail) : a < spoken + 1
    BY <1>1, <1>2 DEF Ordered
  <2>7. /\ pc = "idle" /\ pc' = "idle" /\ spoken' = spoken + 1
        /\ UNCHANGED <<tail, raw, diskRaw, unsaved>>
    BY <1>3 DEF Speak
  <2>8. \A a \in Ids(diskRaw') \cup Ids(raw') \cup Ids(tail') \cup Ids(fresh') : a <= spoken'
    BY <1>1, <1>2, <2>4, <2>5, <2>6, <2>7
  <2> QED
    BY <2>5, <2>6, <2>7, <2>8 DEF Ordered
<1>4. ASSUME Forget
      PROVE  Ordered'
  BY <1>4, EmptyFacts DEF Forget, Ordered
<1>5. ASSUME Crash
      PROVE  Ordered'
  BY <1>5, EmptyFacts DEF Crash, Ordered
<1>6. ASSUME Begin
      PROVE  Ordered'
  <2> DEFINE held == IF Unloaded THEN diskRaw ELSE raw
             new == NewMessages(held)
  <2>1. held \in Seq(Message) /\ Sorted(held) /\ Ids(held) \in SUBSET Nat
    BY <1>1, <1>2 DEF Ordered
  <2>2. Ids(tail) \subseteq Ids(held) /\ Ids(held) \subseteq Ids(raw) \cup Ids(diskRaw)
    BY EmptyFacts DEF Ordered, Unloaded
  <2>3. \A b \in Ids(fresh) : b \in Ids(held) \/ \A a \in Ids(raw) \cup Ids(diskRaw) : a < b
    BY EmptyFacts DEF Ordered, Unloaded
  <2>4. /\ tail \o fresh \in Seq(Message)
        /\ Ids(tail \o fresh) = Ids(tail) \cup Ids(fresh)
        /\ Sorted(tail \o fresh)
    BY <1>1, ConcatFacts DEF Ordered
  <2> HIDE DEF held
  <2>5. /\ new \in Seq(Message)
        /\ Ids(new) = (Ids(tail) \cup Ids(fresh)) \ Ids(held)
        /\ Sorted(new)
    BY <2>4, WithoutFacts DEF NewMessages
  <2>6. \A a \in Ids(held) \cup Ids(diskRaw), b \in Ids(new) : a < b
    BY <2>2, <2>3, <2>5
  <2> HIDE DEF new
  <2>7. /\ raw' = held \o new /\ unsaved' = new /\ pc' = "save"
        /\ UNCHANGED <<diskRaw, tail, fresh, spoken>>
    BY <1>6 DEF Begin, held, new
  <2>8. Ids(raw') = Ids(held) \cup Ids(new) /\ Sorted(raw')
    BY <2>1, <2>5, <2>6, <2>7, ConcatFacts
  <2>9. Ids(fresh) \subseteq Ids(raw') /\ Ids(tail) \subseteq Ids(raw')
    BY <2>2, <2>5, <2>8
  <2>10. \A a \in Ids(raw') : a <= spoken
    BY <2>2, <2>5, <2>8 DEF Ordered
  <2> QED
    BY <2>5, <2>6, <2>7, <2>8, <2>9, <2>10 DEF Ordered
<1>7. ASSUME SaveMessages
      PROVE  Ordered'
  <2>1. pc = "save" /\ diskRaw' = Saved(unsaved)
    BY <1>7 DEF SaveMessages
  <2>2. Ids(diskRaw') = Ids(diskRaw) \cup Ids(unsaved) /\ Sorted(diskRaw')
    BY <1>1, <2>1, SavedFacts DEF Ordered
  <2>3. \A a \in Ids(diskRaw') : a <= spoken
    BY <2>1, <2>2 DEF Ordered
  <2>4. CASE UNCHANGED <<raw, context>> /\ pc' = "chunk"
    BY <2>1, <2>2, <2>3, <2>4 DEF Ordered
  <2>5. CASE Finish(nodes, {})
    <3>1. /\ Sorted(raw') /\ Ids(raw') \subseteq Ids(raw)
          /\ Sorted(tail') /\ Ids(tail') \subseteq Ids(raw')
          /\ Sorted(fresh') /\ Ids(fresh') = {}
          /\ pc' = "idle" /\ spoken' = spoken
      BY <1>1, <2>5, FinishOrdered DEF Ordered
    <3> QED
      BY <2>2, <2>3, <3>1 DEF Ordered
  <2> QED
    BY <1>7, <2>4, <2>5 DEF SaveMessages
<1>8. ASSUME SaveChunk
      PROVE  Ordered'
  <2>1. 0 \in 0 .. MaxDepth
    BY DEF LcmAssumption
  <2> QED
    BY <1>8, <2>1, ContinueOrdered DEF SaveChunk
<1>9. ASSUME MarkChild
      PROVE  Ordered'
  BY <1>9 DEF MarkChild, Ordered
<1>10. ASSUME SaveParent
       PROVE  Ordered'
  <2>1. depth + 1 \in 0 .. MaxDepth
    BY <1>10 DEF SaveParent, Typed, TypeOK, Condensing, LcmAssumption
  <2> QED
    BY <1>10, <2>1, ContinueOrdered DEF SaveParent
<1>11. ASSUME NEW half \in BOOLEAN, LoadFails(half)
       PROVE  Ordered'
  <2>1. Ids(raw) = {} /\ Ids(tail) = {}
    BY <1>11, EmptyFacts DEF LoadFails, Unloaded, Ordered
  <2>2. raw' \in {raw, diskRaw} /\ pc' = "idle" /\ UNCHANGED <<diskRaw, tail, fresh, spoken>>
    BY <1>11 DEF LoadFails, Fails
  <2> QED
    BY <2>1, <2>2 DEF Ordered
<1>12. ASSUME Fails, raw' = raw
       PROVE  Ordered'
  BY <1>12 DEF Fails, Ordered
<1>13. ASSUME SaveMessagesFails \/ SaveChunkFails \/ MarkChildFails \/ SaveParentFails
       PROVE  Ordered'
  BY <1>12, <1>13 DEF SaveMessagesFails, SaveChunkFails, MarkChildFails, SaveParentFails
<1>14. CASE UNCHANGED vars
  BY <1>14 DEF vars, Ordered
<1> QED
  BY <1>3, <1>4, <1>5, <1>6, <1>7, <1>8, <1>9, <1>10, <1>11, <1>13, <1>14 DEF Next, StoreFails

\* The table keeps the messages in the order of speaking, none twice.
THEOREM DiskInOrderHolds == Spec => []DiskInOrder
<1> USE LcmAssumption
<1>1. Init => Typed /\ Ordered
  BY TypedInit, OrderedInit
<1>2. Typed /\ Ordered /\ [Next]_vars => Typed' /\ Ordered'
  BY TypedStep, OrderedStep
<1>3. Typed /\ Ordered => DiskInOrder
  BY DEF Ordered, Sorted, DiskInOrder
<1> QED
  BY <1>1, <1>2, <1>3, PTL DEF Spec

-----------------------------------------------------------------------------
(* Memory and table agree.                                                 *)

\* A new node without a parent is active.
LEMMA AddedFacts ==
    ASSUME NEW k \in Nat, NEW ns, IsNodes(ns, k), NEW y \in Node, y.parent = 0
    PROVE  /\ Active(With(ns, k + 1, y)) = Active(ns) \cup {k + 1}
           /\ Covered(With(ns, k + 1, y)) = Covered(ns) \cup y.covers
           /\ \A d : ActiveAt(With(ns, k + 1, y), d) =
                        IF d = y.depth THEN ActiveAt(ns, d) \cup {k + 1} ELSE ActiveAt(ns, d)
           /\ k + 1 \notin DOMAIN ns
<1> DEFINE w == With(ns, k + 1, y)
<1>1. k + 1 \notin DOMAIN ns
  BY DEF IsNodes
<1>2. /\ DOMAIN w = DOMAIN ns \cup {k + 1}
      /\ w[k + 1] = y
      /\ \A m \in DOMAIN ns : w[m] = ns[m]
  BY <1>1 DEF With
<1> HIDE DEF w
<1>3. Active(w) = Active(ns) \cup {k + 1}
  BY <1>2 DEF Active
<1>4. \A m \in Active(ns) : w[m] = ns[m]
  BY <1>2 DEF Active
<1>5. Covered(w) = Covered(ns) \cup y.covers
  BY <1>2, <1>3, <1>4 DEF Covered
<1>6. \A d : ActiveAt(w, d) = IF d = y.depth THEN ActiveAt(ns, d) \cup {k + 1} ELSE ActiveAt(ns, d)
  BY <1>2, <1>3, <1>4 DEF ActiveAt
<1> QED
  BY <1>1, <1>3, <1>5, <1>6 DEF w

\* A child that is marked is not active any more, and nothing else changes.
LEMMA MarkedActive ==
    ASSUME Typed, pc = "mark"
    PROVE  /\ Active(MarkedNodes) = Active(nodes) \ {Head(children)}
           /\ \A d : ActiveAt(MarkedNodes, d) = ActiveAt(nodes, d) \ {Head(children)}
           /\ \A n \in DOMAIN nodes : /\ MarkedNodes[n].covers = nodes[n].covers
                                      /\ MarkedNodes[n].depth = nodes[n].depth
           /\ DOMAIN MarkedNodes = DOMAIN nodes
<1> DEFINE h == Head(children)
<1>1. /\ h \in DOMAIN nodes
      /\ DOMAIN MarkedNodes = DOMAIN nodes
      /\ MarkedNodes[h] = [nodes[h] EXCEPT !.parent = made + 1]
      /\ \A n \in DOMAIN nodes : n # h => MarkedNodes[n] = nodes[n]
  BY MarkedFacts
<1>2. nodes[h] \in Node /\ made \in Nat
  BY <1>1 DEF Typed, TypeOK
<1> HIDE DEF h, MarkedNodes
<1>3. /\ MarkedNodes[h].parent # 0
      /\ MarkedNodes[h].covers = nodes[h].covers
      /\ MarkedNodes[h].depth = nodes[h].depth
  BY <1>1, <1>2 DEF Node
<1>4. \A n \in DOMAIN nodes : /\ MarkedNodes[n].covers = nodes[n].covers
                              /\ MarkedNodes[n].depth = nodes[n].depth
  BY <1>1, <1>3
<1>5. Active(MarkedNodes) = Active(nodes) \ {h}
  BY <1>1, <1>3 DEF Active
<1>6. \A d : ActiveAt(MarkedNodes, d) = ActiveAt(nodes, d) \ {h}
  BY <1>4, <1>5 DEF ActiveAt, Active
<1> QED
  BY <1>1, <1>4, <1>5, <1>6 DEF h

LEMMA ContinueAgreeing ==
    ASSUME LcmAssumption, Typed, Ordered, pc \in {"chunk", "parent"},
           NEW k \in Nat, NEW ns, IsNodes(ns, k), nodes' = ns,
           NEW r \in SUBSET Nat, NEW d \in 0 .. MaxDepth, Continue(ns, d, r),
           diskRaw' = diskRaw,
           r \subseteq Covered(ns),
           Ids(diskRaw) \subseteq Ids(raw) \cup Covered(ns),
           Ids(raw) \subseteq Ids(diskRaw)
    PROVE  Agreeing'
<1>1. CASE \E e \in d .. (MaxDepth - 1) : Condense(ns, e, r)
  <2>1. PICK e \in d .. (MaxDepth - 1) : Condense(ns, e, r)
    BY <1>1
  <2>2. \A i \in DOMAIN children' : ns[children'[i]].covers \subseteq parent'.covers
    BY <2>1 DEF Condense
  <2>3. raw' = raw /\ pc' = "mark" /\ rolled' = r
    BY <2>1 DEF Condense
  <2> QED
    BY <2>2, <2>3 DEF Agreeing
<1>2. CASE NextChunk(r)
  <2>1. children' = <<>>
    BY <1>2 DEF NextChunk, Typed
  <2> QED
    BY <1>2, <2>1 DEF NextChunk, Agreeing
<1>3. CASE Finish(ns, r)
  <2>1. Ids(raw') = Ids(raw) \ r
    BY <1>3, FinishOrdered DEF Ordered, Typed, TypeOK
  <2>2. pc' = "idle" /\ rolled' = {} /\ children' = <<>>
    BY <1>3 DEF Finish, ResetLocals
  <2>3. Covered(nodes') = Covered(ns)
    OBVIOUS
  <2>4. Ids(diskRaw') \subseteq Ids(raw') \cup Covered(nodes') /\ Ids(raw') \subseteq Ids(diskRaw')
    BY <2>1, <2>3
  <2>5. DOMAIN children' = {}
    BY <2>2
  <2> QED
    BY <2>2, <2>4, <2>5 DEF Agreeing
<1> QED
  BY <1>1, <1>2, <1>3, ContinueFacts

LEMMA AgreeingInit == Init => Agreeing
BY EmptyFacts DEF Init, Agreeing, Unloaded, NoNodes

LEMMA AgreeingStep == LcmAssumption /\ Typed /\ Ordered /\ Agreeing /\ [Next]_vars => Agreeing'
<1> SUFFICES ASSUME LcmAssumption, Typed, Ordered, Agreeing, [Next]_vars, fails' = 0
             PROVE  Agreeing'
  BY DEF Agreeing
<1> USE DEF context, memory, disk, locals, troubles
<1>1. /\ raw \in Seq(Message) /\ diskRaw \in Seq(Message) /\ unsaved \in Seq(Message)
      /\ tail \in Seq(Message) /\ fresh \in Seq(Message)
  BY DEF Typed, TypeOK
<1>2. IsNodes(nodes, made) /\ IsNodes(diskNodes, made) /\ made \in Nat /\ made + 1 \in Nat
  BY TypedNodes
<1>3. ASSUME NEW tool \in BOOLEAN, NEW long \in BOOLEAN, Speak(tool, long)
      PROVE  Agreeing'
  BY <1>3 DEF Speak, Agreeing, Unloaded, Pending, Condensing
<1>4. ASSUME Forget
      PROVE  Agreeing'
  BY <1>4 DEF Forget, Agreeing, Unloaded, Pending, Condensing
<1>5. ASSUME Crash
      PROVE  Agreeing'
  <2>1. Unloaded' /\ pc' = "idle" /\ raw' = <<>> /\ rolled' = {} /\ children' = <<>>
    BY <1>5 DEF Crash, Unloaded, NoNodes
  <2> QED
    BY <2>1, EmptyFacts DEF Agreeing
<1>6. ASSUME Begin
      PROVE  Agreeing'
  <2> DEFINE held == IF Unloaded THEN diskRaw ELSE raw
             new == NewMessages(held)
  <2>1. held \in Seq(Message) /\ tail \o fresh \in Seq(Message)
    BY <1>1
  <2>2. new \in Seq(Message)
    BY <2>1, WithoutFacts DEF NewMessages
  <2>3. Ids(held \o new) = Ids(held) \cup Ids(new)
    <3> HIDE DEF held, new
    <3> QED
      BY <2>1, <2>2, ConcatFacts
  <2>4. /\ pc = "idle" /\ raw' = held \o new /\ unsaved' = new /\ pc' = "save"
        /\ nodes' = IF Unloaded THEN diskNodes ELSE nodes
        /\ UNCHANGED <<diskRaw, rolled, children, parent, fails>>
    BY <1>6 DEF Begin
  <2>5. rolled = {} /\ children = <<>>
    BY <2>4 DEF Typed
  <2>6. Ids(held) \subseteq Ids(diskRaw)
    BY <2>4 DEF Agreeing
  <2>7. Ids(diskRaw) \subseteq Ids(held) \cup Covered(nodes')
    BY <2>4 DEF Agreeing, Pending, Condensing
  <2> HIDE DEF held, new
  <2> QED
    BY <2>3, <2>4, <2>5, <2>6, <2>7 DEF Agreeing
<1>7. ASSUME SaveMessages
      PROVE  Agreeing'
  <2>1. pc = "save" /\ diskRaw' = Saved(unsaved) /\ UNCHANGED <<nodes, fails>>
    BY <1>7 DEF SaveMessages
  <2>2. Ids(diskRaw') = Ids(diskRaw) \cup Ids(unsaved)
    BY <1>1, <2>1, SavedFacts
  <2>3. Ids(unsaved) \subseteq Ids(raw) /\ rolled = {} /\ children = <<>>
    BY <2>1 DEF Ordered, Typed
  <2>4. Ids(diskRaw') \subseteq Ids(raw) \cup Covered(nodes') /\ Ids(raw) \subseteq Ids(diskRaw')
    BY <2>1, <2>2, <2>3 DEF Agreeing, Pending, Condensing
  <2>5. CASE UNCHANGED <<raw, rolled, children>> /\ pc' = "chunk"
    BY <2>3, <2>4, <2>5 DEF Agreeing
  <2>6. CASE Finish(nodes, {})
    <3>1. Ids(raw') = Ids(raw)
      BY <1>1, <2>6, FinishOrdered DEF Ordered
    <3>2. pc' = "idle" /\ rolled' = {} /\ children' = <<>>
      BY <2>6 DEF Finish, ResetLocals
    <3> QED
      BY <2>4, <3>1, <3>2 DEF Agreeing
  <2> QED
    BY <1>7, <2>5, <2>6 DEF SaveMessages
<1>8. ASSUME SaveChunk
      PROVE  Agreeing'
  <2> DEFINE ns == With(nodes, made + 1, ChunkNode)
             r == rolled \cup ChunkIds
  <2>1. /\ pc = "chunk" /\ nodes' = ns /\ Continue(ns, 0, r)
        /\ UNCHANGED <<diskRaw, fails>>
    BY <1>8 DEF SaveChunk, ChunkNode, ChunkIds
  <2>2. ChunkNode \in Node /\ ChunkNode.parent = 0 /\ ChunkNode.covers = ChunkIds /\ ChunkIds \in SUBSET Nat
    BY ChunkTyped DEF ChunkNode
  <2>3. IsNodes(ns, made + 1)
    BY <1>2, <2>2, WithIsNodes
  <2>4. Covered(ns) = Covered(nodes) \cup ChunkIds
    BY <1>2, <2>2, AddedFacts
  <2>5. r \in SUBSET Nat /\ 0 \in 0 .. MaxDepth
    <3>1. rolled \in SUBSET Nat
      BY DEF Typed, TypeOK
    <3> QED
      BY <2>2, <3>1 DEF LcmAssumption
  <2>6. /\ Ids(diskRaw) \subseteq Ids(raw) \cup Covered(nodes)
        /\ Ids(raw) \subseteq Ids(diskRaw)
        /\ rolled \subseteq Covered(nodes)
    BY <2>1 DEF Agreeing, Pending, Condensing
  <2> HIDE DEF ns
  <2>7. r \subseteq Covered(ns) /\ Ids(diskRaw) \subseteq Ids(raw) \cup Covered(ns)
    BY <2>4, <2>6
  <2> HIDE DEF r
  <2> QED
    BY <1>2, <2>1, <2>3, <2>5, <2>6, <2>7, ContinueAgreeing
<1>9. ASSUME MarkChild
      PROVE  Agreeing'
  <2> DEFINE h == Head(children)
  <2>1. /\ pc = "mark" /\ nodes' = MarkedNodes /\ children' = Tail(children)
        /\ pc' \in {"mark", "parent"}
        /\ UNCHANGED <<raw, diskRaw, rolled, parent, fails>>
    BY <1>9 DEF MarkChild
  <2>2. /\ Active(MarkedNodes) = Active(nodes) \ {h}
        /\ DOMAIN MarkedNodes = DOMAIN nodes
        /\ \A n \in DOMAIN nodes : MarkedNodes[n].covers = nodes[n].covers
    BY <2>1, MarkedActive
  <2>3. children \in Seq(DOMAIN nodes) /\ children # <<>>
    BY <2>1 DEF Typed, TypeOK
  <2>4. nodes[h].covers \subseteq parent.covers
    BY <2>1, <2>3 DEF Agreeing
  <2>5. \A i \in DOMAIN children' : i + 1 \in DOMAIN children /\ children'[i] = children[i + 1] /\ children[i + 1] \in DOMAIN nodes
    BY <2>1, <2>3
  <2> HIDE DEF h, MarkedNodes
  <2>6. \A i \in DOMAIN children' : nodes'[children'[i]].covers \subseteq parent.covers
    BY <2>1, <2>2, <2>5 DEF Agreeing
  <2>7. Covered(nodes) \subseteq Covered(nodes') \cup parent.covers
    BY <2>1, <2>2, <2>4 DEF Covered, Active
  <2> QED
    BY <2>1, <2>6, <2>7 DEF Agreeing, Pending, Condensing
<1>10. ASSUME SaveParent
       PROVE  Agreeing'
  <2> DEFINE ns == With(nodes, made + 1, parent)
  <2>1. /\ pc = "parent" /\ nodes' = ns /\ Continue(ns, depth + 1, rolled)
        /\ UNCHANGED <<diskRaw, fails>>
    BY <1>10 DEF SaveParent
  <2>2. parent \in Node /\ parent.parent = 0 /\ rolled \in SUBSET Nat /\ depth + 1 \in 0 .. MaxDepth
    BY <2>1 DEF Typed, TypeOK, Condensing, LcmAssumption
  <2>3. IsNodes(ns, made + 1)
    BY <1>2, <2>2, WithIsNodes
  <2>4. Covered(ns) = Covered(nodes) \cup parent.covers
    BY <1>2, <2>2, AddedFacts
  <2>5. /\ Ids(diskRaw) \subseteq Ids(raw) \cup Covered(ns)
        /\ Ids(raw) \subseteq Ids(diskRaw)
        /\ rolled \subseteq Covered(ns)
    BY <2>1, <2>4 DEF Agreeing, Pending, Condensing
  <2> HIDE DEF ns
  <2> QED
    BY <1>2, <2>1, <2>2, <2>3, <2>5, ContinueAgreeing
<1>11. ~StoreFails
  BY DEF StoreFails, LoadFails, SaveMessagesFails, SaveChunkFails, MarkChildFails, SaveParentFails, Fails, Typed, TypeOK
<1>12. CASE UNCHANGED vars
  BY <1>12 DEF vars, Agreeing, Unloaded, Pending, Condensing
<1> QED
  BY <1>3, <1>4, <1>5, <1>6, <1>7, <1>8, <1>9, <1>10, <1>11, <1>12 DEF Next

\* Until a store call fails, no message that is persisted is out of reach, and
\* none that is held is not persisted, wherever a process ended before.
THEOREM DiskAgreesHolds == Spec => []DiskAgrees
<1> USE LcmAssumption
<1>1. Init => Typed /\ Ordered /\ Agreeing
  BY TypedInit, OrderedInit, AgreeingInit
<1>2. Typed /\ Ordered /\ Agreeing /\ [Next]_vars => Typed' /\ Ordered' /\ Agreeing'
  BY TypedStep, OrderedStep, AgreeingStep
<1>3. Agreeing => DiskAgrees
  BY DEF Agreeing, DiskAgrees, Pending, Condensing
<1> QED
  BY <1>1, <1>2, <1>3, PTL DEF Spec

-----------------------------------------------------------------------------
(* The number of active nodes.                                             *)

LEMMA Product ==
    ASSUME NEW c \in Nat, NEW f \in Nat
    PROVE  c * f \in Nat /\ c * (1 + f) = c * f + c /\ c * (f + 1) = c * f + c
OBVIOUS

\* What the numbers of the configuration and of the faults are worth.
LEMMA Numbers ==
    ASSUME LcmAssumption, Typed
    PROVE  /\ CondensationCount \in Nat /\ CondensationCount > 0 /\ MaxDepth \in Nat
           /\ fails \in Nat /\ crashes \in Nat
           /\ CondensationCount * fails \in Nat
           /\ CondensationCount * (1 + fails) = CondensationCount * fails + CondensationCount
           /\ CondensationCount * (fails + 1) = CondensationCount * fails + CondensationCount
<1>1. /\ CondensationCount \in Nat /\ CondensationCount > 0 /\ MaxDepth \in Nat
      /\ fails \in Nat /\ crashes \in Nat
  BY DEF LcmAssumption, Typed, TypeOK
<1> QED
  BY <1>1, Product

\* Of two finite sets the first is at most as large as the second and what only
\* the first has.
LEMMA DifferenceFacts ==
    ASSUME NEW S, IsFiniteSet(S), NEW T, IsFiniteSet(T)
    PROVE  /\ IsFiniteSet(S \ T)
           /\ Cardinality(S \ T) \in Nat
           /\ Cardinality(S \ T) <= Cardinality(S)
           /\ Cardinality(S) <= Cardinality(T) + Cardinality(S \ T)
<1>1. IsFiniteSet(S \ T) /\ Cardinality(S \ T) <= Cardinality(S)
  <2>1. S \ T \in SUBSET S
    OBVIOUS
  <2> QED
    BY <2>1, FS_Subset
<1>2. IsFiniteSet(T \cup (S \ T)) /\ Cardinality(T \cup (S \ T)) <= Cardinality(T) + Cardinality(S \ T)
  <2>1. /\ IsFiniteSet(T \cup (S \ T))
        /\ Cardinality(T \cup (S \ T)) = Cardinality(T) + Cardinality(S \ T) - Cardinality(T \cap (S \ T))
    BY <1>1, FS_Union
  <2>2. T \cap (S \ T) = {}
    OBVIOUS
  <2>3. Cardinality(T) \in Nat /\ Cardinality(S \ T) \in Nat
    BY <1>1, FS_CardinalityType
  <2> QED
    BY <2>1, <2>2, <2>3, FS_EmptySet
<1>3. S \in SUBSET (T \cup (S \ T))
  OBVIOUS
<1>4. Cardinality(S) <= Cardinality(T \cup (S \ T))
  BY <1>2, <1>3, FS_Subset
<1>5. /\ Cardinality(S) \in Nat /\ Cardinality(T) \in Nat /\ Cardinality(S \ T) \in Nat
      /\ Cardinality(T \cup (S \ T)) \in Nat
  BY <1>1, <1>2, FS_CardinalityType
<1> QED
  BY <1>1, <1>2, <1>4, <1>5

LEMMA CountFacts ==
    ASSUME Typed, NEW d
    PROVE  /\ IsFiniteSet(ActiveAt(nodes, d)) /\ IsFiniteSet(ActiveAt(diskNodes, d))
           /\ Count(nodes, d) \in Nat /\ Count(diskNodes, d) \in Nat
           /\ Cardinality(ActiveAt(diskNodes, d) \ ActiveAt(nodes, d)) \in Nat
           /\ Count(diskNodes, d) <= Count(nodes, d) + Cardinality(ActiveAt(diskNodes, d) \ ActiveAt(nodes, d))
<1>1. /\ IsFiniteSet(ActiveAt(nodes, d)) /\ IsFiniteSet(ActiveAt(diskNodes, d))
      /\ Count(nodes, d) \in Nat /\ Count(diskNodes, d) \in Nat
  BY TypedNodes, ActiveFacts DEF Count
<1> QED
  BY <1>1, DifferenceFacts DEF Count

\* Whatever is active in memory or only in the table is found in the table by
\* the next process.
LEMMA ExcessOnDisk ==
    ASSUME LcmAssumption, Typed, NEW a \in Nat, NEW b \in Nat, Excess(a, b),
           NEW d \in 0 .. (MaxDepth - 1)
    PROVE  Count(diskNodes, d) < CondensationCount * (1 + fails) + crashes + 1
<1>1. Count(nodes, d) <= CondensationCount + a
  <2> DEFINE c == Count(nodes, d)
  <2>0. c \in Nat /\ CondensationCount \in Nat
    BY Numbers, CountFacts
  <2>1. CASE pc = "mark" /\ d = depth
    <3>1. c - Len(children) <= a /\ Len(children) <= CondensationCount
      BY <2>1 DEF Excess
    <3>2. Len(children) \in Nat
      BY DEF Typed, TypeOK
    <3> HIDE DEF c
    <3> QED
      BY <2>0, <3>1, <3>2 DEF c
  <2>2. CASE ~(pc = "mark" /\ d = depth)
    <3>1. c < CondensationCount + a
      BY <2>2 DEF Excess
    <3> HIDE DEF c
    <3> QED
      BY <2>0, <3>1 DEF c
  <2> QED
    BY <2>1, <2>2
<1>2. /\ Cardinality(ActiveAt(diskNodes, d) \ ActiveAt(nodes, d)) <= b
      /\ a + b <= CondensationCount * fails + crashes
  BY DEF Excess
<1> QED
  BY <1>1, <1>2, Numbers, CountFacts

LEMMA ExcessBounded ==
    ASSUME LcmAssumption, Typed, NEW a \in Nat, NEW b \in Nat, Excess(a, b)
    PROVE  Bounded
<1> SUFFICES ASSUME pc = "idle", Unloaded, NEW d \in 0 .. (MaxDepth - 1)
             PROVE  Count(diskNodes, d) < CondensationCount * (1 + fails) + crashes
  BY DEF Bounded
<1>1. Count(nodes, d) = 0
  <2>1. ActiveAt(nodes, d) = {}
    BY DEF Unloaded, ActiveAt, Active
  <2> QED
    BY <2>1, FS_EmptySet DEF Count
<1>2. /\ Cardinality(ActiveAt(diskNodes, d) \ ActiveAt(nodes, d)) <= b
      /\ a + b <= CondensationCount * fails + crashes
  BY DEF Excess
<1> QED
  BY <1>1, <1>2, Numbers, CountFacts

\* The same after a step.
LEMMA ExcessBoundedNext ==
    ASSUME NEW a \in Nat, NEW b \in Nat
    PROVE  (LcmAssumption /\ Typed /\ Excess(a, b) => Bounded)'
<1>1. LcmAssumption /\ Typed /\ Excess(a, b) => Bounded
  BY ExcessBounded
<1> QED
  BY <1>1, PTL

\* The depths a compaction passes over have no more nodes than usual, and the
\* one it condenses no more than it takes and the nodes in excess.
LEMMA ContinueExcess ==
    ASSUME LcmAssumption, Typed, pc \in {"chunk", "parent"},
           NEW k \in Nat, NEW ns, IsNodes(ns, k), nodes' = ns,
           NEW r, NEW d \in 0 .. MaxDepth, Continue(ns, d, r),
           UNCHANGED <<fails, crashes>>,
           NEW a \in Nat, NEW b \in Nat,
           a + b <= CondensationCount * fails + crashes,
           \A f \in 0 .. (MaxDepth - 1) :
               /\ Count(ns, f) <= CondensationCount + a
               /\ f # d => Count(ns, f) < CondensationCount + a
               /\ Cardinality(ActiveAt(diskNodes', f) \ ActiveAt(ns, f)) <= b
    PROVE  Excess(a, b)'
<1>1. /\ CondensationCount \in Nat /\ CondensationCount > 0 /\ MaxDepth \in Nat
  BY Numbers
<1>2. \A f : ~Condensable(ns, f) => Count(ns, f) < CondensationCount + a
  <2>1. \A f : Count(ns, f) \in Nat
    BY ActiveFacts DEF Count
  <2> QED
    BY <1>1, <2>1 DEF Condensable, Count
<1>3. \A f : Count(nodes, f)' = Count(ns, f)
  BY DEF Count
<1>4. ASSUME NEW e \in d .. (MaxDepth - 1), Condensable(ns, e),
             \A f \in d .. (e - 1) : ~Condensable(ns, f), Condense(ns, e, r)
      PROVE  Excess(a, b)'
  <2>1. pc' = "mark" /\ depth' = e /\ children' = Oldest(ns, e)
    BY <1>4 DEF Condense
  <2>2. /\ children' \in Seq(ActiveAt(ns, e)) /\ Len(children') = CondensationCount
        /\ \A i, j \in 1 .. CondensationCount : i < j => children'[i] < children'[j]
    BY <1>4, <2>1, OldestFacts
  <2>3. Count(ns, e) - CondensationCount <= a
    <3> DEFINE c == Count(ns, e)
    <3>1. e \in 0 .. (MaxDepth - 1)
      BY <1>1
    <3>2. c \in Nat /\ c <= CondensationCount + a
      BY <3>1, ActiveFacts DEF Count
    <3> HIDE DEF c
    <3> QED
      BY <1>1, <3>2 DEF c
  <2>4. \A f \in 0 .. (MaxDepth - 1) : f # e => Count(ns, f) < CondensationCount + a
    <3>1. \A f \in 0 .. (MaxDepth - 1) : f = d /\ f # e => f \in d .. (e - 1)
      OBVIOUS
    <3> QED
      BY <1>2, <1>4, <3>1
  <2>5. \A i \in 1 .. Len(children') : children'[i] \in ActiveAt(ns, e)
    BY <2>2
  <2> QED
    BY <1>3, <2>1, <2>2, <2>3, <2>4, <2>5 DEF Excess
<1>5. ASSUME \A f \in d .. (MaxDepth - 1) : ~Condensable(ns, f), pc' # "mark"
      PROVE  Excess(a, b)'
  <2>1. \A f \in 0 .. (MaxDepth - 1) : Count(ns, f) < CondensationCount + a
    <3>1. \A f \in 0 .. (MaxDepth - 1) : f = d => f \in d .. (MaxDepth - 1)
      OBVIOUS
    <3> QED
      BY <1>2, <1>5, <3>1
  <2> QED
    BY <1>3, <1>5, <2>1 DEF Excess
<1> QED
  BY <1>4, <1>5, ContinueFacts DEF NextChunk, Finish

\* A node that gets a parent is not active any more.
LEMMA RetiredFacts ==
    ASSUME NEW ns, NEW n, NEW y, y.parent # 0
    PROVE  \A d : ActiveAt(With(ns, n, y), d) = ActiveAt(ns, d) \ {n}
<1> DEFINE w == With(ns, n, y)
<1>1. /\ DOMAIN w = DOMAIN ns \cup {n}
      /\ w[n] = y
      /\ \A m \in DOMAIN ns : m # n => w[m] = ns[m]
  BY DEF With
<1> HIDE DEF w
<1>2. Active(w) = Active(ns) \ {n}
  BY <1>1 DEF Active
<1>3. \A d : ActiveAt(w, d) = ActiveAt(ns, d) \ {n}
  BY <1>1, <1>2 DEF ActiveAt, Active
<1> QED
  BY <1>3 DEF w

\* A node saved in memory and in the table, and the count at its depth.
LEMMA AddedCounts ==
    ASSUME Typed, NEW y \in Node, y.parent = 0, NEW f
    PROVE  /\ Count(With(nodes, made + 1, y), f)
                 = IF f = y.depth THEN Count(nodes, f) + 1 ELSE Count(nodes, f)
           /\ Cardinality(ActiveAt(With(diskNodes, made + 1, y), f) \ ActiveAt(With(nodes, made + 1, y), f))
                 <= Cardinality(ActiveAt(diskNodes, f) \ ActiveAt(nodes, f))
<1> DEFINE A == ActiveAt(nodes, f)
           D == ActiveAt(diskNodes, f)
           A1 == ActiveAt(With(nodes, made + 1, y), f)
           D1 == ActiveAt(With(diskNodes, made + 1, y), f)
<1>1. /\ A1 = IF f = y.depth THEN A \cup {made + 1} ELSE A
      /\ D1 = IF f = y.depth THEN D \cup {made + 1} ELSE D
      /\ made + 1 \notin A
  <2>1. IsNodes(nodes, made) /\ IsNodes(diskNodes, made) /\ made \in Nat
    BY TypedNodes
  <2> DEFINE Added(ns) ==
         \A d : ActiveAt(With(ns, made + 1, y), d) =
                   IF d = y.depth THEN ActiveAt(ns, d) \cup {made + 1} ELSE ActiveAt(ns, d)
  <2>2. A1 = IF f = y.depth THEN A \cup {made + 1} ELSE A
    <3>1. Added(nodes)
      BY <2>1, AddedFacts
    <3> QED
      BY ONLY <3>1 DEF A, A1
  <2>3. D1 = IF f = y.depth THEN D \cup {made + 1} ELSE D
    <3>1. Added(diskNodes)
      BY <2>1, AddedFacts
    <3> QED
      BY ONLY <3>1 DEF D, D1
  <2>4. made + 1 \notin A
    BY <2>1, AddedFacts DEF ActiveAt, Active
  <2> QED
    BY <2>2, <2>3, <2>4
<1>2. IsFiniteSet(A) /\ IsFiniteSet(D) /\ IsFiniteSet(D \ A)
  BY CountFacts, DifferenceFacts
<1> HIDE DEF A, D, A1, D1
<1>3. Cardinality(A1) = IF f = y.depth THEN Cardinality(A) + 1 ELSE Cardinality(A)
  BY <1>1, <1>2, FS_AddElement
<1>4. D1 \ A1 \in SUBSET (D \ A)
  BY <1>1
<1>5. Cardinality(D1 \ A1) <= Cardinality(D \ A)
  BY <1>2, <1>4, FS_Subset
<1> QED
  BY <1>3, <1>5 DEF A, D, A1, D1, Count

LEMMA BoundedInit == LcmAssumption /\ Init => Bounded
<1> SUFFICES ASSUME LcmAssumption, Init, NEW d \in 0 .. (MaxDepth - 1)
             PROVE  Count(diskNodes, d) < CondensationCount * (1 + fails) + crashes
  BY DEF Bounded, Init, Unloaded, NoNodes
<1>1. Count(diskNodes, d) = 0
  <2>1. ActiveAt(diskNodes, d) = {}
    BY DEF Init, NoNodes, ActiveAt, Active
  <2> QED
    BY <2>1, FS_EmptySet DEF Count
<1> QED
  BY <1>1, Numbers, TypedInit DEF Init

\* The child that is marked leaves the count at its depth, and those left are
\* still active.
LEMMA MarkedCounts ==
    ASSUME LcmAssumption, Typed, pc = "mark", NEW a, NEW b, Excess(a, b)
    PROVE  /\ Head(children) \in ActiveAt(nodes, depth)
           /\ \A d : Count(MarkedNodes, d) =
                        IF d = depth THEN Count(nodes, d) - 1 ELSE Count(nodes, d)
           /\ Len(Tail(children)) = Len(children) - 1
           /\ \A i \in 1 .. Len(Tail(children)) : Tail(children)[i] \in ActiveAt(MarkedNodes, depth)
           /\ \A i, j \in 1 .. Len(Tail(children)) : i < j => Tail(children)[i] < Tail(children)[j]
<1> DEFINE h == Head(children)
           rest == Tail(children)
<1>1. /\ children \in Seq(DOMAIN nodes) /\ children # <<>> /\ Len(children) \in Nat /\ Len(children) > 0
      /\ DOMAIN nodes \subseteq Nat
  <2>1. children \in Seq(DOMAIN nodes) /\ children # <<>> /\ DOMAIN nodes \subseteq 1 .. made /\ made \in Nat
    BY DEF Typed, TypeOK
  <2> QED
    BY <2>1
<1>2. /\ \A i \in 1 .. Len(children) : children[i] \in ActiveAt(nodes, depth)
      /\ \A i, j \in 1 .. Len(children) : i < j => children[i] < children[j]
  BY DEF Excess
<1>3. h = children[1] /\ h \in ActiveAt(nodes, depth)
  BY <1>1, <1>2
<1>4. \A d : ActiveAt(MarkedNodes, d) = ActiveAt(nodes, d) \ {h}
  BY MarkedActive
<1>5. ASSUME NEW d
      PROVE  Count(MarkedNodes, d) = IF d = depth THEN Count(nodes, d) - 1 ELSE Count(nodes, d)
  <2>1. h \in ActiveAt(nodes, d) <=> d = depth
    BY <1>3 DEF ActiveAt
  <2>2. IsFiniteSet(ActiveAt(nodes, d))
    BY CountFacts
  <2>3. ActiveAt(MarkedNodes, d) = ActiveAt(nodes, d) \ {h}
    BY <1>4
  <2> HIDE DEF h
  <2> QED
    BY <2>1, <2>2, <2>3, FS_RemoveElement DEF Count
<1>6. /\ Len(rest) = Len(children) - 1
      /\ \A i \in 1 .. Len(rest) : rest[i] = children[i + 1] /\ i + 1 \in 1 .. Len(children)
  BY <1>1
<1> HIDE DEF h, rest
<1>7. \A i \in 1 .. Len(rest) : rest[i] \in ActiveAt(nodes, depth) /\ rest[i] # h
  <2> SUFFICES ASSUME NEW i \in 1 .. Len(rest)
               PROVE  children[i + 1] \in ActiveAt(nodes, depth) /\ children[i + 1] # children[1]
    BY <1>3, <1>6
  <2>1. i + 1 \in 1 .. Len(children) /\ 1 \in 1 .. Len(children) /\ 1 < i + 1
    BY <1>1, <1>6
  <2>2. children[1] < children[i + 1] /\ children[1] \in Nat
    BY <1>1, <1>2, <2>1
  <2> QED
    BY <1>2, <2>1, <2>2
<1>8. ASSUME NEW i \in 1 .. Len(rest), NEW j \in 1 .. Len(rest), i < j
      PROVE  rest[i] < rest[j]
  <2>1. i + 1 \in 1 .. Len(children) /\ j + 1 \in 1 .. Len(children) /\ i + 1 < j + 1
    BY <1>1, <1>6, <1>8
  <2>2. children[i + 1] < children[j + 1]
    BY <1>2, <2>1
  <2> QED
    BY <1>6, <2>2
<1> QED
  BY <1>3, <1>4, <1>5, <1>6, <1>7, <1>8 DEF h, rest

LEMMA BoundedStep == LcmAssumption /\ Typed /\ Bounded /\ [Next]_vars => Bounded'
<1> SUFFICES ASSUME LcmAssumption, Typed, Bounded, [Next]_vars
             PROVE  Bounded'
  OBVIOUS
<1> USE DEF context, memory, disk, locals, troubles
<1> DEFINE Limit == CondensationCount * (1 + fails) + crashes
<1>1. Typed'
  BY TypedStep
<1>2. /\ CondensationCount \in Nat /\ CondensationCount > 0 /\ MaxDepth \in Nat
      /\ fails \in Nat /\ crashes \in Nat
      /\ CondensationCount * fails \in Nat
      /\ CondensationCount * (1 + fails) = CondensationCount * fails + CondensationCount
      /\ CondensationCount * (fails + 1) = CondensationCount * fails + CondensationCount
      /\ Limit \in Nat /\ Limit = CondensationCount * fails + CondensationCount + crashes
  BY Numbers
<1>3. \A d : Count(nodes, d) \in Nat /\ Count(diskNodes, d) \in Nat
  BY CountFacts
\* What holds of the table between two processes holds from the excess.
<1>4. ASSUME NEW d \in 0 .. (MaxDepth - 1)
      PROVE  Count(diskNodes, d) < Limit + 1
  <2>1. CASE pc = "idle" /\ Unloaded
    <3>1. Count(diskNodes, d) < Limit
      BY <2>1 DEF Bounded
    <3> QED
      BY <1>2, <1>3, <3>1
  <2>2. CASE ~(pc = "idle" /\ Unloaded)
    BY <2>2, ExcessOnDisk DEF Bounded
  <2> QED
    BY <2>1, <2>2
\* It is enough to find the excess after the step.
<1>5. ASSUME NEW a \in Nat, NEW b \in Nat, Excess(a, b)'
      PROVE  Bounded'
  BY <1>1, <1>5, ExcessBoundedNext
<1>6. ASSUME UNCHANGED <<nodes, diskNodes, pc, depth, children, fails, crashes>>, Unloaded' = Unloaded
      PROVE  Bounded'
  BY <1>6 DEF Bounded, Excess, Count
<1>7. ASSUME NEW tool \in BOOLEAN, NEW long \in BOOLEAN, Speak(tool, long)
      PROVE  Bounded'
  BY <1>6, <1>7 DEF Speak, Unloaded
<1>8. ASSUME Forget
      PROVE  Bounded'
  BY <1>6, <1>8 DEF Forget, Unloaded
<1>9. ASSUME Crash
      PROVE  Bounded'
  <2>1. Unloaded' /\ pc' = "idle" /\ diskNodes' = diskNodes /\ fails' = fails /\ crashes' = crashes + 1
    BY <1>9 DEF Crash, Unloaded, NoNodes
  <2>2. Limit' = Limit + 1
    BY <1>2, <2>1
  <2> QED
    BY <1>4, <2>1, <2>2 DEF Bounded, Count
<1>10. ASSUME Begin
       PROVE  Bounded'
  <2>1. /\ pc = "idle" /\ pc' = "save"
        /\ nodes' = IF Unloaded THEN diskNodes ELSE nodes
        /\ UNCHANGED <<diskNodes, fails, crashes, depth, children>>
    BY <1>10 DEF Begin
  <2>2. CASE Unloaded
    <3>1. PICK a \in Nat : a = CondensationCount * fails + crashes
      BY <1>2
    <3>2. \A d \in 0 .. (MaxDepth - 1) : Count(diskNodes, d) < CondensationCount + a
      <4>1. \A d \in 0 .. (MaxDepth - 1) : Count(diskNodes, d) < Limit
        BY <2>1, <2>2 DEF Bounded
      <4> QED
        BY <1>2, <1>3, <3>1, <4>1
    <3>3. \A d : Cardinality(ActiveAt(diskNodes, d) \ ActiveAt(diskNodes, d)) = 0
      <4>1. \A d : ActiveAt(diskNodes, d) \ ActiveAt(diskNodes, d) = {}
        OBVIOUS
      <4> QED
        BY <4>1, FS_EmptySet
    <3>4. ASSUME NEW b \in Nat, b = 0
          PROVE  Bounded'
      <4>1. a + b <= CondensationCount * fails' + crashes'
        BY <1>2, <2>1, <3>1, <3>4
      <4>2. \A d : Count(nodes, d)' = Count(diskNodes, d)
        BY <2>1, <2>2 DEF Count
      <4>3. \A d : Cardinality(ActiveAt(diskNodes', d) \ ActiveAt(nodes', d)) <= b
        BY <2>1, <2>2, <3>3, <3>4
      <4>4. Excess(a, b)'
        BY <2>1, <3>2, <4>1, <4>2, <4>3 DEF Excess
      <4> QED
        BY <1>5, <3>1, <4>4
    <3> QED
      BY <3>4
  <2>3. CASE ~Unloaded
    <3>1. PICK a \in Nat, b \in Nat : Excess(a, b)
      BY <2>1, <2>3 DEF Bounded
    <3>2. Excess(a, b)'
      BY <2>1, <2>3, <3>1 DEF Excess, Count
    <3> QED
      BY <1>5, <3>2
  <2> QED
    BY <2>2, <2>3
<1>11. ASSUME SaveMessages
       PROVE  Bounded'
  <2>1. /\ pc = "save" /\ pc' \in {"idle", "chunk"}
        /\ UNCHANGED <<nodes, diskNodes, fails, crashes>>
    BY <1>11 DEF SaveMessages, Finish
  <2>2. PICK a \in Nat, b \in Nat : Excess(a, b)
    BY <2>1 DEF Bounded
  <2>3. Excess(a, b)'
    BY <2>1, <2>2 DEF Excess, Count
  <2> QED
    BY <1>5, <2>3
\* A node saved at depth e, after which the compaction goes on there.
<1>12. ASSUME NEW y \in Node, y.parent = 0, NEW r,
              NEW e \in 0 .. MaxDepth, y.depth = e, Continue(nodes', e, r),
              nodes' = With(nodes, made + 1, y), diskNodes' = With(diskNodes, made + 1, y),
              pc \in {"chunk", "parent"}, UNCHANGED <<fails, crashes>>
       PROVE  Bounded'
  <2>1. PICK a \in Nat, b \in Nat : Excess(a, b)
    BY <1>12 DEF Bounded
  <2> DEFINE ns == With(nodes, made + 1, y)
  <2>2. made \in Nat /\ made + 1 \in Nat /\ IsNodes(ns, made + 1)
    BY TypedNodes, WithIsNodes
  <2>3. ASSUME NEW f \in 0 .. (MaxDepth - 1)
        PROVE  /\ Count(ns, f) <= CondensationCount + a
               /\ f # e => Count(ns, f) < CondensationCount + a
               /\ Cardinality(ActiveAt(diskNodes', f) \ ActiveAt(ns, f)) <= b
    <3> DEFINE before == Cardinality(ActiveAt(diskNodes, f) \ ActiveAt(nodes, f))
               after == Cardinality(ActiveAt(diskNodes', f) \ ActiveAt(ns, f))
               c == Count(nodes, f)
    <3>1. c < CondensationCount + a /\ before <= b
      BY <1>12, <2>1 DEF Excess
    <3>2. c \in Nat /\ before \in Nat
      BY CountFacts
    <3>3. Count(ns, f) = (IF f = e THEN c + 1 ELSE c) /\ after <= before
      BY <1>12, AddedCounts
    <3>4. after \in Nat
      <4>1. IsNodes(nodes', made') /\ IsNodes(diskNodes', made') /\ made' \in Nat
        BY <1>1 DEF Typed, TypeOK, IsNodes
      <4>2. IsFiniteSet(ActiveAt(nodes', f)) /\ IsFiniteSet(ActiveAt(diskNodes', f))
        BY <4>1, ActiveFacts
      <4> QED
        BY <1>12, <4>2, DifferenceFacts
    <3> HIDE DEF before, after, c
    <3>5. after <= b
      BY <3>1, <3>2, <3>3, <3>4
    <3> QED
      BY <1>2, <3>1, <3>2, <3>3, <3>5 DEF after
  <2>4. a + b <= CondensationCount * fails + crashes
    BY <2>1 DEF Excess
  <2> HIDE DEF ns
  <2>5. nodes' = ns /\ Continue(ns, e, r)
    BY <1>12 DEF ns
  <2>6. Excess(a, b)'
    <3>1. /\ nodes' = ns /\ Continue(ns, e, r) /\ IsNodes(ns, made + 1)
          /\ pc \in {"chunk", "parent"} /\ UNCHANGED <<fails, crashes>>
      BY <1>12, <2>2, <2>5
    <3>2. \A f \in 0 .. (MaxDepth - 1) :
             /\ Count(ns, f) <= CondensationCount + a
             /\ f # e => Count(ns, f) < CondensationCount + a
             /\ Cardinality(ActiveAt(diskNodes', f) \ ActiveAt(ns, f)) <= b
      BY <2>3
    <3> QED
      BY <2>2, <2>4, <3>1, <3>2, ContinueExcess
  <2> QED
    BY <1>5, <2>6
<1>13. ASSUME SaveChunk
       PROVE  Bounded'
  <2>1. /\ pc = "chunk"
        /\ diskNodes' = With(diskNodes, made + 1, ChunkNode)
        /\ nodes' = With(nodes, made + 1, ChunkNode)
        /\ Continue(nodes', 0, rolled \cup ChunkIds)
        /\ UNCHANGED <<fails, crashes>>
    BY <1>13 DEF SaveChunk, ChunkNode, ChunkIds
  <2>2. ChunkNode \in Node /\ ChunkNode.parent = 0 /\ ChunkNode.depth = 0 /\ 0 \in 0 .. MaxDepth
    BY <1>2, ChunkTyped DEF ChunkNode
  <2> QED
    BY <1>12, <2>1, <2>2
<1>14. ASSUME SaveParent
       PROVE  Bounded'
  <2>1. /\ pc = "parent"
        /\ diskNodes' = With(diskNodes, made + 1, parent)
        /\ nodes' = With(nodes, made + 1, parent)
        /\ Continue(nodes', depth + 1, rolled)
        /\ UNCHANGED <<fails, crashes>>
    BY <1>14 DEF SaveParent
  <2>2. parent \in Node /\ parent.parent = 0 /\ parent.depth = depth + 1 /\ depth + 1 \in 0 .. MaxDepth
    BY <2>1 DEF Typed, TypeOK, Condensing, LcmAssumption
  <2> QED
    BY <1>12, <2>1, <2>2
<1>15. ASSUME MarkChild
       PROVE  Bounded'
  <2> DEFINE h == Head(children)
  <2>1. /\ pc = "mark" /\ nodes' = MarkedNodes
        /\ diskNodes' = With(diskNodes, h, MarkedNodes[h])
        /\ children' = Tail(children)
        /\ pc' = IF Len(children) = 1 THEN "parent" ELSE "mark"
        /\ UNCHANGED <<depth, fails, crashes>>
    BY <1>15 DEF MarkChild
  <2>2. PICK a \in Nat, b \in Nat : Excess(a, b)
    BY <2>1 DEF Bounded
  <2>3. /\ \A d : Count(nodes', d) = IF d = depth THEN Count(nodes, d) - 1 ELSE Count(nodes, d)
        /\ Len(children') = Len(children) - 1
        /\ \A i \in 1 .. Len(children') : children'[i] \in ActiveAt(nodes', depth)
        /\ \A i, j \in 1 .. Len(children') : i < j => children'[i] < children'[j]
    BY <2>1, <2>2, MarkedCounts
  <2>4. ASSUME NEW d
        PROVE  Cardinality(ActiveAt(diskNodes', d) \ ActiveAt(nodes', d)) <= Cardinality(ActiveAt(diskNodes, d) \ ActiveAt(nodes, d))
    <3>1. MarkedNodes[h].parent # 0
      <4>1. /\ h \in DOMAIN nodes
            /\ MarkedNodes[h] = [nodes[h] EXCEPT !.parent = made + 1]
        BY <2>1, MarkedFacts
      <4>2. nodes[h] \in Node /\ made \in Nat
        BY <4>1 DEF Typed, TypeOK
      <4> QED
        BY <4>1, <4>2 DEF Node
    <3>2. ActiveAt(diskNodes', d) = ActiveAt(diskNodes, d) \ {h}
      BY <2>1, <3>1, RetiredFacts
    <3>3. ActiveAt(nodes', d) = ActiveAt(nodes, d) \ {h}
      BY <2>1, MarkedActive
    <3>4. IsFiniteSet(ActiveAt(diskNodes, d) \ ActiveAt(nodes, d))
      BY CountFacts, DifferenceFacts
    <3>5. ActiveAt(diskNodes', d) \ ActiveAt(nodes', d) \in SUBSET (ActiveAt(diskNodes, d) \ ActiveAt(nodes, d))
      BY <3>2, <3>3
    <3> QED
      BY <3>4, <3>5, FS_Subset
  <2>5. ASSUME NEW d \in 0 .. (MaxDepth - 1)
        PROVE  Cardinality(ActiveAt(diskNodes', d) \ ActiveAt(nodes', d)) <= b
    <3> DEFINE before == Cardinality(ActiveAt(diskNodes, d) \ ActiveAt(nodes, d))
               after == Cardinality(ActiveAt(diskNodes', d) \ ActiveAt(nodes', d))
    <3>1. before <= b
      BY <2>2 DEF Excess
    <3>2. after <= before
      BY <2>4
    <3>3. before \in Nat
      BY CountFacts
    <3>4. after \in Nat
      <4>1. IsNodes(nodes', made') /\ IsNodes(diskNodes', made') /\ made' \in Nat
        BY <1>1 DEF Typed, TypeOK, IsNodes
      <4>2. IsFiniteSet(ActiveAt(nodes', d)) /\ IsFiniteSet(ActiveAt(diskNodes', d))
        BY <4>1, ActiveFacts
      <4> QED
        BY <4>2, DifferenceFacts
    <3> HIDE DEF before, after
    <3>5. after <= b
      BY <3>1, <3>2, <3>3, <3>4
    <3> QED
      BY <3>5 DEF after
  <2> DEFINE c == Count(nodes, depth)
             l == Len(children)
  <2>6. c - l <= a /\ l <= CondensationCount /\ c \in Nat /\ l \in Nat /\ l > 0
    <3>1. children # <<>> /\ children \in Seq(DOMAIN nodes)
      BY <2>1 DEF Typed, TypeOK
    <3> QED
      BY <1>3, <2>1, <2>2, <3>1 DEF Excess
  <2>7. \A d \in 0 .. (MaxDepth - 1) : d # depth => Count(nodes, d) < CondensationCount + a
    BY <2>2 DEF Excess
  <2> HIDE DEF c, l
  <2>8. (c - 1) - (l - 1) <= a /\ l - 1 <= CondensationCount /\ (l = 1 => c - 1 < CondensationCount + a)
    BY <1>2, <2>6
  <2>9. pc' # "mark" => l = 1
    BY <2>1 DEF l
  <2>10. a + b <= CondensationCount * fails' + crashes'
    BY <2>1, <2>2 DEF Excess
  <2>11. \A d : Count(nodes, d)' = Count(nodes', d)
    BY DEF Count
  <2>12. Count(nodes', depth) = c - 1 /\ Len(children') = l - 1
    BY <2>3 DEF c, l
  <2>13. \A d \in 0 .. (MaxDepth - 1) : ~(pc' = "mark" /\ d = depth) => Count(nodes', d) < CondensationCount + a
    BY <2>3, <2>7, <2>8, <2>9, <2>12
  <2>14. Excess(a, b)'
    BY <2>1, <2>3, <2>5, <2>8, <2>10, <2>11, <2>12, <2>13 DEF Excess
  <2> QED
    BY <1>5, <2>14
<1>16. ASSUME NEW half \in BOOLEAN, LoadFails(half)
       PROVE  Bounded'
  <2>1. /\ pc = "idle" /\ Unloaded /\ pc' = "idle"
        /\ UNCHANGED <<nodes, diskNodes, crashes>> /\ fails' = fails + 1
    BY <1>16 DEF LoadFails, Fails
  <2>2. \A d \in 0 .. (MaxDepth - 1) : Count(diskNodes, d) < Limit
    BY <2>1 DEF Bounded
  <2>3. PICK b \in Nat : b = CondensationCount * fails' + crashes /\ b = Limit
    BY <1>2, <2>1
  <2>4. \A d : ActiveAt(nodes, d) = {}
    BY <2>1 DEF Unloaded, ActiveAt, Active
  <2>5. \A d : Count(nodes, d) = 0
    BY <2>4, FS_EmptySet DEF Count
  <2>6. \A d : Cardinality(ActiveAt(diskNodes, d) \ ActiveAt(nodes, d)) = Count(diskNodes, d)
    <3>1. \A d : ActiveAt(diskNodes, d) \ ActiveAt(nodes, d) = ActiveAt(diskNodes, d)
      BY <2>4
    <3> QED
      BY <3>1 DEF Count
  <2> HIDE DEF Limit
  <2>7. \A d \in 0 .. (MaxDepth - 1) : Cardinality(ActiveAt(diskNodes, d) \ ActiveAt(nodes, d)) <= b
    BY <1>2, <1>3, <2>2, <2>3, <2>6
  <2>8. 0 + b <= CondensationCount * fails' + crashes'
    BY <1>2, <2>1, <2>3
  <2>9. ASSUME NEW a \in Nat, a = 0
        PROVE  Bounded'
    <3>1. \A d \in 0 .. (MaxDepth - 1) : Count(nodes, d) < CondensationCount + a
      BY <1>2, <2>5, <2>9
    <3>2. a + b <= CondensationCount * fails' + crashes'
      BY <2>8, <2>9
    <3>3. Excess(a, b)'
      BY <2>1, <2>7, <3>1, <3>2 DEF Excess, Count
    <3> QED
      BY <1>5, <2>3, <3>3
  <2> QED
    BY <2>9
\* A store call that fails leaves the excess, and grants a condensation more.
<1>17. ASSUME Fails, NEW a \in Nat, NEW b \in Nat, Excess(a, b)
       PROVE  a + b + CondensationCount <= Limit /\ Limit = CondensationCount * fails' + crashes'
  <2>1. fails' = fails + 1 /\ crashes' = crashes
    BY <1>17 DEF Fails
  <2>2. a + b <= CondensationCount * fails + crashes
    BY <1>17 DEF Excess
  <2> QED
    BY <1>2, <2>1, <2>2
<1>18. ASSUME SaveMessagesFails \/ SaveChunkFails \/ SaveParentFails
       PROVE  Bounded'
  <2>1. Fails /\ pc \notin {"idle", "mark"} /\ pc' = "idle" /\ UNCHANGED <<nodes, diskNodes>>
    BY <1>18 DEF SaveMessagesFails, SaveChunkFails, SaveParentFails, Fails
  <2>2. PICK a \in Nat, b \in Nat : Excess(a, b)
    BY <2>1 DEF Bounded
  <2>3. a + b <= CondensationCount * fails' + crashes'
    <3> HIDE DEF Limit
    <3>1. a + b + CondensationCount <= Limit /\ Limit = CondensationCount * fails' + crashes'
      BY <1>17, <2>1, <2>2
    <3>2. a + b + 1 <= Limit
      BY <1>2, <3>1
    <3> QED
      BY <1>2, <3>1, <3>2
  <2>4. Excess(a, b)'
    BY <2>1, <2>2, <2>3 DEF Excess, Count
  <2> QED
    BY <1>5, <2>4
<1>19. ASSUME MarkChildFails
       PROVE  Bounded'
  <2> DEFINE h == Head(children)
  <2>1. Fails /\ pc = "mark" /\ pc' = "idle" /\ nodes' = MarkedNodes /\ diskNodes' = diskNodes
    BY <1>19 DEF MarkChildFails, Fails
  <2>2. PICK a \in Nat, b \in Nat : Excess(a, b)
    BY <2>1 DEF Bounded
  <2>3. \A d : Count(nodes', d) = IF d = depth THEN Count(nodes, d) - 1 ELSE Count(nodes, d)
    BY <2>1, <2>2, MarkedCounts
  <2>4. ASSUME NEW d \in 0 .. (MaxDepth - 1)
        PROVE  Cardinality(ActiveAt(diskNodes', d) \ ActiveAt(nodes', d)) <= b + 1
    <3> DEFINE X == ActiveAt(diskNodes, d) \ ActiveAt(nodes, d)
               Y == ActiveAt(diskNodes', d) \ ActiveAt(nodes', d)
    <3>1. ActiveAt(nodes', d) = ActiveAt(nodes, d) \ {h}
      BY <2>1, MarkedActive
    <3>2. Y \in SUBSET (X \cup {h})
      BY <2>1, <3>1
    <3>3. IsFiniteSet(X) /\ Cardinality(X) \in Nat /\ Cardinality(X) <= b
      <4>1. IsFiniteSet(X)
        BY CountFacts, DifferenceFacts
      <4>2. Cardinality(X) <= b
        BY <2>2 DEF Excess
      <4> QED
        BY <4>1, <4>2, CountFacts
    <3> HIDE DEF X, Y, h
    <3>4. IsFiniteSet(X \cup {h}) /\ Cardinality(X \cup {h}) <= Cardinality(X) + 1 /\ Cardinality(X \cup {h}) \in Nat
      <4>1. IsFiniteSet(X \cup {h}) /\ Cardinality(X \cup {h}) = IF h \in X THEN Cardinality(X) ELSE Cardinality(X) + 1
        BY <3>3, FS_AddElement
      <4> QED
        BY <3>3, <4>1
    <3>5. Cardinality(Y) <= Cardinality(X \cup {h}) /\ Cardinality(Y) \in Nat
      BY <3>2, <3>4, FS_Subset, FS_CardinalityType
    <3>6. Cardinality(Y) <= b + 1
      BY <3>3, <3>4, <3>5
    <3> QED
      BY <3>6 DEF Y
  <2>5. ASSUME NEW d \in 0 .. (MaxDepth - 1)
        PROVE  Count(nodes', d) < CondensationCount + a
    <3> DEFINE c == Count(nodes, d)
    <3>1. c \in Nat
      BY <1>3
    <3>2. CASE d = depth
      <4>1. c - Len(children) <= a /\ Len(children) <= CondensationCount /\ Len(children) \in Nat
        BY <2>1, <2>2, <3>2 DEF Excess, Typed, TypeOK
      <4>2. Count(nodes', d) = c - 1
        BY <2>3, <3>2
      <4> HIDE DEF c
      <4> QED
        BY <1>2, <3>1, <4>1, <4>2
    <3>3. CASE d # depth
      <4>1. c < CondensationCount + a
        BY <2>2, <3>3 DEF Excess
      <4> QED
        BY <2>3, <3>3, <4>1
    <3> QED
      BY <3>2, <3>3
  <2>6. a + (b + 1) <= CondensationCount * fails' + crashes'
    <3> HIDE DEF Limit
    <3>1. a + b + CondensationCount <= Limit /\ Limit = CondensationCount * fails' + crashes'
      BY <1>17, <2>1, <2>2
    <3>2. a + b + 1 <= Limit
      BY <1>2, <3>1
    <3> QED
      BY <1>2, <3>1, <3>2
  <2>7. b + 1 \in Nat /\ Excess(a, b + 1)'
    BY <2>1, <2>4, <2>5, <2>6 DEF Excess, Count
  <2> QED
    BY <1>5, <2>7
<1>20. CASE UNCHANGED vars
  BY <1>6, <1>20 DEF vars, Unloaded
<1> QED
  BY <1>7, <1>8, <1>9, <1>10, <1>11, <1>13, <1>14, <1>15, <1>16, <1>18, <1>19, <1>20 DEF Next, StoreFails

\* Between compactions fewer nodes than one condensation takes are active at
\* each depth, but for those the faults so far account for.
THEOREM ActiveBoundedHolds == Spec => []ActiveBounded
<1> USE LcmAssumption
<1>1. Init => Typed /\ Bounded
  BY TypedInit, BoundedInit
<1>2. Typed /\ Bounded /\ [Next]_vars => Typed' /\ Bounded'
  BY TypedStep, BoundedStep
<1>3. Typed /\ Bounded => ActiveBounded
  <2> SUFFICES ASSUME Typed, Bounded, pc = "idle", NEW d \in 0 .. (MaxDepth - 1)
               PROVE  Count(nodes, d) < CondensationCount * (1 + fails) + crashes
    BY DEF ActiveBounded, Count
  <2>1. CASE Unloaded
    <3>1. Count(nodes, d) = 0
      <4>1. ActiveAt(nodes, d) = {}
        BY <2>1 DEF Unloaded, ActiveAt, Active
      <4> QED
        BY <4>1, FS_EmptySet DEF Count
    <3> QED
      BY <3>1, Numbers
  <2>2. CASE ~Unloaded
    <3>1. PICK a \in Nat, b \in Nat : Excess(a, b)
      BY <2>2 DEF Bounded
    <3>2. Count(nodes, d) < CondensationCount + a /\ a + b <= CondensationCount * fails + crashes
      BY <3>1 DEF Excess
    <3>3. Count(nodes, d) \in Nat
      BY CountFacts
    <3> QED
      BY <3>2, <3>3, Numbers
  <2> QED
    BY <2>1, <2>2
<1> QED
  BY <1>1, <1>2, <1>3, PTL DEF Spec

-----------------------------------------------------------------------------
(* The order of the summaries.                                             *)

\* The messages of a part of a sequence.
LEMMA PartFacts ==
    ASSUME NEW s \in Seq(Message), NEW a \in Nat \ {0}, NEW b \in 0 .. Len(s)
    PROVE  Ids(SubSeq(s, a, b)) = {s[i].id : i \in a .. b}
<1> DEFINE t == SubSeq(s, a, b)
<1>1. CASE a <= b
  <2>1. /\ Len(t) = b - a + 1
        /\ \A i \in 1 .. Len(t) : t[i] = s[a + i - 1] /\ a + i - 1 \in a .. b
        /\ \A j \in a .. b : j - a + 1 \in 1 .. Len(t) /\ t[j - a + 1] = s[j]
    BY <1>1
  <2> HIDE DEF t
  <2>2. Ids(t) \subseteq {s[i].id : i \in a .. b}
    BY <2>1 DEF Ids
  <2>3. \A j \in a .. b : s[j].id \in Ids(t)
    BY <2>1 DEF Ids
  <2> QED
    BY <2>2, <2>3 DEF t
<1>2. CASE a > b
  <2>1. t = <<>> /\ a .. b = {}
    BY <1>2
  <2> HIDE DEF t
  <2> QED
    BY <2>1, EmptyFacts DEF t
<1> QED
  BY <1>1, <1>2

\* In order, the messages of a prefix come before the others, and those up to a
\* place are those up to an earlier one and those between.
LEMMA PrefixFacts ==
    ASSUME NEW s \in Seq(Message), Sorted(s), NEW l \in 0 .. Len(s), NEW m \in l .. Len(s)
    PROVE  LET P == Ids(SubSeq(s, 1, l))
               Q == Ids(SubSeq(s, l + 1, m))
               R == Ids(SubSeq(s, 1, m))
           IN  /\ R = P \cup Q
               /\ Q \subseteq Ids(s) \ P
               /\ R \subseteq Ids(s)
               /\ Earlier(R, Ids(s) \ R)
               /\ m < Len(s) => Ids(s) \ R # {}
<1> DEFINE P == Ids(SubSeq(s, 1, l))
           Q == Ids(SubSeq(s, l + 1, m))
           R == Ids(SubSeq(s, 1, m))
<1>1. /\ l \in Nat /\ m \in Nat /\ m \in 0 .. Len(s) /\ Len(s) \in Nat
      /\ 1 \in Nat \ {0} /\ l + 1 \in Nat \ {0}
  OBVIOUS
<1>2. P = {s[i].id : i \in 1 .. l}
  BY <1>1, PartFacts
<1>3. Q = {s[i].id : i \in (l + 1) .. m}
  BY <1>1, PartFacts
<1>4. R = {s[i].id : i \in 1 .. m}
  BY <1>1, PartFacts
<1> HIDE DEF P, Q, R
<1>5. 1 .. m = (1 .. l) \cup ((l + 1) .. m) /\ 1 .. m \subseteq 1 .. Len(s)
  BY <1>1
<1>6. \A i, j \in 1 .. Len(s) : i < j => s[i].id < s[j].id
  BY DEF Sorted
<1>7. \A i \in 1 .. Len(s) : s[i].id \in Nat
  <2> SUFFICES ASSUME NEW i \in 1 .. Len(s)
               PROVE  s[i].id \in Nat
    OBVIOUS
  <2>1. s[i] \in Message
    OBVIOUS
  <2> QED
    BY <2>1 DEF Message
<1>8. R = P \cup Q
  BY <1>2, <1>3, <1>4, <1>5
<1>9. R \subseteq Ids(s)
  BY <1>4, <1>5 DEF Ids
<1>10. Q \subseteq Ids(s) \ P
  <2> SUFFICES ASSUME NEW i \in (l + 1) .. m, NEW j \in 1 .. l, s[i].id = s[j].id
               PROVE  FALSE
    BY <1>2, <1>3, <1>8, <1>9
  <2>1. i \in 1 .. Len(s) /\ j \in 1 .. Len(s) /\ j < i
    BY <1>1
  <2> QED
    BY <1>6, <1>7, <2>1
<1>11. Earlier(R, Ids(s) \ R)
  <2> SUFFICES ASSUME NEW i \in 1 .. m, NEW j \in 1 .. Len(s), s[j].id \notin R
               PROVE  s[i].id < s[j].id
    BY <1>4 DEF Earlier, Ids
  <2>1. ~(j <= m)
    BY <1>4
  <2>2. i \in 1 .. Len(s) /\ i < j
    BY <1>1, <2>1
  <2> QED
    BY <1>6, <2>2
<1>12. ASSUME m < Len(s)
       PROVE  Ids(s) \ R # {}
  <2>1. Len(s) \in 1 .. Len(s)
    BY <1>1, <1>12
  <2>2. s[Len(s)].id \notin R
    <3> SUFFICES ASSUME NEW i \in 1 .. m, s[i].id = s[Len(s)].id
                 PROVE  FALSE
      BY <1>4
    <3>1. i \in 1 .. Len(s) /\ i < Len(s)
      BY <1>1, <1>12
    <3> QED
      BY <1>6, <1>7, <2>1, <3>1
  <2> QED
    BY <2>1, <2>2 DEF Ids
<1> QED
  BY <1>8, <1>9, <1>10, <1>11, <1>12 DEF P, Q, R

\* The place up to which the messages are rolled once the chunk is.
ChunkEnd == Smaller(chunk + FreshTail, SafeTailStart(raw))

LEMMA ChunkFacts ==
    ASSUME LcmAssumption, Typed, Ordered, chunk < SafeTailStart(raw)
    PROVE  LET P == Ids(SubSeq(raw, 1, chunk))
               R == Ids(SubSeq(raw, 1, ChunkEnd))
           IN  /\ R = P \cup ChunkIds
               /\ ChunkIds \subseteq Ids(raw) \ P
               /\ R \subseteq Ids(raw)
               /\ Earlier(R, Ids(raw) \ R)
               /\ Ids(raw) \ R # {}
<1>1. /\ raw \in Seq(Message) /\ Sorted(raw) /\ chunk \in Nat
      /\ FreshTail \in Nat /\ FreshTail > 0
  BY DEF Typed, TypeOK, Ordered, LcmAssumption
<1>2. SafeTailStart(raw) \in 0 .. Len(raw) /\ (raw # <<>> => SafeTailStart(raw) < Len(raw))
  BY <1>1, SafeTailFacts
<1>3. raw # <<>>
  BY <1>1, <1>2
<1>4. chunk \in 0 .. Len(raw) /\ ChunkEnd \in chunk .. Len(raw) /\ ChunkEnd < Len(raw)
  BY <1>1, <1>2, <1>3 DEF ChunkEnd, Smaller
<1>5. ChunkIds = Ids(SubSeq(raw, chunk + 1, ChunkEnd))
  BY DEF ChunkIds, ChunkEnd
<1> QED
  BY <1>1, <1>4, <1>5, PrefixFacts

\* Without faults nothing is in excess.
LEMMA UntroubledFacts ==
    ASSUME LcmAssumption, Typed, Bounded, Untroubled, pc \notin {"idle", "mark"},
           NEW d \in 0 .. (MaxDepth - 1)
    PROVE  Count(nodes, d) < CondensationCount
<1>1. PICK a \in Nat, b \in Nat : Excess(a, b)
  BY DEF Bounded
<1>2. CondensationCount * fails = 0
  <2>1. fails = 0 /\ CondensationCount \in Nat
    BY Numbers DEF Untroubled
  <2> QED
    BY <2>1
<1>3. a + b <= CondensationCount * fails + crashes /\ Count(nodes, d) < CondensationCount + a
  BY <1>1 DEF Excess
<1>4. a = 0
  <2>1. crashes = 0
    BY DEF Untroubled
  <2> QED
    BY <1>2, <1>3, <2>1
<1> QED
  BY <1>3, <1>4, Numbers

\* A compaction that goes on with nodes in alignment, of which those at the
\* depth considered are no more than one condensation takes, and those at any
\* other depth fewer, keeps the alignment: only the depth considered can be
\* condensed, and all its nodes are.
LEMMA ContinueTold ==
    ASSUME LcmAssumption, Typed, pc \in {"chunk", "parent"}, chunk < SafeTailStart(raw), Ordered,
           NEW k \in Nat, NEW ns, IsNodes(ns, k), nodes' = ns, diskNodes' = ns, diskRaw' = diskRaw,
           NEW d \in 0 .. MaxDepth, NEW r, Continue(ns, d, r),
           r = Ids(SubSeq(raw, 1, ChunkEnd)),
           \A n \in DOMAIN ns : Earlier(ns[n].covers, Ids(raw) \ r) /\ \A a \in ns[n].covers : a <= spoken,
           Aligned(ns),
           \A n \in Active(ns) : ns[n].depth >= d,
           \A f \in 0 .. (MaxDepth - 1) :
               Count(ns, f) <= CondensationCount /\ (f # d => Count(ns, f) < CondensationCount)
    PROVE  Told'
<1>1. /\ CondensationCount \in Nat \ {0} /\ MaxDepth \in Nat /\ FreshTail \in Nat \ {0}
      /\ raw \in Seq(Message) /\ chunk \in Nat /\ SafeTailStart(raw) \in 0 .. Len(raw)
  BY SafeTailFacts DEF LcmAssumption, Typed, TypeOK
<1>2. raw # <<>>
  BY <1>1
<1>3. ASSUME NEW e \in d .. (MaxDepth - 1), Condensable(ns, e), Condense(ns, e, r)
      PROVE  Told'
  <2>1. e \in 0 .. (MaxDepth - 1) /\ Count(ns, e) \in Nat
    BY ActiveFacts DEF Count
  <2>2. e = d /\ Count(ns, e) = CondensationCount
    <3> DEFINE c == Count(ns, e)
    <3>1. c >= CondensationCount /\ c <= CondensationCount /\ (e # d => c < CondensationCount)
      BY <1>3, <2>1 DEF Condensable, Count
    <3> HIDE DEF c
    <3>2. c = CondensationCount /\ e = d
      BY <1>1, <2>1, <3>1 DEF c
    <3> QED
      BY <3>2 DEF c
  <2> DEFINE kids == Oldest(ns, e)
  <2>3. /\ kids \in Seq(ActiveAt(ns, e)) /\ Len(kids) = CondensationCount
        /\ \A n \in ActiveAt(ns, e) : \E i \in 1 .. CondensationCount : kids[i] = n
    BY <1>3, <2>2, OldestFacts DEF Count
  <2> HIDE DEF kids
  <2>4. DOMAIN kids = 1 .. CondensationCount /\ \A i \in DOMAIN kids : kids[i] \in ActiveAt(ns, e)
    BY <2>3
  <2>5. {kids[i] : i \in DOMAIN kids} = ActiveAt(ns, e)
    BY <2>3, <2>4
  <2>6. /\ pc' = "mark" /\ depth' = e /\ children' = kids /\ rolled' = r
        /\ parent'.covers = UNION {ns[kids[i]].covers : i \in DOMAIN kids}
        /\ UNCHANGED <<raw, chunk, spoken>>
    BY <1>3 DEF Condense, context, kids
  <2>7. RolledUpto' = ChunkEnd
    BY <2>6 DEF RolledUpto, ChunkEnd
  <2>8. parent'.covers \subseteq UNION {ns[n].covers : n \in DOMAIN ns}
    BY <2>4, <2>6 DEF ActiveAt, Active
  <2>9. ASSUME NEW n \in Active(ns), n \notin ActiveAt(ns, e)
        PROVE  ns[n].depth > e /\ Earlier(ns[n].covers, parent'.covers)
    <3>1. ns[n].depth >= e /\ ns[n].depth # e /\ ns[n].depth \in Nat /\ n \in Nat
      <4>1. n \in DOMAIN ns /\ ns[n] \in Node /\ n \in 1 .. k
        BY DEF Active, IsNodes
      <4> QED
        BY <2>2, <2>9, <4>1 DEF ActiveAt, Node
    <3>2. ASSUME NEW i \in DOMAIN kids
          PROVE  Earlier(ns[n].covers, ns[kids[i]].covers)
      <4>1. kids[i] \in Active(ns) /\ ns[kids[i]].depth = e /\ kids[i] \in Nat
        BY <2>4 DEF ActiveAt, Active, IsNodes
      <4>2. ~(kids[i] < n)
        <5> SUFFICES ASSUME kids[i] < n PROVE FALSE
          OBVIOUS
        <5>1. ns[kids[i]].depth >= ns[n].depth
          BY <4>1 DEF Aligned
        <5> QED
          BY <2>1, <3>1, <4>1, <5>1
      <4>3. n < kids[i]
        BY <2>4, <2>9, <3>1, <4>1, <4>2
      <4> QED
        BY <4>1, <4>3 DEF Aligned
    <3>3. Earlier(ns[n].covers, parent'.covers)
      BY <2>6, <3>2 DEF Earlier
    <3> QED
      BY <2>1, <3>1, <3>3
  <2>10. {children'[i] : i \in DOMAIN children'} = ActiveAt(ns, e)
    BY <2>5, <2>6
  <2>11. Before(nodes, Ids(raw) \ rolled)'
    BY <2>6 DEF Before
  <2>12. Aligned(nodes)'
    BY DEF Aligned
  <2> QED
    BY <1>2, <2>6, <2>7, <2>8, <2>9, <2>10, <2>11, <2>12 DEF Told, Condensing
<1>4. ASSUME NextChunk(r), chunk + FreshTail < SafeTailStart(raw)
      PROVE  Told'
  <2>1. /\ chunk' = chunk + FreshTail /\ rolled' = r /\ pc' = "chunk"
        /\ UNCHANGED <<raw, spoken>>
    BY <1>4 DEF NextChunk, context
  <2>2. RolledUpto' = ChunkEnd
    BY <1>4, <2>1 DEF RolledUpto, ChunkEnd, Smaller
  <2>3. Before(nodes, Ids(raw) \ rolled)'
    BY <2>1 DEF Before
  <2>4. Aligned(nodes)'
    BY DEF Aligned
  <2> QED
    BY <1>2, <1>4, <2>1, <2>2, <2>3, <2>4 DEF Told, Condensing
<1>5. ASSUME Finish(ns, r)
      PROVE  Told'
  <2>1. /\ Ids(raw') = Ids(raw) \ r /\ Ids(fresh') = {} /\ pc' = "idle" /\ spoken' = spoken
        /\ rolled' = {} /\ shown' = InOrder(Active(ns))
    BY <1>1, <1>5, FinishOrdered DEF Ordered, Finish, ResetLocals
  <2>2. Ids(raw) \ r # {}
    BY ChunkFacts
  <2>3. raw' # <<>>
    BY <2>1, <2>2, EmptyFacts
  <2>4. Before(nodes, Ids(raw) \ rolled)' /\ Before(nodes, Ids(fresh))'
    BY <2>1 DEF Before, Earlier
  <2>5. Aligned(nodes)'
    BY DEF Aligned
  <2>6. /\ \A i \in 1 .. Len(shown') : shown'[i] \in Active(ns)
        /\ \A i, j \in 1 .. Len(shown') : i < j => shown'[i] < shown'[j]
    <3>1. Active(ns) \in SUBSET Nat /\ IsFiniteSet(Active(ns))
      BY ActiveFacts
    <3> QED
      BY <2>1, <3>1, InOrderFacts
  <2> QED
    BY <2>1, <2>3, <2>4, <2>5, <2>6 DEF Told, Condensing
<1> QED
  BY <1>3, <1>4, <1>5, ContinueFacts

LEMMA ToldInit == Init => Told
<1> SUFFICES ASSUME Init PROVE Told
  OBVIOUS
<1>1. DOMAIN nodes = {} /\ Active(nodes) = {} /\ diskNodes = nodes /\ Len(shown) = 0
  BY DEF Init, NoNodes, Active
<1> QED
  BY <1>1, EmptyFacts DEF Init, Told, Before, Aligned, Condensing

LEMMA ToldStep ==
    LcmAssumption /\ Typed /\ Ordered /\ Bounded /\ Told /\ [Next]_vars => Told'
<1> SUFFICES ASSUME LcmAssumption, Typed, Ordered, Bounded, Told, [Next]_vars, Untroubled'
             PROVE  Told'
  BY DEF Told
<1> USE DEF context, memory, disk, locals, troubles
<1>1. /\ raw \in Seq(Message) /\ diskRaw \in Seq(Message) /\ unsaved \in Seq(Message)
      /\ tail \in Seq(Message) /\ fresh \in Seq(Message)
      /\ made \in Nat /\ spoken \in Nat /\ fails \in Nat /\ crashes \in Nat
  BY DEF Typed, TypeOK
<1>2. ~Crash /\ ~StoreFails
  BY <1>1 DEF Untroubled, Crash, StoreFails, LoadFails, SaveMessagesFails, SaveChunkFails,
              MarkChildFails, SaveParentFails, Fails
<1>3. Untroubled
  BY <1>2 DEF Next, Speak, Forget, Begin, SaveMessages, SaveChunk, MarkChild, SaveParent, vars, Untroubled
<1>4. /\ diskNodes = nodes
      /\ raw = <<>> => diskRaw = <<>>
      /\ Before(nodes, Ids(raw) \ rolled)
      /\ pc = "idle" => Before(nodes, Ids(fresh))
      /\ Aligned(nodes)
  BY <1>3 DEF Told
<1>5. IsNodes(nodes, made) /\ made + 1 \in Nat
  BY TypedNodes
<1>6. nodes' = nodes => Aligned(nodes)'
  BY <1>4 DEF Aligned
<1>7. ASSUME NEW tool \in BOOLEAN, NEW long \in BOOLEAN, Speak(tool, long)
      PROVE  Told'
  <2> DEFINE m == [id |-> spoken + 1, tool |-> tool, long |-> long]
  <2>1. /\ pc = "idle" /\ pc' = "idle" /\ spoken' = spoken + 1 /\ fresh' = fresh \o <<m>>
        /\ UNCHANGED <<shown, memory, disk, locals>>
    BY <1>1, <1>7 DEF Speak
  <2>2. m \in Message /\ m.id = spoken + 1
    BY <1>1 DEF Message
  <2> HIDE DEF m
  <2>3. Ids(fresh') = Ids(fresh) \cup {spoken + 1}
    <3>1. <<m>> \in Seq(Message) /\ Ids(<<m>>) = {spoken + 1}
      BY <2>2, OneFacts
    <3>2. Ids(fresh \o <<m>>) = Ids(fresh) \cup Ids(<<m>>)
      BY <1>1, <3>1, ConcatFacts
    <3> QED
      BY <2>1, <3>1, <3>2
  <2>4. ASSUME NEW n \in DOMAIN nodes, NEW a \in nodes[n].covers
        PROVE  a \in Nat /\ a <= spoken /\ a < spoken + 1 /\ a <= spoken + 1
    <3>1. a \in Nat /\ a <= spoken
      BY <1>4, <1>5 DEF Before, IsNodes, Node
    <3> QED
      BY <1>1, <3>1
  <2>5. Before(nodes, Ids(raw) \ rolled)' /\ Before(nodes, Ids(fresh))'
    BY <1>4, <2>1, <2>3, <2>4 DEF Before, Earlier
  <2>6. Aligned(nodes)'
    BY <1>4, <2>1 DEF Aligned
  <2> QED
    BY <1>3, <2>1, <2>5, <2>6 DEF Told, Condensing
<1>8. ASSUME Forget
      PROVE  Told'
  <2>1. /\ pc = "idle" /\ pc' = "idle" /\ fresh' = <<>> /\ shown' = <<>>
        /\ UNCHANGED <<spoken, memory, disk, locals>>
    BY <1>8 DEF Forget
  <2>2. Before(nodes, Ids(raw) \ rolled)' /\ Before(nodes, Ids(fresh))' /\ Aligned(nodes)'
    BY <1>4, <1>6, <2>1, EmptyFacts DEF Before, Earlier
  <2> QED
    BY <1>3, <2>1, <2>2 DEF Told, Condensing
<1>9. ASSUME Begin
      PROVE  Told'
  <2> DEFINE held == IF Unloaded THEN diskRaw ELSE raw
             new == NewMessages(held)
  <2>1. /\ pc = "idle" /\ raw' = held \o new /\ pc' = "save"
        /\ nodes' = nodes
        /\ UNCHANGED <<context, disk, rolled, chunk>>
    BY <1>4, <1>9 DEF Begin
  <2>2. held \in Seq(Message) /\ held = raw /\ rolled = {}
    BY <1>1, <1>4, <2>1 DEF Unloaded, Typed
  <2>3. /\ tail \o fresh \in Seq(Message)
        /\ Ids(tail \o fresh) = Ids(tail) \cup Ids(fresh)
    BY <1>1, ConcatFacts
  <2> HIDE DEF held
  <2>4. new \in Seq(Message) /\ Ids(new) = (Ids(tail) \cup Ids(fresh)) \ Ids(held)
    BY <2>3, WithoutFacts DEF NewMessages
  <2> HIDE DEF new
  <2>5. Ids(raw') = Ids(raw) \cup Ids(new) /\ Ids(new) \subseteq Ids(fresh)
    BY <2>1, <2>2, <2>4, ConcatFacts DEF Ordered
  <2>6. Before(nodes, Ids(raw) \ rolled)'
    BY <1>4, <2>1, <2>2, <2>5 DEF Before, Earlier
  <2>7. raw' = <<>> => raw = <<>>
    <3>1. raw' = <<>> => Ids(raw) = {}
      BY <2>5, EmptyFacts
    <3> QED
      BY <1>1, <3>1, NoIds
  <2>8. Aligned(nodes)'
    BY <1>6, <2>1
  <2> QED
    BY <1>4, <2>1, <2>6, <2>7, <2>8 DEF Told, Condensing
<1>10. ASSUME SaveMessages
       PROVE  Told'
  <2>1. pc = "save" /\ diskRaw' = Saved(unsaved) /\ UNCHANGED <<nodes, diskNodes>>
    BY <1>10 DEF SaveMessages
  <2>2. rolled = {} /\ chunk = 0
    BY <2>1 DEF Typed
  <2>3. ASSUME raw = <<>>
        PROVE  diskRaw' = <<>>
    <3>1. Ids(unsaved) = {}
      BY <2>1, <2>3, EmptyFacts DEF Ordered
    <3>2. diskRaw' \in Seq(Message) /\ Ids(diskRaw') = Ids(diskRaw) \cup Ids(unsaved)
      BY <1>1, <2>1, SavedFacts
    <3>3. Ids(diskRaw) = {}
      BY <1>4, <2>3, EmptyFacts
    <3> QED
      BY <3>1, <3>2, <3>3, NoIds
  <2>4. CASE Rolls(raw) /\ UNCHANGED <<raw, context, chunk, rolled>> /\ pc' = "chunk"
    <3>1. SafeTailStart(raw) > 0
      <4>1. SafeTailStart(raw) \in Nat
        BY <1>1, SafeTailFacts
      <4>2. ASSUME SafeTailStart(raw) = 0
            PROVE  FALSE
        <5>1. {i \in 1 .. SafeTailStart(raw) : raw[i].long} = {}
          BY <4>2
        <5>2. 0 > ChunkThreshold
          BY <2>4, <5>1, FS_EmptySet DEF Rolls
        <5> QED
          BY <5>2 DEF LcmAssumption
      <4> QED
        BY <4>1, <4>2
    <3>2. Ids(SubSeq(raw, 1, 0)) = {}
      <4>1. SubSeq(raw, 1, 0) = <<>>
        BY <1>1
      <4> QED
        BY <4>1, EmptyFacts
    <3>3. RolledUpto' = 0
      BY <2>2, <2>4 DEF RolledUpto
    <3>4. Before(nodes, Ids(raw) \ rolled)' /\ Aligned(nodes)'
      BY <1>4, <1>6, <2>1, <2>4 DEF Before
    <3> QED
      BY <1>4, <2>1, <2>2, <2>3, <2>4, <3>1, <3>2, <3>3, <3>4 DEF Told, Condensing
  <2>5. CASE Finish(nodes, {})
    <3>1. /\ Ids(raw') = Ids(raw) /\ Ids(fresh') = {} /\ pc' = "idle" /\ spoken' = spoken
          /\ rolled' = {} /\ shown' = InOrder(Active(nodes))
      <4>1. /\ Ids(raw') = Ids(raw) \ {} /\ Ids(fresh') = {} /\ pc' = "idle" /\ spoken' = spoken
        BY <1>1, <2>5, FinishOrdered DEF Ordered
      <4>2. rolled' = {} /\ shown' = InOrder(Active(nodes))
        BY <2>5 DEF Finish, ResetLocals
      <4> QED
        BY <4>1, <4>2
    <3>2. raw' = <<>> => raw = <<>>
      <4>1. raw' = <<>> => Ids(raw) = {}
        BY <3>1, EmptyFacts
      <4> QED
        BY <1>1, <4>1, NoIds
    <3>3. Before(nodes, Ids(raw) \ rolled)' /\ Before(nodes, Ids(fresh))' /\ Aligned(nodes)'
      BY <1>4, <1>6, <2>1, <2>2, <3>1 DEF Before, Earlier
    <3>4. /\ \A i \in 1 .. Len(shown') : shown'[i] \in Active(nodes)
          /\ \A i, j \in 1 .. Len(shown') : i < j => shown'[i] < shown'[j]
      <4>1. Active(nodes) \in SUBSET Nat /\ IsFiniteSet(Active(nodes))
        BY <1>5, TypedNodes, ActiveFacts
      <4> QED
        BY <3>1, <4>1, InOrderFacts
    <3> QED
      BY <1>4, <2>1, <2>3, <3>1, <3>2, <3>3, <3>4 DEF Told, Condensing
  <2> QED
    BY <1>10, <2>4, <2>5 DEF SaveMessages
<1>11. ASSUME SaveChunk
       PROVE  Told'
  <2> DEFINE ns == With(nodes, made + 1, ChunkNode)
             r == rolled \cup ChunkIds
  <2>1. /\ pc = "chunk" /\ nodes' = ns /\ diskNodes' = ns /\ diskRaw' = diskRaw
        /\ Continue(ns, 0, r)
    BY <1>4, <1>11 DEF SaveChunk, ChunkNode, ChunkIds
  <2>2. chunk < SafeTailStart(raw) /\ rolled = Ids(SubSeq(raw, 1, chunk))
    BY <1>3, <2>1 DEF Told, RolledUpto
  <2>3. /\ r = Ids(SubSeq(raw, 1, ChunkEnd))
        /\ ChunkIds \subseteq Ids(raw) \ rolled
        /\ ChunkIds \subseteq Ids(raw)
        /\ Earlier(r, Ids(raw) \ r)
    BY <2>2, ChunkFacts
  <2>4. /\ ChunkNode \in Node /\ ChunkNode.parent = 0 /\ ChunkNode.covers = ChunkIds /\ ChunkNode.depth = 0
        /\ 0 \in 0 .. MaxDepth
    BY ChunkTyped DEF ChunkNode, LcmAssumption
  <2>5. /\ DOMAIN ns = DOMAIN nodes \cup {made + 1} /\ ns[made + 1] = ChunkNode
        /\ made + 1 \notin DOMAIN nodes
        /\ \A n \in DOMAIN nodes : ns[n] = nodes[n]
        /\ Active(ns) = Active(nodes) \cup {made + 1}
        /\ IsNodes(ns, made + 1)
    <3>1. Active(ns) = Active(nodes) \cup {made + 1} /\ made + 1 \notin DOMAIN nodes
      BY <1>1, <1>5, <2>4, AddedFacts
    <3>2. IsNodes(ns, made + 1)
      BY <1>1, <1>5, <2>4, WithIsNodes
    <3>3. /\ DOMAIN ns = DOMAIN nodes \cup {made + 1} /\ ns[made + 1] = ChunkNode
          /\ \A n \in DOMAIN nodes : n # made + 1 => ns[n] = nodes[n]
      BY DEF With
    <3> HIDE DEF ns
    <3> QED
      BY <3>1, <3>2, <3>3
  <2> HIDE DEF ns
  <2>6. \A n \in DOMAIN ns : Earlier(ns[n].covers, Ids(raw) \ r) /\ \A a \in ns[n].covers : a <= spoken
    <3>1. ASSUME NEW n \in DOMAIN nodes
          PROVE  Earlier(ns[n].covers, Ids(raw) \ r) /\ \A a \in ns[n].covers : a <= spoken
      BY <1>4, <2>5 DEF Before, Earlier
    <3>2. Earlier(ChunkIds, Ids(raw) \ r) /\ \A a \in ChunkIds : a <= spoken
      BY <2>3 DEF Earlier, Ordered
    <3> QED
      BY <2>4, <2>5, <3>1, <3>2
  <2>7. Aligned(ns)
    <3> SUFFICES ASSUME NEW m \in Active(ns), NEW n \in Active(ns), m < n
                 PROVE  Earlier(ns[m].covers, ns[n].covers) /\ ns[m].depth >= ns[n].depth
      BY DEF Aligned
    <3>1. m \in 1 .. (made + 1) /\ n \in 1 .. (made + 1) /\ ns[m].depth \in Nat
      BY <2>5 DEF Active, IsNodes, Node
    <3>2. m # made + 1
      BY <1>1, <3>1
    <3>3. m \in Active(nodes) /\ ns[m] = nodes[m] /\ m \in DOMAIN nodes
      BY <2>5, <3>2 DEF Active
    <3>4. CASE n = made + 1
      <4>1. Earlier(nodes[m].covers, ChunkIds)
        BY <1>4, <2>3, <3>3 DEF Before, Earlier
      <4> QED
        BY <2>4, <2>5, <3>1, <3>3, <3>4, <4>1
    <3>5. CASE n # made + 1
      <4>1. n \in Active(nodes) /\ ns[n] = nodes[n]
        BY <2>5, <3>5 DEF Active
      <4> QED
        BY <1>4, <3>3, <4>1 DEF Aligned
    <3> QED
      BY <3>4, <3>5
  <2>8. \A n \in Active(ns) : ns[n].depth >= 0
    BY <2>5 DEF Active, IsNodes, Node
  <2>9. ASSUME NEW f \in 0 .. (MaxDepth - 1)
        PROVE  Count(ns, f) <= CondensationCount /\ (f # 0 => Count(ns, f) < CondensationCount)
    <3> DEFINE c == Count(nodes, f)
    <3>1. c < CondensationCount
      BY <1>3, <2>1, UntroubledFacts
    <3>2. Count(ns, f) = IF f = 0 THEN c + 1 ELSE c
      BY <2>4, AddedCounts DEF ns
    <3>3. c \in Nat /\ CondensationCount \in Nat
      BY CountFacts, Numbers
    <3> HIDE DEF c
    <3> QED
      BY <3>1, <3>2, <3>3
  <2> HIDE DEF r
  <2> QED
    BY <1>5, <2>1, <2>2, <2>3, <2>4, <2>5, <2>6, <2>7, <2>8, <2>9, ContinueTold
<1>12. ASSUME MarkChild
       PROVE  Told'
  <2> DEFINE h == Head(children)
  <2>1. /\ pc = "mark" /\ nodes' = MarkedNodes
        /\ diskNodes' = With(nodes, h, MarkedNodes[h])
        /\ children' = Tail(children)
        /\ pc' \in {"mark", "parent"}
        /\ UNCHANGED <<context, raw, diskRaw, chunk, rolled, depth, parent>>
    BY <1>4, <1>12 DEF MarkChild
  <2>2. /\ Active(MarkedNodes) = Active(nodes) \ {h}
        /\ \A n \in DOMAIN nodes : /\ MarkedNodes[n].covers = nodes[n].covers
                                   /\ MarkedNodes[n].depth = nodes[n].depth
        /\ DOMAIN MarkedNodes = DOMAIN nodes
        /\ h \in DOMAIN nodes
        /\ \A n \in DOMAIN nodes : n # h => MarkedNodes[n] = nodes[n]
    BY <2>1, MarkedActive, MarkedFacts
  <2>3. diskNodes' = nodes'
    <3>1. MarkedNodes = [n \in DOMAIN nodes |-> MarkedNodes[n]]
      BY DEF MarkedNodes
    <3>2. With(nodes, h, MarkedNodes[h]) = [n \in DOMAIN nodes |-> MarkedNodes[n]]
      BY <2>2 DEF With
    <3> QED
      BY <2>1, <3>1, <3>2
  <2>4. {children[i] : i \in DOMAIN children} = {h} \cup {children'[i] : i \in DOMAIN children'}
    <3>1. children \in Seq(DOMAIN nodes) /\ children # <<>>
      BY <2>1 DEF Typed, TypeOK
    <3> DEFINE rest == Tail(children)
    <3>2. /\ rest \in Seq(DOMAIN nodes) /\ Len(rest) = Len(children) - 1 /\ Len(children) \in Nat
          /\ h = children[1] /\ Len(children) > 0
          /\ \A i \in 1 .. Len(rest) : rest[i] = children[i + 1]
      BY <3>1
    <3> HIDE DEF h, rest
    <3>3. DOMAIN children = 1 .. Len(children) /\ DOMAIN rest = 1 .. Len(rest)
      BY <3>1, <3>2
    <3>4. \A i \in 1 .. Len(children) : children[i] = h \/ (i - 1 \in 1 .. Len(rest) /\ rest[i - 1] = children[i])
      <4> SUFFICES ASSUME NEW i \in 1 .. Len(children), i # 1
                   PROVE  i - 1 \in 1 .. Len(rest) /\ rest[i - 1] = children[i]
        BY <3>2
      <4>1. i - 1 \in 1 .. Len(rest) /\ (i - 1) + 1 = i
        BY <3>2
      <4> QED
        BY <3>2, <4>1
    <3>5. \A i \in 1 .. Len(rest) : i + 1 \in 1 .. Len(children)
      BY <3>2
    <3>6. {children[i] : i \in 1 .. Len(children)} = {h} \cup {rest[i] : i \in 1 .. Len(rest)}
      <4>1. 1 \in 1 .. Len(children)
        BY <3>2
      <4> QED
        BY <3>2, <3>4, <3>5, <4>1
    <3> QED
      BY <2>1, <3>3, <3>6 DEF rest
  <2> HIDE DEF h, MarkedNodes
  <2>5. /\ chunk < SafeTailStart(raw) /\ rolled = Ids(SubSeq(raw, 1, RolledUpto))
        /\ parent.covers \subseteq UNION {nodes[n].covers : n \in DOMAIN nodes}
        /\ \A n \in Active(nodes) \ {children[i] : i \in DOMAIN children} :
              nodes[n].depth > depth /\ Earlier(nodes[n].covers, parent.covers)
    BY <1>3, <2>1 DEF Told, Condensing
  <2>6. RolledUpto' = RolledUpto
    BY <2>1 DEF RolledUpto
  <2>7. Before(nodes, Ids(raw) \ rolled)'
    BY <1>4, <2>1, <2>2 DEF Before
  <2>8. Aligned(nodes)'
    <3>1. \A n \in Active(nodes') : n \in Active(nodes) /\ n \in DOMAIN nodes
      BY <2>1, <2>2 DEF Active
    <3> QED
      BY <1>4, <2>1, <2>2, <3>1 DEF Aligned
  <2>9. parent.covers \subseteq UNION {nodes'[n].covers : n \in DOMAIN nodes'}
    BY <2>1, <2>2, <2>5
  <2>10. \A n \in Active(nodes') \ {children'[i] : i \in DOMAIN children'} :
            nodes'[n].depth > depth /\ Earlier(nodes'[n].covers, parent.covers)
    <3>1. \A n \in Active(nodes') : n \in Active(nodes) /\ n # h /\ n \in DOMAIN nodes
      BY <2>1, <2>2 DEF Active
    <3> QED
      BY <2>1, <2>2, <2>4, <2>5, <3>1
  <2> QED
    BY <1>4, <2>1, <2>3, <2>5, <2>6, <2>7, <2>8, <2>9, <2>10 DEF Told, Condensing
<1>13. ASSUME SaveParent
       PROVE  Told'
  <2> DEFINE ns == With(nodes, made + 1, parent)
             d == depth + 1
  <2>1. /\ pc = "parent" /\ nodes' = ns /\ diskNodes' = ns /\ diskRaw' = diskRaw
        /\ Continue(ns, d, rolled)
    BY <1>4, <1>13 DEF SaveParent
  <2>2. /\ parent \in Node /\ parent.parent = 0 /\ parent.depth = d /\ d \in 0 .. MaxDepth
        /\ depth \in Nat /\ children = <<>>
    BY <2>1 DEF Typed, TypeOK, Condensing, LcmAssumption
  <2>3. /\ chunk < SafeTailStart(raw) /\ rolled = Ids(SubSeq(raw, 1, ChunkEnd))
        /\ parent.covers \subseteq UNION {nodes[n].covers : n \in DOMAIN nodes}
        /\ \A n \in Active(nodes) : nodes[n].depth > depth /\ Earlier(nodes[n].covers, parent.covers)
    BY <1>3, <2>1, <2>2 DEF Told, Condensing, RolledUpto, ChunkEnd
  <2>4. /\ DOMAIN ns = DOMAIN nodes \cup {made + 1} /\ ns[made + 1] = parent
        /\ made + 1 \notin DOMAIN nodes
        /\ \A n \in DOMAIN nodes : ns[n] = nodes[n]
        /\ Active(ns) = Active(nodes) \cup {made + 1}
        /\ IsNodes(ns, made + 1)
    <3>1. Active(ns) = Active(nodes) \cup {made + 1} /\ made + 1 \notin DOMAIN nodes
      BY <1>1, <1>5, <2>2, AddedFacts
    <3>2. IsNodes(ns, made + 1)
      BY <1>1, <1>5, <2>2, WithIsNodes
    <3>3. /\ DOMAIN ns = DOMAIN nodes \cup {made + 1} /\ ns[made + 1] = parent
          /\ \A n \in DOMAIN nodes : n # made + 1 => ns[n] = nodes[n]
      BY DEF With
    <3> HIDE DEF ns
    <3> QED
      BY <3>1, <3>2, <3>3
  <2> HIDE DEF ns
  <2>5. \A n \in DOMAIN ns : Earlier(ns[n].covers, Ids(raw) \ rolled) /\ \A a \in ns[n].covers : a <= spoken
    <3>1. ASSUME NEW n \in DOMAIN nodes
          PROVE  Earlier(nodes[n].covers, Ids(raw) \ rolled) /\ \A a \in nodes[n].covers : a <= spoken
      BY <1>4 DEF Before
    <3>2. Earlier(parent.covers, Ids(raw) \ rolled) /\ \A a \in parent.covers : a <= spoken
      BY <2>3, <3>1 DEF Earlier
    <3> QED
      BY <2>4, <3>1, <3>2
  <2>6. Aligned(ns)
    <3> SUFFICES ASSUME NEW m \in Active(ns), NEW n \in Active(ns), m < n
                 PROVE  Earlier(ns[m].covers, ns[n].covers) /\ ns[m].depth >= ns[n].depth
      BY DEF Aligned
    <3>1. m \in 1 .. (made + 1) /\ n \in 1 .. (made + 1) /\ ns[m].depth \in Nat
      BY <2>4 DEF Active, IsNodes, Node
    <3>2. m # made + 1
      BY <1>1, <3>1
    <3>3. m \in Active(nodes) /\ ns[m] = nodes[m] /\ m \in DOMAIN nodes
      BY <2>4, <3>2 DEF Active
    <3>4. CASE n = made + 1
      <4>1. nodes[m].depth > depth /\ Earlier(nodes[m].covers, parent.covers)
        BY <2>3, <3>3
      <4>2. ns[m].depth >= depth + 1
        BY <2>2, <3>1, <3>3, <4>1
      <4> QED
        BY <2>2, <2>4, <3>3, <3>4, <4>1, <4>2
    <3>5. CASE n # made + 1
      <4>1. n \in Active(nodes) /\ ns[n] = nodes[n]
        BY <2>4, <3>5 DEF Active
      <4> QED
        BY <1>4, <3>3, <4>1 DEF Aligned
    <3> QED
      BY <3>4, <3>5
  <2>7. ASSUME NEW n \in Active(ns)
        PROVE  ns[n].depth >= d
    <3>1. CASE n = made + 1
      BY <2>2, <2>4, <3>1
    <3>2. CASE n # made + 1
      <4>1. n \in Active(nodes) /\ ns[n] = nodes[n] /\ nodes[n].depth \in Nat
        BY <1>5, <2>4, <3>2 DEF Active, IsNodes, Node
      <4>2. nodes[n].depth > depth
        BY <2>3, <4>1
      <4> QED
        BY <2>2, <4>1, <4>2
    <3> QED
      BY <3>1, <3>2
  <2>8. ASSUME NEW f \in 0 .. (MaxDepth - 1)
        PROVE  Count(ns, f) <= CondensationCount /\ (f # d => Count(ns, f) < CondensationCount)
    <3> DEFINE c == Count(nodes, f)
    <3>1. c < CondensationCount
      BY <1>3, <2>1, UntroubledFacts
    <3>2. Count(ns, f) = IF f = d THEN c + 1 ELSE c
      BY <2>2, AddedCounts DEF ns
    <3>3. c \in Nat /\ CondensationCount \in Nat
      BY CountFacts, Numbers
    <3> HIDE DEF c
    <3> QED
      BY <3>1, <3>2, <3>3
  <2> HIDE DEF d
  <2> QED
    BY <1>5, <2>1, <2>2, <2>3, <2>4, <2>5, <2>6, <2>7, <2>8, ContinueTold
<1>14. CASE UNCHANGED vars
  <2>1. UNCHANGED <<context, memory, disk, pc, locals>>
    BY <1>14 DEF vars
  <2>2. RolledUpto' = RolledUpto
    BY <2>1 DEF RolledUpto
  <2>3. Before(nodes, Ids(raw) \ rolled)' /\ (pc = "idle" => Before(nodes, Ids(fresh)))' /\ Aligned(nodes)'
    BY <1>4, <1>6, <2>1 DEF Before
  <2> QED
    BY <1>3, <2>1, <2>2, <2>3 DEF Told, Condensing
<1> QED
  BY <1>2, <1>7, <1>8, <1>9, <1>10, <1>11, <1>12, <1>13, <1>14 DEF Next

\* A chunk is summarised after all that was, so that no node covers it yet.
LEMMA OnceStep ==
    LcmAssumption /\ Typed /\ Ordered /\ Told /\ SummarisedOnce /\ [Next]_vars => SummarisedOnce'
<1> SUFFICES ASSUME LcmAssumption, Typed, Ordered, Told, SummarisedOnce, [Next]_vars, Untroubled'
             PROVE  SummarisedOnce'
  BY DEF SummarisedOnce
<1> USE DEF context, memory, disk, locals, troubles
<1>1. fails \in Nat /\ crashes \in Nat /\ made \in Nat /\ IsNodes(nodes, made)
  BY TypedNodes DEF Typed, TypeOK
<1>2. ~Crash /\ ~StoreFails
  BY <1>1 DEF Untroubled, Crash, StoreFails, LoadFails, SaveMessagesFails, SaveChunkFails,
              MarkChildFails, SaveParentFails, Fails
<1>3. Untroubled
  BY <1>2 DEF Next, Speak, Forget, Begin, SaveMessages, SaveChunk, MarkChild, SaveParent, vars, Untroubled
<1>4. \A m, n \in DOMAIN nodes :
         m # n /\ nodes[m].depth = 0 /\ nodes[n].depth = 0 => nodes[m].covers \cap nodes[n].covers = {}
  BY <1>3 DEF SummarisedOnce
<1>5. ASSUME nodes' = nodes
      PROVE  SummarisedOnce'
  BY <1>4, <1>5 DEF SummarisedOnce
<1>6. ASSUME Begin
      PROVE  SummarisedOnce'
  BY <1>3, <1>5, <1>6 DEF Begin, Told
<1>7. ASSUME SaveChunk
      PROVE  SummarisedOnce'
  <2> DEFINE ns == With(nodes, made + 1, ChunkNode)
  <2>1. pc = "chunk" /\ nodes' = ns
    BY <1>7 DEF SaveChunk, ChunkNode, ChunkIds
  <2>2. chunk < SafeTailStart(raw) /\ rolled = Ids(SubSeq(raw, 1, chunk))
    BY <1>3, <2>1 DEF Told, RolledUpto
  <2>3. ChunkIds \subseteq Ids(raw) \ rolled /\ ChunkIds \in SUBSET Nat
    BY <2>2, ChunkFacts, ChunkTyped
  <2>4. \A n \in DOMAIN nodes : nodes[n].covers \cap ChunkIds = {}
    <3>1. \A n \in DOMAIN nodes : Earlier(nodes[n].covers, ChunkIds)
      BY <1>3, <2>3 DEF Told, Before, Earlier
    <3>2. \A a \in ChunkIds : ~(a < a)
      BY <2>3
    <3> QED
      BY <3>1, <3>2 DEF Earlier
  <2>5. /\ DOMAIN ns = DOMAIN nodes \cup {made + 1}
        /\ ns[made + 1].covers = ChunkIds
        /\ made + 1 \notin DOMAIN nodes
        /\ \A n \in DOMAIN nodes : ns[n] = nodes[n]
    <3>1. made + 1 \notin DOMAIN nodes
      BY <1>1 DEF IsNodes
    <3> QED
      BY <3>1 DEF With, ChunkNode
  <2> HIDE DEF ns
  <2> QED
    BY <1>4, <2>1, <2>4, <2>5 DEF SummarisedOnce
<1>8. ASSUME MarkChild
      PROVE  SummarisedOnce'
  <2>1. /\ nodes' = MarkedNodes /\ DOMAIN MarkedNodes = DOMAIN nodes
        /\ \A n \in DOMAIN nodes : MarkedNodes[n].covers = nodes[n].covers /\ MarkedNodes[n].depth = nodes[n].depth
    BY <1>8, MarkedActive DEF MarkChild
  <2> HIDE DEF MarkedNodes
  <2> QED
    BY <1>4, <2>1 DEF SummarisedOnce
<1>9. ASSUME SaveParent
      PROVE  SummarisedOnce'
  <2> DEFINE ns == With(nodes, made + 1, parent)
  <2>1. pc = "parent" /\ nodes' = ns
    BY <1>9 DEF SaveParent
  <2>2. parent.depth = depth + 1 /\ depth \in Nat
    BY <2>1 DEF Typed, TypeOK, Condensing, LcmAssumption
  <2>3. /\ DOMAIN ns = DOMAIN nodes \cup {made + 1}
        /\ ns[made + 1].depth # 0
        /\ \A n \in DOMAIN nodes : ns[n] = nodes[n]
    <3>1. made + 1 \notin DOMAIN nodes
      BY <1>1 DEF IsNodes
    <3>2. parent.depth # 0
      BY <2>2
    <3> QED
      BY <3>1, <3>2 DEF With
  <2> HIDE DEF ns
  <2> QED
    BY <1>4, <2>1, <2>3 DEF SummarisedOnce
<1>10. (\E tool, long \in BOOLEAN : Speak(tool, long)) \/ Forget \/ SaveMessages \/ UNCHANGED vars => nodes' = nodes
  BY DEF Speak, Forget, SaveMessages, vars
<1> QED
  BY <1>2, <1>5, <1>6, <1>7, <1>8, <1>9, <1>10 DEF Next

\* While no store call fails and no process ends, no message is summarised by
\* two nodes.
THEOREM SummarisedOnceHolds == Spec => []SummarisedOnce
<1> USE LcmAssumption
<1>1. Init => Typed /\ Ordered /\ Bounded /\ Told /\ SummarisedOnce
  <2>1. Init => SummarisedOnce
    BY DEF Init, NoNodes, SummarisedOnce
  <2> QED
    BY <2>1, TypedInit, OrderedInit, BoundedInit, ToldInit
<1>2. /\ Typed /\ Ordered /\ Bounded /\ Told /\ SummarisedOnce
      /\ [Next]_vars
      => /\ Typed' /\ Ordered' /\ Bounded' /\ Told' /\ SummarisedOnce'
  BY TypedStep, OrderedStep, BoundedStep, ToldStep, OnceStep
<1> QED
  BY <1>1, <1>2, PTL DEF Spec

\* While no store call fails and no process ends, what a compaction hands back
\* tells the conversation in the order of speaking.
THEOREM ChronologicalHolds == Spec => []Chronological
<1> USE LcmAssumption
<1>1. Init => Typed /\ Ordered /\ Bounded /\ Told
  BY TypedInit, OrderedInit, BoundedInit, ToldInit
<1>2. Typed /\ Ordered /\ Bounded /\ Told /\ [Next]_vars => Typed' /\ Ordered' /\ Bounded' /\ Told'
  BY TypedStep, OrderedStep, BoundedStep, ToldStep
<1>3. Typed /\ Ordered /\ Told => Chronological
  <2> SUFFICES ASSUME Typed, Ordered, Told, pc = "idle", Untroubled
               PROVE  /\ \A i, j \in 1 .. Len(shown) : i < j =>
                            Earlier(nodes[shown[i]].covers, nodes[shown[j]].covers)
                      /\ \A i \in 1 .. Len(shown) : Earlier(nodes[shown[i]].covers, Ids(tail))
                      /\ \A i, j \in 1 .. Len(tail) : i < j => tail[i].id < tail[j].id
    BY DEF Chronological, Earlier
  <2>1. /\ \A i \in 1 .. Len(shown) : shown[i] \in Active(nodes)
        /\ \A i, j \in 1 .. Len(shown) : i < j => shown[i] < shown[j]
        /\ Aligned(nodes) /\ Before(nodes, Ids(raw) \ rolled)
    BY DEF Told
  <2>2. Sorted(tail) /\ Ids(tail) \subseteq Ids(raw) \ rolled
    BY DEF Ordered, Typed
  <2>3. \A i, j \in 1 .. Len(shown) : i < j => Earlier(nodes[shown[i]].covers, nodes[shown[j]].covers)
    BY <2>1 DEF Aligned
  <2>4. \A i \in 1 .. Len(shown) : Earlier(nodes[shown[i]].covers, Ids(tail))
    BY <2>1, <2>2 DEF Before, Earlier, Active
  <2> QED
    BY <2>2, <2>3, <2>4 DEF Sorted
<1> QED
  BY <1>1, <1>2, <1>3, PTL DEF Spec

=============================================================================
