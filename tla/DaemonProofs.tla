----------------------------- MODULE DaemonProofs -----------------------------
(***************************************************************************)
(* Proofs about Daemon and AgentLoop, for any conversations, any capacity  *)
(* of the cache and of the channel, and any number of interrupts.          *)
(*                                                                         *)
(* The cache is where the work is: its entries are sorted by their last    *)
(* use, and what is not in it was used before all that is.                 *)
(***************************************************************************)
EXTENDS Daemon, FiniteSetTheorems, SequenceTheorems, TLAPS

-----------------------------------------------------------------------------
(* The cache.                                                              *)

\* No conversation has two contexts; they are sorted by last use, and what is not
\* among them was used before.
Cached ==
    /\ contexts \in Seq(Context) /\ Len(contexts) <= Capacity
    /\ uses \in Nat
    /\ lastUse \in [Conversations -> 0 .. uses]
    /\ \A i, j \in DOMAIN contexts :
          contexts[i].conversation = contexts[j].conversation => i = j
    /\ \A i, j \in DOMAIN contexts :
          i < j => lastUse[contexts[i].conversation] > lastUse[contexts[j].conversation]
    /\ \A d \in Conversations :
          (\A i \in DOMAIN contexts : contexts[i].conversation # d) =>
              \A i \in DOMAIN contexts : lastUse[contexts[i].conversation] > lastUse[d]

\* Where the context of c is, if anywhere.
LEMMA PositionOf ==
    ASSUME Cached, NEW c
    PROVE  /\ Position(c) \in 0 .. Len(contexts)
           /\ Position(c) = 0 => \A i \in 1 .. Len(contexts) : contexts[i].conversation # c
           /\ Position(c) # 0 => contexts[Position(c)].conversation = c
           /\ \A i \in 1 .. Len(contexts) : contexts[i].conversation = c => i = Position(c)
  BY DEF Cached, Position

\* The entry of the cache that comes to position i when the one at p is used.
Moved(p, i) == IF p = 0 \/ i <= p THEN i - 1 ELSE i

\* The entries that stay keep their order.
LEMMA OthersAre ==
    ASSUME Cached, NEW c
    PROVE  LET p == Position(c)
           IN  /\ Others(c) \in Seq(Context)
               /\ Len(Others(c)) = IF p = 0 THEN Len(contexts) ELSE Len(contexts) - 1
               /\ \A i \in 1 .. Len(Others(c)) : Others(c)[i] = contexts[Moved(p, i + 1)]
<1> DEFINE p == Position(c)
<1>1. contexts \in Seq(Context) /\ p \in 0 .. Len(contexts)
  BY PositionOf DEF Cached
<1> DEFINE before == SubSeq(contexts, 1, p - 1)
           after  == SubSeq(contexts, p + 1, Len(contexts))
<1> HIDE DEF p
<1>2. CASE p = 0
  <2>1. before = <<>> /\ after = contexts
    BY <1>1, <1>2
  <2>2. Others(c) = contexts
    BY <1>1, <2>1 DEF Others, RemoveAt, p
  <2> QED
    BY <1>1, <1>2, <2>2 DEF Moved, p
<1>3. CASE p # 0
  <2>1. /\ before \in Seq(Context) /\ Len(before) = p - 1
        /\ after \in Seq(Context) /\ Len(after) = Len(contexts) - p
        /\ \A i \in 1 .. (p - 1) : before[i] = contexts[i]
        /\ \A i \in 1 .. (Len(contexts) - p) : after[i] = contexts[p + i]
    BY <1>1, <1>3
  <2>2. Others(c) = before \o after
    BY DEF Others, RemoveAt, p
  <2>3. /\ Others(c) \in Seq(Context) /\ Len(Others(c)) = Len(contexts) - 1
        /\ \A i \in 1 .. Len(Others(c)) :
              Others(c)[i] = IF i < p THEN contexts[i] ELSE contexts[i + 1]
    <3> HIDE DEF before, after
    <3>1. /\ before \o after \in Seq(Context) /\ Len(before \o after) = Len(contexts) - 1
          /\ \A i \in 1 .. (Len(contexts) - 1) :
                (before \o after)[i] = IF i <= p - 1 THEN before[i] ELSE after[i - (p - 1)]
      BY <1>1, <1>3, <2>1, ConcatProperties
    <3>2. ASSUME NEW i \in 1 .. (Len(contexts) - 1)
          PROVE  (before \o after)[i] = IF i < p THEN contexts[i] ELSE contexts[i + 1]
      <4>1. CASE i < p
        BY <1>1, <1>3, <2>1, <3>1, <4>1
      <4>2. CASE ~(i < p)
        <5>1. i - (p - 1) \in 1 .. (Len(contexts) - p) /\ p + (i - (p - 1)) = i + 1
          BY <1>1, <1>3, <4>2
        <5> QED
          BY <1>1, <1>3, <2>1, <3>1, <4>2, <5>1
      <4> QED
        BY <4>1, <4>2
    <3> QED
      BY <1>1, <2>2, <3>1, <3>2
  <2> QED
    BY <1>1, <1>3, <2>3 DEF Moved, p
<1> QED
  BY <1>2, <1>3

\* A use puts the context in front and drops the last one that is too many.
LEMMA UseMoves ==
    ASSUME Cached, NEW c \in Conversations, NEW told \in Seq(Nat), UseContext(c, told)
    PROVE  LET p == Position(c)
               n == Smaller(IF p = 0 THEN Len(contexts) ELSE Len(contexts) - 1, Capacity - 1)
           IN  /\ contexts' \in Seq(Context) /\ Len(contexts') = n + 1
               /\ contexts'[1] = [conversation |-> c, told |-> told]
               /\ \A i \in 2 .. (n + 1) : contexts'[i] = contexts[Moved(p, i)]
<1> DEFINE p == Position(c)
           m == IF p = 0 THEN Len(contexts) ELSE Len(contexts) - 1
           n == Smaller(m, Capacity - 1)
           new == [conversation |-> c, told |-> told]
           others == Others(c)
<1>1. /\ contexts \in Seq(Context) /\ p \in 0 .. Len(contexts) /\ Capacity \in Nat \ {0}
      /\ n \in 0 .. m /\ m \in Nat
  BY PositionOf, LoopAssumption DEF Cached, Smaller
<1>2. /\ others \in Seq(Context) /\ Len(others) = m
      /\ \A i \in 1 .. m : others[i] = contexts[Moved(p, i + 1)]
  BY OthersAre
<1>3. contexts' = <<new>> \o SubSeq(others, 1, n)
  BY <1>2 DEF UseContext, Recent
<1>4. new \in Context
  BY DEF Context
<1> HIDE DEF p, m, n, new, others
<1>5. /\ SubSeq(others, 1, n) \in Seq(Context) /\ Len(SubSeq(others, 1, n)) = n
      /\ \A i \in 1 .. n : SubSeq(others, 1, n)[i] = others[i]
  BY <1>1, <1>2
<1>6. /\ contexts' \in Seq(Context) /\ Len(contexts') = n + 1 /\ contexts'[1] = new
      /\ \A i \in 2 .. (n + 1) : contexts'[i] = SubSeq(others, 1, n)[i - 1]
  BY <1>1, <1>3, <1>4, <1>5
<1>7. \A i \in 2 .. (n + 1) : contexts'[i] = contexts[Moved(p, i)]
  <2> TAKE i \in 2 .. (n + 1)
  <2>1. i - 1 \in 1 .. n /\ i - 1 \in 1 .. m /\ (i - 1) + 1 = i
    BY <1>1
  <2>2. others[i - 1] = contexts[Moved(p, (i - 1) + 1)]
    BY <1>2, <2>1
  <2> QED
    BY <1>5, <1>6, <2>1, <2>2
<1> QED
  BY <1>6, <1>7 DEF p, m, n, new

\* The entries before a place are those of fewer conversations.
LEMMA FewBefore ==
    ASSUME NEW s \in Seq(Context), NEW k \in 0 .. Len(s)
    PROVE  LET B == {s[i].conversation : i \in 1 .. k}
           IN  /\ IsFiniteSet(B) /\ Cardinality(B) <= k
               /\ (\A i, j \in 1 .. k : s[i].conversation = s[j].conversation => i = j) =>
                      Cardinality(B) = k
<1> DEFINE B == {s[i].conversation : i \in 1 .. k}
           f == [i \in 1 .. k |-> s[i].conversation]
<1>1. f \in Surjection(1 .. k, B)
  BY DEF Surjection
<1>2. IsFiniteSet(1 .. k) /\ Cardinality(1 .. k) = k
  BY FS_Interval
<1>3. /\ IsFiniteSet(B) /\ Cardinality(B) <= Cardinality(1 .. k)
      /\ Cardinality(B) = Cardinality(1 .. k) <=> f \in Injection(1 .. k, B)
  BY <1>1, <1>2, FS_Surjection
<1>4. (\A i, j \in 1 .. k : s[i].conversation = s[j].conversation => i = j) =>
          f \in Injection(1 .. k, B)
  BY DEF Injection, IsInjective
<1> QED
  BY <1>2, <1>3, <1>4

\* A use keeps the cache as it should be, and changes what is told as the promise
\* says.
LEMMA UseKeeps ==
    ASSUME Cached, NEW c \in Conversations, NEW told \in Seq(Nat), UseContext(c, told)
    PROVE  /\ Cached'
           /\ contexts' # <<>> /\ contexts'[1].conversation = c
           /\ \A d \in Conversations :
                 Told(d)' = IF d = c THEN told ELSE IF Promise!Stale(d) THEN <<>> ELSE Told(d)
<1> DEFINE p == Position(c)
           m == IF p = 0 THEN Len(contexts) ELSE Len(contexts) - 1
           n == Smaller(m, Capacity - 1)
           name(i) == contexts[i].conversation
<1>1. /\ contexts \in Seq(Context) /\ Len(contexts) \in Nat /\ Capacity \in Nat \ {0}
      /\ p \in 0 .. Len(contexts)
      /\ p = 0 => \A i \in 1 .. Len(contexts) : name(i) # c
      /\ p # 0 => name(p) = c
      /\ \A i \in 1 .. Len(contexts) : name(i) = c => i = p
  BY PositionOf, LoopAssumption DEF Cached
<1>2. /\ contexts' \in Seq(Context) /\ Len(contexts') = n + 1
      /\ contexts'[1] = [conversation |-> c, told |-> told]
      /\ \A i \in 2 .. (n + 1) : contexts'[i] = contexts[Moved(p, i)]
  BY UseMoves
<1>3. /\ n \in Nat /\ m \in Nat /\ n + 1 <= Capacity /\ n <= m /\ m <= Len(contexts)
      /\ n < m => n + 1 = Capacity
  BY <1>1 DEF Smaller
<1>4. /\ uses' = uses + 1 /\ uses \in Nat /\ lastUse \in [Conversations -> 0 .. uses]
      /\ lastUse' = [lastUse EXCEPT ![c] = uses + 1]
  BY DEF UseContext, Cached
<1>5. \A i \in 2 .. (n + 1) :
         /\ Moved(p, i) \in 1 .. Len(contexts) /\ Moved(p, i) # p
         /\ name(Moved(p, i)) # c /\ name(Moved(p, i)) \in Conversations
  <2> TAKE i \in 2 .. (n + 1)
  <2>1. Moved(p, i) \in 1 .. Len(contexts) /\ Moved(p, i) # p
    BY <1>1, <1>3 DEF Moved
  <2>2. \A j \in 1 .. Len(contexts) : contexts[j] \in Context /\ (j # p => name(j) # c)
    BY <1>1
  <2>3. \A j \in 1 .. Len(contexts) : name(j) \in Conversations
    BY <2>2 DEF Context
  <2> HIDE DEF name, p
  <2> QED
    BY <2>1, <2>2, <2>3
<1>6. \A i, j \in 2 .. (n + 1) : i < j => Moved(p, i) < Moved(p, j)
  BY <1>1, <1>3 DEF Moved
<1>7. \A j \in 1 .. Len(contexts) : j # p =>
         LET i == IF p = 0 \/ j < p THEN j + 1 ELSE j
         IN  i \in 2 .. (m + 1) /\ Moved(p, i) = j
  BY <1>1 DEF Moved
<1> HIDE DEF p, m, n
<1>8. /\ \A d \in Conversations : d # c => lastUse'[d] = lastUse[d] /\ lastUse[d] < uses + 1
      /\ lastUse'[c] = uses + 1
      /\ lastUse' \in [Conversations -> 0 .. uses']
  BY <1>4
<1>9. /\ \A i \in 2 .. (n + 1) : lastUse'[contexts'[i].conversation] = lastUse[name(Moved(p, i))]
      /\ lastUse'[contexts'[1].conversation] = uses + 1
      /\ \A i \in 2 .. (n + 1) : contexts'[i].conversation # c
  <2>1. contexts'[1].conversation = c
    BY <1>2
  <2>2. \A i \in 2 .. (n + 1) : contexts'[i].conversation = name(Moved(p, i))
    BY <1>2
  <2> HIDE DEF name
  <2> QED
    BY <1>5, <1>8, <2>1, <2>2
<1>10. \A i, j \in 1 .. Len(contexts) :
          /\ name(i) = name(j) => i = j
          /\ i < j => lastUse[name(i)] > lastUse[name(j)]
  <2>1. DOMAIN contexts = 1 .. Len(contexts)
    BY <1>1
  <2> QED
    BY <2>1 DEF Cached
<1>11. \A i, j \in 1 .. (n + 1) : contexts'[i].conversation = contexts'[j].conversation => i = j
  <2> SUFFICES ASSUME NEW i \in 1 .. (n + 1), NEW j \in 1 .. (n + 1), i < j
               PROVE  contexts'[i].conversation # contexts'[j].conversation
    BY <1>3
  <2>1. CASE i = 1
    BY <1>2, <1>3, <1>9, <2>1
  <2>2. CASE i # 1
    <3>1. i \in 2 .. (n + 1) /\ j \in 2 .. (n + 1)
      BY <1>3, <2>2
    <3>2. Moved(p, i) < Moved(p, j) /\ Moved(p, i) \in Nat /\ Moved(p, j) \in Nat
      BY <1>1, <1>5, <1>6, <3>1
    <3> QED
      BY <1>2, <1>5, <1>10, <3>1, <3>2
  <2> QED
    BY <2>1, <2>2
<1>12. \A i, j \in 1 .. (n + 1) :
          i < j => lastUse'[contexts'[i].conversation] > lastUse'[contexts'[j].conversation]
  <2> SUFFICES ASSUME NEW i \in 1 .. (n + 1), NEW j \in 1 .. (n + 1), i < j
               PROVE  lastUse'[contexts'[i].conversation] > lastUse'[contexts'[j].conversation]
    OBVIOUS
  <2>1. CASE i = 1
    <3>1. j \in 2 .. (n + 1)
      BY <1>3, <2>1
    <3>2. lastUse[name(Moved(p, j))] < uses + 1
      BY <1>5, <1>8, <3>1
    <3> QED
      BY <1>4, <1>5, <1>9, <2>1, <3>1, <3>2
  <2>2. CASE i # 1
    <3>1. i \in 2 .. (n + 1) /\ j \in 2 .. (n + 1)
      BY <1>3, <2>2
    <3>2. Moved(p, i) < Moved(p, j)
      BY <1>6, <3>1
    <3> QED
      BY <1>5, <1>9, <1>10, <3>1, <3>2
  <2> QED
    BY <2>1, <2>2
\* Who is not in the cache now was not there before, or was behind all that are.
<1>13. ASSUME NEW d \in Conversations, \A i \in 1 .. (n + 1) : contexts'[i].conversation # d
       PROVE  /\ d # c
              /\ \A i \in 1 .. (n + 1) : lastUse'[contexts'[i].conversation] > lastUse'[d]
              /\ Position(d) # 0 => n + 1 = Capacity
  <2>1. d # c
    BY <1>2, <1>3, <1>13
  <2>2. CASE Position(d) = 0
    <3>1. \A i \in 1 .. Len(contexts) : name(i) # d
      BY <2>2, PositionOf
    <3>2. \A i \in 1 .. Len(contexts) : lastUse[name(i)] > lastUse[d]
      BY <3>1 DEF Cached
    <3>3. ASSUME NEW i \in 1 .. (n + 1)
          PROVE  lastUse'[contexts'[i].conversation] > lastUse'[d]
      <4>1. CASE i = 1
        BY <1>4, <1>8, <1>9, <2>1, <4>1
      <4>2. CASE i # 1
        <5>1. i \in 2 .. (n + 1)
          BY <1>3, <4>2
        <5> QED
          BY <1>5, <1>8, <1>9, <2>1, <3>2, <5>1
      <4> QED
        BY <4>1, <4>2
    <3> QED
      BY <2>1, <2>2, <3>3
  <2>3. CASE Position(d) # 0
    <3> DEFINE j == Position(d)
    <3>1. j \in 1 .. Len(contexts) /\ name(j) = d
      BY <2>3, PositionOf, <1>1
    <3> HIDE DEF j
    <3>2. j # p
      BY <1>1, <2>1, <3>1 DEF p
    <3> DEFINE k == IF p = 0 \/ j < p THEN j + 1 ELSE j
    <3>3. k \in 2 .. (m + 1) /\ Moved(p, k) = j
      BY <1>7, <3>1, <3>2
    <3> HIDE DEF k
    <3>4. k > n + 1
      <4> SUFFICES ASSUME k \in 2 .. (n + 1) PROVE FALSE
        BY <1>3, <3>3
      <4>1. contexts'[k].conversation = d /\ k \in 1 .. (n + 1)
        BY <1>2, <1>3, <3>1, <3>3
      <4> QED
        BY <1>13, <4>1
    <3>5. n + 1 = Capacity
      BY <1>3, <3>3, <3>4
    <3>6. ASSUME NEW i \in 1 .. (n + 1)
          PROVE  lastUse'[contexts'[i].conversation] > lastUse'[d]
      <4>1. CASE i = 1
        BY <1>4, <1>8, <1>9, <2>1, <4>1
      <4>2. CASE i # 1
        <5>1. i \in 2 .. (n + 1)
          BY <1>3, <4>2
        <5>2. Moved(p, i) < j
          BY <1>1, <1>3, <3>3, <3>4, <5>1 DEF Moved
        <5> QED
          BY <1>5, <1>8, <1>9, <1>10, <2>1, <3>1, <5>1, <5>2
      <4> QED
        BY <4>1, <4>2
    <3> QED
      BY <2>1, <3>5, <3>6
  <2> QED
    BY <2>2, <2>3
<1>14. Cached'
  <2>1. uses' \in Nat /\ DOMAIN contexts' = 1 .. (n + 1) /\ Len(contexts') <= Capacity
    BY <1>2, <1>3, <1>4
  <2>2. \A d \in Conversations :
           (\A i \in 1 .. (n + 1) : contexts'[i].conversation # d) =>
               \A i \in 1 .. (n + 1) : lastUse'[contexts'[i].conversation] > lastUse'[d]
    BY <1>13
  <2> QED
    BY <1>2, <1>8, <1>11, <1>12, <2>1, <2>2 DEF Cached
<1>15. ASSUME NEW d \in Conversations
       PROVE  Told(d)' = IF d = c THEN told ELSE IF Promise!Stale(d) THEN <<>> ELSE Told(d)
  <2> DEFINE E == {e \in Conversations : lastUse'[e] > lastUse'[d]}
             cached == {contexts'[i].conversation : i \in 1 .. (n + 1)}
  <2>1. /\ Position(d)' = 0 => Told(d)' = <<>>
        /\ \A i \in 1 .. (n + 1) : contexts'[i].conversation = d => Told(d)' = contexts'[i].told
        /\ Position(d)' = 0 <=> \A i \in 1 .. (n + 1) : contexts'[i].conversation # d
    <3>1. DOMAIN contexts' = 1 .. (n + 1)
      BY <1>2, <1>3
    <3> QED
      BY <1>11, <3>1 DEF Told, Position
  <2>2. Promise!Stale(d) <=> Cardinality(E) >= Capacity
    BY DEF Promise!Stale, Promise!Cardinality, Cardinality
  <2>3. CASE d = c
    BY <1>2, <1>3, <2>1, <2>3
  <2>4. ASSUME d # c, NEW k \in 1 .. (n + 1), contexts'[k].conversation = d
        PROVE  Told(d)' = Told(d) /\ ~Promise!Stale(d)
    <3>1. k \in 2 .. (n + 1)
      BY <1>2, <1>3, <2>4
    <3>2. Told(d)' = Told(d)
      <4>1. Moved(p, k) \in 1 .. Len(contexts) /\ name(Moved(p, k)) = d
        BY <1>2, <1>5, <2>4, <3>1
      <4>2. Moved(p, k) = Position(d) /\ Position(d) # 0
        BY <1>1, <4>1, PositionOf
      <4>3. Told(d) = contexts[Moved(p, k)].told
        BY <4>2 DEF Told
      <4> QED
        BY <1>2, <2>1, <2>4, <3>1, <4>3
    <3> DEFINE B == {contexts'[i].conversation : i \in 1 .. (k - 1)}
    <3>3. E \subseteq B
      <4> SUFFICES ASSUME NEW e \in E PROVE e \in B
        OBVIOUS
      <4>1. lastUse'[e] \in Nat /\ lastUse'[d] \in Nat /\ lastUse'[e] > lastUse'[d]
        BY <1>4, <1>8
      <4>2. PICK i \in 1 .. (n + 1) : contexts'[i].conversation = e
        <5> SUFFICES ASSUME \A i \in 1 .. (n + 1) : contexts'[i].conversation # e PROVE FALSE
          OBVIOUS
        <5>1. lastUse'[contexts'[k].conversation] > lastUse'[e]
          BY <1>13
        <5> QED
          BY <2>4, <4>1, <5>1
      <4>3. ~(k < i)
        <5> SUFFICES ASSUME k < i PROVE FALSE
          OBVIOUS
        <5>1. lastUse'[d] > lastUse'[e]
          BY <1>12, <2>4, <4>2
        <5> QED
          BY <4>1, <5>1
      <4>4. k # i
        BY <2>4, <4>1, <4>2
      <4> QED
        BY <1>3, <4>2, <4>3, <4>4
    <3>4. k - 1 \in 0 .. Len(contexts') /\ k - 1 < Capacity
      BY <1>1, <1>2, <1>3
    <3>5. IsFiniteSet(B) /\ Cardinality(B) <= k - 1
      BY <1>2, <3>4, FewBefore
    <3>6. Cardinality(E) <= Cardinality(B) /\ Cardinality(E) \in Nat /\ Cardinality(B) \in Nat
      BY <3>3, <3>5, FS_Subset, FS_CardinalityType
    <3> HIDE DEF E, B
    <3> QED
      BY <1>1, <1>3, <2>2, <3>2, <3>4, <3>5, <3>6
  <2>5. ASSUME d # c, \A i \in 1 .. (n + 1) : contexts'[i].conversation # d
        PROVE  Told(d)' = <<>> /\ (Told(d) = <<>> \/ Promise!Stale(d))
    <3>1. Told(d)' = <<>>
      BY <2>1, <2>5
    <3>2. CASE Position(d) = 0
      BY <3>1, <3>2 DEF Told
    <3>3. CASE Position(d) # 0
      <4>1. n + 1 = Capacity
        BY <1>13, <2>5, <3>3
      <4>2. cached \subseteq E
        <5> SUFFICES ASSUME NEW i \in 1 .. (n + 1) PROVE contexts'[i].conversation \in E
          OBVIOUS
        <5>1. lastUse'[contexts'[i].conversation] > lastUse'[d]
          BY <1>13, <2>5
        <5>2. contexts'[i] \in Context
          BY <1>2, <1>3
        <5> QED
          BY <5>1, <5>2 DEF Context
      <4> DEFINE A == {contexts[i].conversation : i \in 1 .. Len(contexts)}
      <4>3. E \subseteq A \cup {c}
        <5> SUFFICES ASSUME NEW e \in E, e # c PROVE e \in A
          OBVIOUS
        <5>1. lastUse[e] \in Nat /\ lastUse[d] \in Nat /\ lastUse[e] > lastUse[d]
          BY <1>4, <1>8, <2>5
        <5>2. contexts[Position(d)].conversation = d /\ Position(d) \in 1 .. Len(contexts)
          BY <1>1, <3>3, PositionOf
        <5>3. CASE \A i \in 1 .. Len(contexts) : contexts[i].conversation # e
          <6>1. lastUse[contexts[Position(d)].conversation] > lastUse[e]
            <7>1. DOMAIN contexts = 1 .. Len(contexts) /\ e \in Conversations
              BY <1>1
            <7> QED
              BY <5>2, <5>3, <7>1 DEF Cached
          <6> QED
            BY <5>1, <5>2, <6>1
        <5> QED
          BY <5>3
      <4>4. IsFiniteSet(A)
        <5>1. contexts \in Seq(Context) /\ Len(contexts) \in 0 .. Len(contexts)
          BY <1>1
        <5> QED
          BY <5>1, FewBefore
      <4>5. IsFiniteSet(A \cup {c})
        BY <4>4, FS_AddElement
      <4>6. IsFiniteSet(E)
        BY <4>3, <4>5, FS_Subset
      <4>7. Cardinality(cached) = n + 1
        <5>1. n + 1 \in 0 .. Len(contexts')
          BY <1>2, <1>3
        <5> QED
          BY <1>2, <1>11, <5>1, FewBefore
      <4>8. Cardinality(cached) <= Cardinality(E)
        BY <4>2, <4>6, FS_Subset
      <4> QED
        BY <2>2, <3>1, <4>1, <4>7, <4>8
    <3> QED
      BY <3>2, <3>3
  <2> QED
    BY <2>3, <2>4, <2>5
<1> QED
  BY <1>2, <1>3, <1>14, <1>15

-----------------------------------------------------------------------------
(* The process.                                                            *)

\* What waits, oldest first.
Pending == stash \o inbox

\* What waits has the numbers that come after the last begun, and a turn listens
\* only while its stash is empty.
Waits ==
    /\ setup \in Setups
    /\ inbox \in Seq(Interrupt) /\ Len(inbox) <= QueueCapacity
    /\ stash \in Seq(Interrupt) /\ Len(stash) <= 1
    /\ sent \in 0 .. MaxInterrupts /\ started \in Nat
    /\ started + Len(stash) + Len(inbox) = sent
    /\ \A i \in 1 .. Len(stash) : stash[i].n = started + i
    /\ \A i \in 1 .. Len(inbox) : inbox[i].n = started + Len(stash) + i
    /\ listening \in BOOLEAN
    /\ listening => stash = <<>>

\* The context of the turn under way is the first of the cache.
Turning ==
    /\ turn \in Conversations \cup {NoTurn}
    /\ turn # NoTurn => contexts # <<>> /\ contexts[1].conversation = turn

\* Which tasks there are, and who holds a sender, at each step of the start: the
\* daemon keeps its own.
Started ==
    /\ agent \in {"none", "running", "failed", "ended"}
    /\ transport \in {"none", "running", "ended"}
    /\ process \in {"starting", "up", "startup", "signal", "agent", "transport"}
    /\ senders \subseteq {"builder", "host", "transport"}
    /\ boot \in Steps
    /\ tasks \subseteq {"transport"}
    /\ transport # "none" => boot \in {"spawn", "done"}
    /\ agent # "none" <=> boot = "done"
    /\ process = "up" => boot = "done"
    /\ process \in {"starting", "up"} /\ boot \in {"build", "spawn", "done"} /\ setup.host = "daemon" =>
          "host" \in senders

Inv ==
    /\ Cached
    /\ Waits
    /\ Turning
    /\ Started
    /\ EndsDrained

\* The stash goes before the channel.
LEMMA FirstGoes ==
    ASSUME NEW S, NEW x \in S, NEW s \in Seq(S)
    PROVE  /\ <<x>> \o s \in Seq(S) /\ <<x>> \o s # <<>>
           /\ Head(<<x>> \o s) = x
           /\ Tail(<<x>> \o s) = s
<1> DEFINE t == <<x>> \o s
<1>1. <<x>> \in Seq(S) /\ Len(<<x>>) = 1 /\ <<x>>[1] = x /\ Len(s) \in Nat
  OBVIOUS
<1>2. /\ t \in Seq(S) /\ Len(t) = 1 + Len(s)
      /\ \A i \in 1 .. 1 + Len(s) : t[i] = IF i <= 1 THEN <<x>>[i] ELSE s[i - 1]
  <2> HIDE DEF t
  <2>1. /\ t \in Seq(S) /\ Len(t) = Len(<<x>>) + Len(s)
        /\ \A i \in 1 .. Len(<<x>>) + Len(s) :
              t[i] = IF i <= Len(<<x>>) THEN <<x>>[i] ELSE s[i - Len(<<x>>)]
    BY <1>1, ConcatProperties DEF t
  <2> QED
    BY <1>1, <2>1
<1> HIDE DEF t
<1>3. t # <<>> /\ t[1] = x /\ Head(t) = t[1]
  BY <1>1, <1>2
<1>4. /\ Tail(t) \in Seq(S) /\ Len(Tail(t)) = Len(t) - 1
      /\ \A i \in 1 .. Len(Tail(t)) : Tail(t)[i] = t[i + 1]
  BY <1>2, <1>3, HeadTailProperties
<1>5. Tail(t) = s
  <2>1. Len(Tail(t)) = Len(s)
    BY <1>1, <1>2, <1>4
  <2>2. \A i \in 1 .. Len(s) : Tail(t)[i] = s[i]
    <3> TAKE i \in 1 .. Len(s)
    <3>1. i + 1 \in 1 .. 1 + Len(s) /\ ~(i + 1 <= 1) /\ (i + 1) - 1 = i
      BY <1>1
    <3>2. t[i + 1] = s[(i + 1) - 1]
      BY <1>2, <3>1
    <3> QED
      BY <1>4, <2>1, <3>1, <3>2
  <2> QED
    BY <1>4, <2>1, <2>2, SeqEqual
<1> QED
  BY <1>2, <1>3, <1>5 DEF t

\* One interrupt is begun.
LEMMA ReceiveKeeps ==
    ASSUME Inv, NEW kinds, Receive(kinds)
    PROVE  /\ Upcoming.i \in Interrupt /\ Upcoming.i.kind \in kinds
           /\ Upcoming.i = Head(Pending) /\ Pending # <<>> /\ Pending' = Tail(Pending)
           /\ inbox' \in Seq(Interrupt) /\ Len(inbox') <= QueueCapacity /\ stash' = <<>>
           /\ started' \in Nat /\ started' + Len(inbox') = sent
           /\ \A i \in 1 .. Len(inbox') : inbox'[i].n = started' + i
           /\ AgentRuns /\ UNCHANGED <<setup, sent, taskVars>>
<1> USE DEF Inv
<1>1. /\ AgentRuns /\ turn = NoTurn /\ Upcoming.i.kind \in kinds
      /\ inbox' = Upcoming.inbox /\ stash' = Upcoming.stash /\ started' = Upcoming.i.n
      /\ UNCHANGED <<setup, sent, taskVars>>
  BY DEF Receive
<1>2. /\ inbox \in Seq(Interrupt) /\ stash \in Seq(Interrupt) /\ Len(stash) <= 1
      /\ Len(inbox) <= QueueCapacity /\ QueueCapacity \in Nat /\ started \in Nat
  BY LoopAssumption DEF Waits
<1>3. CASE stash # <<>>
  <2>1. /\ Len(stash) = 1 /\ stash = <<Head(stash)>> /\ Head(stash) = stash[1]
        /\ Head(stash) \in Interrupt
    BY <1>2, <1>3
  <2>2. Upcoming.i = Head(stash) /\ Upcoming.inbox = inbox /\ Upcoming.stash = <<>>
    BY <1>3 DEF Upcoming
  <2>3. Head(Pending) = Head(stash) /\ Pending # <<>> /\ Tail(Pending) = inbox
    <3>1. Pending = <<Head(stash)>> \o inbox
      BY <2>1 DEF Pending
    <3> QED
      BY <1>2, <2>1, <3>1, FirstGoes
  <2>4. Head(stash).n = started + 1 /\ started + 1 + Len(inbox) = sent
        /\ \A i \in 1 .. Len(inbox) : inbox[i].n = started + 1 + i
    BY <1>2, <2>1 DEF Waits
  <2>5. inbox' = inbox /\ stash' = <<>> /\ started' = started + 1
    BY <1>1, <2>2, <2>4
  <2>6. Pending' = inbox
    BY <1>2, <2>5, ConcatEmptySeq DEF Pending
  <2>7. /\ started' \in Nat /\ started' + Len(inbox') = sent
        /\ \A i \in 1 .. Len(inbox') : inbox'[i].n = started' + i
    BY <1>2, <2>4, <2>5
  <2> QED
    BY <1>1, <1>2, <2>1, <2>2, <2>3, <2>5, <2>6, <2>7
<1>4. CASE stash = <<>>
  <2>1. inbox # <<>>
    BY <1>4 DEF Receive
  <2>2. /\ Head(inbox) = inbox[1] /\ Head(inbox) \in Interrupt
        /\ Tail(inbox) \in Seq(Interrupt) /\ Len(Tail(inbox)) = Len(inbox) - 1
        /\ \A i \in 1 .. (Len(inbox) - 1) : Tail(inbox)[i] = inbox[i + 1]
        /\ Len(inbox) \in Nat
    BY <1>2, <2>1
  <2>3. Upcoming.i = Head(inbox) /\ Upcoming.inbox = Tail(inbox) /\ Upcoming.stash = <<>>
    BY <1>4 DEF Upcoming
  <2>4. Pending = inbox
    BY <1>2, <1>4, ConcatEmptySeq DEF Pending
  <2>5. started + Len(inbox) = sent /\ \A i \in 1 .. Len(inbox) : inbox[i].n = started + i
    BY <1>2, <1>4 DEF Waits
  <2>6. inbox' = Tail(inbox) /\ stash' = <<>> /\ Pending' = Tail(inbox)
    BY <1>1, <1>4, <2>2, <2>3, ConcatEmptySeq DEF Pending
  <2>7. Head(inbox).n = started + 1
    BY <2>1, <2>2, <2>5
  <2>8. \A i \in 1 .. (Len(inbox) - 1) : Tail(inbox)[i].n = started + 1 + i
    <3> TAKE i \in 1 .. (Len(inbox) - 1)
    <3>1. i + 1 \in 1 .. Len(inbox)
      BY <2>2
    <3>2. inbox[i + 1].n = started + (i + 1)
      BY <2>5, <3>1
    <3> QED
      BY <1>2, <2>2, <3>2
  <2>9. started' = started + 1
    BY <1>1, <2>3, <2>7
  <2>10. /\ started' \in Nat /\ started' + Len(inbox') = sent
         /\ Len(inbox') <= QueueCapacity
         /\ \A i \in 1 .. Len(inbox') : inbox'[i].n = started' + i
    BY <1>2, <2>2, <2>5, <2>6, <2>8, <2>9
  <2> QED
    BY <1>1, <2>1, <2>2, <2>3, <2>4, <2>6, <2>10
<1> QED
  BY <1>3, <1>4

\* What is told is a sequence of numbers.
LEMMA ToldType ==
    ASSUME Cached, NEW c
    PROVE  Told(c) \in Seq(Nat)
<1>1. Position(c) # 0 => contexts[Position(c)] \in Context
  BY PositionOf DEF Cached
<1> QED
  BY <1>1 DEF Told, Context

\* The oldest interrupt is begun in the context of its conversation, which is left
\* with what is told.
LEMMA BeginKeeps ==
    ASSUME Inv, NEW kinds, Receive(kinds),
           NEW told \in Seq(Nat), UseContext(Upcoming.i.conversation, told),
           turn' \in {NoTurn, Upcoming.i.conversation}, listening' \in BOOLEAN,
           UNCHANGED <<boot, tasks>>
    PROVE  Inv' /\ Promise!Begin(told)
<1> USE DEF Inv
<1> DEFINE c == Upcoming.i.conversation
<1>1. /\ Upcoming.i \in Interrupt
      /\ Upcoming.i = Head(Pending) /\ Pending # <<>> /\ Pending' = Tail(Pending)
      /\ inbox' \in Seq(Interrupt) /\ Len(inbox') <= QueueCapacity /\ stash' = <<>>
      /\ started' \in Nat /\ started' + Len(inbox') = sent
      /\ \A i \in 1 .. Len(inbox') : inbox'[i].n = started' + i
      /\ AgentRuns /\ UNCHANGED <<setup, sent, taskVars>>
  BY ReceiveKeeps
<1>2. c \in Conversations
  BY <1>1 DEF Interrupt
<1>3. /\ Cached' /\ contexts' # <<>> /\ contexts'[1].conversation = c
      /\ \A d \in Conversations :
            Told(d)' = IF d = c THEN told ELSE IF Promise!Stale(d) THEN <<>> ELSE Told(d)
  BY <1>2, UseKeeps
<1>4. Waits'
  BY <1>1 DEF Waits
<1>5. Turning'
  BY <1>2, <1>3 DEF Turning
<1>6. Started'
  BY <1>1 DEF Started, taskVars
<1>7. EndsDrained'
  BY <1>1 DEF EndsDrained, AgentRuns, taskVars
<1>8. Promise!Begin(told)
  <2>1. uses' = uses + 1 /\ lastUse' = [lastUse EXCEPT ![c] = uses + 1]
    BY DEF UseContext
  <2>2. [d \in Conversations |-> Told(d)'] =
           [d \in Conversations |->
               IF d = c THEN told
               ELSE IF Promise!Stale(d) THEN <<>> ELSE [e \in Conversations |-> Told(e)][d]]
    BY <1>3
  <2> QED
    BY <1>1, <2>1, <2>2 DEF Promise!Begin, Pending
<1> QED
  BY <1>3, <1>4, <1>5, <1>6, <1>7, <1>8

\* A step that touches neither the channel nor the cache shows nothing to the
\* promise; it may end the turn.
LEMMA QuietKeeps ==
    ASSUME Inv, UNCHANGED <<setup, queueVars, contexts, lastUse, uses>>,
           turn' \in {turn, NoTurn}, listening' \in {listening, FALSE}
    PROVE  Cached' /\ Waits' /\ Turning' /\ UNCHANGED Promise!vars
<1>1. Cached'
  BY DEF Inv, Cached
<1>2. Waits'
  <2>1. UNCHANGED <<setup, inbox, stash, sent, started>>
    BY DEF queueVars
  <2>2. listening' \in BOOLEAN /\ (listening' => stash' = <<>>)
    <3>1. CASE listening' = listening
      BY <2>1, <3>1 DEF Inv, Waits
    <3>2. CASE listening' = FALSE
      BY <3>2
    <3> QED
      BY <3>1, <3>2
  <2> QED
    BY <2>1, <2>2 DEF Inv, Waits
<1>3. Turning'
  BY DEF Inv, Turning
<1>4. UNCHANGED Promise!vars
  <2>1. UNCHANGED <<stash, inbox, sent, contexts, lastUse, uses>>
    BY DEF queueVars
  <2>2. [c \in Conversations |-> Told(c)'] = [c \in Conversations |-> Told(c)]
    BY <2>1 DEF Told, Position
  <2> QED
    BY <2>1, <2>2 DEF Promise!vars
<1> QED
  BY <1>1, <1>2, <1>3, <1>4

\* Whoever sends, the interrupt is the last that waits.
LEMMA SendKeeps ==
    ASSUME Inv, NEW kind \in Kinds, NEW c \in Conversations, Send(kind, c), UNCHANGED <<boot, tasks>>
    PROVE  Inv' /\ Promise!Send(kind, c)
<1> DEFINE i == [n |-> sent + 1, kind |-> kind, conversation |-> c]
<1>1. /\ inbox \in Seq(Interrupt) /\ stash \in Seq(Interrupt) /\ sent \in Nat /\ started \in Nat
      /\ MaxInterrupts \in Nat /\ QueueCapacity \in Nat /\ Len(inbox) \in Nat /\ Len(stash) \in Nat
      /\ started + Len(stash) + Len(inbox) = sent
  BY LoopAssumption DEF Inv, Waits
<1>2. /\ sent' = sent + 1 /\ sent < MaxInterrupts /\ Len(inbox) < QueueCapacity
      /\ inbox' = Append(inbox, i) /\ agent # "ended"
      /\ UNCHANGED <<setup, stash, started, loopVars, taskVars>>
  BY DEF Send
<1>3. i \in Interrupt
  BY <1>1 DEF Interrupt
<1> HIDE DEF i
<1>4. /\ Append(inbox, i) \in Seq(Interrupt) /\ Len(Append(inbox, i)) = Len(inbox) + 1
      /\ \A k \in 1 .. Len(inbox) : Append(inbox, i)[k] = inbox[k]
      /\ Append(inbox, i)[Len(inbox) + 1] = i
  BY <1>1, <1>3, AppendProperties
<1>5. i.n = started + Len(stash) + (Len(inbox) + 1)
  BY <1>1 DEF i
<1>6. \A k \in 1 .. (Len(inbox) + 1) : Append(inbox, i)[k].n = started + Len(stash) + k
  <2>1. \A k \in 1 .. Len(inbox) : inbox[k].n = started + Len(stash) + k
    BY DEF Inv, Waits
  <2> QED
    <3> TAKE k \in 1 .. (Len(inbox) + 1)
    <3>1. CASE k = Len(inbox) + 1
      BY <1>4, <1>5, <3>1
    <3>2. CASE k # Len(inbox) + 1
      <4>1. k \in 1 .. Len(inbox)
        BY <1>1, <3>2
      <4> QED
        BY <1>4, <2>1, <4>1
    <3> QED
      BY <3>1, <3>2
<1>7. Waits'
  <2>1. /\ inbox' \in Seq(Interrupt) /\ Len(inbox') = Len(inbox) + 1
        /\ \A k \in 1 .. Len(inbox') : inbox'[k].n = started + Len(stash) + k
    <3>1. inbox' \in Seq(Interrupt) /\ Len(inbox') = Len(inbox) + 1
      BY <1>2, <1>4
    <3>2. \A k \in 1 .. (Len(inbox) + 1) : inbox'[k].n = started + Len(stash) + k
      BY <1>2, <1>6
    <3> QED
      BY <3>1, <3>2
  <2>2. UNCHANGED <<setup, stash, started, listening>>
    BY <1>2 DEF loopVars
  <2>3. /\ sent' \in 0 .. MaxInterrupts /\ started + Len(stash) + Len(inbox') = sent'
        /\ Len(inbox') <= QueueCapacity
    <3>1. Len(inbox') = Len(inbox) + 1 /\ sent' = sent + 1 /\ sent < MaxInterrupts
          /\ Len(inbox) < QueueCapacity
      BY <1>2, <2>1
    <3>2. sent' \in 0 .. MaxInterrupts /\ Len(inbox') <= QueueCapacity
      BY <1>1, <3>1
    <3>3. started + Len(stash) + Len(inbox') = sent'
      BY <1>1, <3>1
    <3> QED
      BY <3>2, <3>3
  <2> QED
    BY <2>1, <2>2, <2>3 DEF Inv, Waits
<1>8. Cached' /\ Turning'
  BY <1>2 DEF Inv, Cached, Turning, loopVars
<1>9. Started' /\ EndsDrained'
  BY <1>2 DEF Inv, Started, EndsDrained, taskVars
<1>10. Promise!Send(kind, c)
  <2>1. Append(inbox, i) = inbox \o <<i>> /\ Append(stash \o inbox, i) = (stash \o inbox) \o <<i>>
    <3>1. stash \o inbox \in Seq(Interrupt)
      BY <1>1, ConcatProperties
    <3> QED
      BY <1>1, <1>3, <3>1, AppendIsConcat
  <2>2. stash \o (inbox \o <<i>>) = (stash \o inbox) \o <<i>>
    <3>1. <<i>> \in Seq(Interrupt)
      BY <1>3
    <3> QED
      BY <1>1, <3>1, ConcatAssociative
  <2>3. stash' \o inbox' = Append(stash \o inbox, i)
    BY <1>2, <2>1, <2>2
  <2>4. UNCHANGED <<contexts, lastUse, uses>>
    BY <1>2 DEF loopVars
  <2>5. [d \in Conversations |-> Told(d)'] = [d \in Conversations |-> Told(d)]
    BY <2>4 DEF Told, Position
  <2> QED
    BY <1>2, <2>3, <2>4, <2>5 DEF Promise!Send, i
<1> QED
  BY <1>7, <1>8, <1>9, <1>10 DEF Inv

\* What a turn stashes is what it would have received next.
LEMMA StashKeeps ==
    ASSUME Inv, Stash, UNCHANGED <<boot, tasks>>
    PROVE  Inv' /\ UNCHANGED Promise!vars
<1>1. /\ inbox \in Seq(Interrupt) /\ inbox # <<>> /\ stash = <<>> /\ Len(stash) = 0
      /\ Len(inbox) \in Nat /\ Len(inbox) <= QueueCapacity /\ QueueCapacity \in Nat
      /\ started \in Nat /\ started + Len(inbox) = sent
      /\ \A i \in 1 .. Len(inbox) : inbox[i].n = started + i
  BY LoopAssumption DEF Inv, Waits, Stash
<1>2. /\ stash' = <<Head(inbox)>> /\ inbox' = Tail(inbox) /\ listening' = FALSE
      /\ UNCHANGED <<setup, sent, started, contexts, turn, lastUse, uses, taskVars>>
  BY DEF Stash
<1>3. /\ Head(inbox) \in Interrupt /\ Head(inbox) = inbox[1]
      /\ Tail(inbox) \in Seq(Interrupt) /\ Len(Tail(inbox)) = Len(inbox) - 1
      /\ \A i \in 1 .. Len(Tail(inbox)) : Tail(inbox)[i] = inbox[i + 1]
  BY <1>1, HeadTailProperties
<1>4. <<Head(inbox)>> \o Tail(inbox) = inbox
  <2>1. 1 \in 1 .. Len(inbox) /\ Len(inbox) \in 1 .. Len(inbox)
    BY <1>1
  <2>2. SubSeq(inbox, 1, Len(inbox)) = <<inbox[1]>> \o SubSeq(inbox, 1 + 1, Len(inbox))
    BY <1>1, <2>1, SubSeqRecursiveFirst
  <2>3. Tail(inbox) = SubSeq(inbox, 2, Len(inbox))
    BY <1>1, TailIsSubSeq
  <2>4. SubSeq(inbox, 1, Len(inbox)) = inbox
    BY <1>1
  <2> QED
    BY <1>3, <2>2, <2>3, <2>4
<1>5. Waits'
  <2>1. /\ stash' \in Seq(Interrupt) /\ Len(stash') = 1 /\ stash'[1] = inbox[1]
    BY <1>2, <1>3
  <2>2. \A i \in 1 .. Len(stash') : stash'[i].n = started + i
    BY <1>1, <2>1
  <2>3. \A i \in 1 .. Len(inbox') : inbox'[i].n = started + 1 + i
    <3> TAKE i \in 1 .. Len(inbox')
    <3>1. i + 1 \in 1 .. Len(inbox) /\ inbox'[i] = inbox[i + 1]
      BY <1>1, <1>2, <1>3
    <3>2. inbox[i + 1].n = started + (i + 1)
      BY <1>1, <3>1
    <3> QED
      BY <1>1, <3>1, <3>2
  <2>4. /\ inbox' \in Seq(Interrupt) /\ Len(inbox') <= QueueCapacity
        /\ started + 1 + Len(inbox') = sent
    BY <1>1, <1>2, <1>3
  <2>5. setup \in Setups /\ sent \in 0 .. MaxInterrupts
    BY DEF Inv, Waits
  <2> QED
    <3>1. /\ started' = started /\ sent' = sent /\ setup' = setup
          /\ started' + Len(stash') + Len(inbox') = sent'
      BY <1>2, <2>1, <2>4
    <3>2. \A i \in 1 .. Len(stash') : stash'[i].n = started' + i
      BY <2>2, <3>1
    <3>3. \A i \in 1 .. Len(inbox') : inbox'[i].n = started' + Len(stash') + i
      BY <2>1, <2>3, <3>1
    <3>4. Len(stash') <= 1 /\ listening' = FALSE
      BY <1>2, <2>1
    <3> QED
      BY <1>1, <2>1, <2>4, <2>5, <3>1, <3>2, <3>3, <3>4 DEF Waits
<1>6. Cached' /\ Turning'
  BY <1>2 DEF Inv, Cached, Turning
<1>7. Started' /\ EndsDrained'
  BY <1>2 DEF Inv, Started, EndsDrained, taskVars
<1>8. UNCHANGED Promise!vars
  <2>1. stash' \o inbox' = stash \o inbox
    BY <1>1, <1>2, <1>4, ConcatEmptySeq
  <2>2. [c \in Conversations |-> Told(c)'] = [c \in Conversations |-> Told(c)]
    BY <1>2 DEF Told, Position
  <2> QED
    BY <1>2, <2>1, <2>2 DEF Promise!vars
<1> QED
  BY <1>5, <1>6, <1>7, <1>8 DEF Inv

\* An interrupt that the resolver keeps is begun by no conversation.
LEMMA ResolvedKeeps ==
    ASSUME Inv, Resolved, UNCHANGED <<boot, tasks>>
    PROVE  Inv' /\ Promise!Resolve
<1>1. Receive(Kinds) /\ UNCHANGED <<contexts, turn, listening, lastUse, uses>>
  BY DEF Resolved, loopVars
<1>2. /\ Pending # <<>> /\ Pending' = Tail(Pending)
      /\ inbox' \in Seq(Interrupt) /\ Len(inbox') <= QueueCapacity /\ stash' = <<>>
      /\ started' \in Nat /\ started' + Len(inbox') = sent
      /\ \A i \in 1 .. Len(inbox') : inbox'[i].n = started' + i
      /\ AgentRuns /\ UNCHANGED <<setup, sent, taskVars>>
  BY <1>1, ReceiveKeeps
<1>3. Waits'
  BY <1>1, <1>2 DEF Inv, Waits
<1>4. Cached' /\ Turning'
  BY <1>1 DEF Inv, Cached, Turning
<1>5. Started' /\ EndsDrained'
  BY <1>2 DEF Inv, Started, EndsDrained, AgentRuns, taskVars
<1>6. Promise!Resolve
  <2>1. [c \in Conversations |-> Told(c)'] = [c \in Conversations |-> Told(c)]
    BY <1>1 DEF Told, Position
  <2> QED
    BY <1>1, <1>2, <2>1 DEF Promise!Resolve, Pending
<1> QED
  BY <1>3, <1>4, <1>5, <1>6 DEF Inv

\* What is told by an interrupt that comes to its context, by its kind.
LEMMA UsedKeeps ==
    ASSUME Inv, BeginTurn \/ Reset \/ IgnoreAllow, UNCHANGED <<boot, tasks>>
    PROVE  Inv' /\ Promise!Next
<1> DEFINE i == Upcoming.i
           c == i.conversation
<1>1. ASSUME NEW kinds, Receive(kinds)
      PROVE  /\ i \in Interrupt /\ i.kind \in kinds /\ c \in Conversations /\ i.n \in Nat
             /\ Pending # <<>> /\ Head(Pending) = i
             /\ [d \in Conversations |-> Told(d)][Head(Pending).conversation] = Told(c)
             /\ Told(c) \in Seq(Nat)
  <2>1. i \in Interrupt /\ i.kind \in kinds /\ Pending # <<>> /\ Head(Pending) = i
    BY <1>1, ReceiveKeeps
  <2>2. c \in Conversations /\ i.n \in Nat
    BY <2>1 DEF Interrupt
  <2>3. Told(c) \in Seq(Nat)
    BY ToldType DEF Inv
  <2> HIDE DEF i
  <2> QED
    BY <2>1, <2>2, <2>3
<1>2. ASSUME NEW kinds, Receive(kinds), NEW told \in Seq(Nat), UseContext(c, told),
             turn' \in {NoTurn, c}, listening' \in BOOLEAN
      PROVE  Inv' /\ Promise!Begin(told)
  BY <1>2, BeginKeeps
<1>3. listening \in BOOLEAN
  BY DEF Inv, Waits
<1>4. CASE BeginTurn
  <2>1. /\ Receive({"message", "event"})
        /\ UseContext(c, IF i.kind = "message" THEN Append(Told(c), i.n) ELSE Told(c))
        /\ turn' = c /\ listening' = TRUE
    BY <1>4 DEF BeginTurn, RunIn
  <2> HIDE DEF i
  <2>2. CASE i.kind = "message"
    <3>1. Append(Told(c), i.n) \in Seq(Nat)
      BY <1>1, <2>1, AppendProperties
    <3>2. Inv' /\ Promise!Begin(Append(Told(c), i.n))
      BY <1>2, <2>1, <2>2, <3>1
    <3>3. Promise!Tell
      BY <1>1, <2>1, <2>2, <3>2 DEF Promise!Tell, Promise!Known, Pending
    <3> QED
      BY <3>2, <3>3 DEF Promise!Next
  <2>3. CASE i.kind # "message"
    <3>1. Inv' /\ Promise!Begin(Told(c))
      BY <1>1, <1>2, <2>1, <2>3
    <3>2. Promise!Touch
      BY <1>1, <2>1, <2>3, <3>1 DEF Promise!Touch, Promise!Known, Pending
    <3> QED
      BY <3>1, <3>2 DEF Promise!Next
  <2> QED
    BY <2>2, <2>3
<1>5. CASE Reset
  <2>1. /\ Receive({"reset"}) /\ turn = NoTurn
        /\ UseContext(c, <<>>) /\ turn' = turn /\ listening' = listening
    BY <1>5 DEF Reset, Receive
  <2>2. <<>> \in Seq(Nat)
    OBVIOUS
  <2> HIDE DEF i
  <2>3. Inv' /\ Promise!Begin(<<>>)
    BY <1>2, <1>3, <2>1, <2>2
  <2>4. Pending # <<>> /\ Head(Pending).kind = "reset"
    <3>1. i.kind \in {"reset"} /\ Pending # <<>> /\ Head(Pending) = i
      BY <1>1, <2>1
    <3> QED
      BY <3>1
  <2>5. Promise!Reset
    BY <2>3, <2>4 DEF Promise!Reset, Pending
  <2> QED
    BY <2>3, <2>5 DEF Promise!Next
<1>6. CASE IgnoreAllow
  <2>1. /\ Receive({"allow"}) /\ turn = NoTurn
        /\ UseContext(c, Told(c)) /\ turn' = turn /\ listening' = listening
    BY <1>6 DEF IgnoreAllow, Receive
  <2> HIDE DEF i
  <2>2. Inv' /\ Promise!Begin(Told(c))
    BY <1>1, <1>2, <1>3, <2>1
  <2>3. Promise!Touch
    BY <1>1, <2>1, <2>2 DEF Promise!Touch, Promise!Known, Pending
  <2> QED
    BY <2>2, <2>3 DEF Promise!Next
<1> QED
  BY <1>4, <1>5, <1>6

\* The start, the end of a turn and the end of a task.
LEMMA TasksKeep ==
    ASSUME Inv,
           \/ Start \/ StartFails
           \/ /\ UNCHANGED <<boot, tasks>>
              /\ \/ DropSender \/ EndTurn \/ AgentEnds \/ TurnFails \/ TransportEnds
                 \/ ExitOnSignal \/ ExitWithAgent \/ ExitWithTransport
    PROVE  Inv' /\ UNCHANGED Promise!vars
<1>1. Cached' /\ Waits' /\ Turning' /\ UNCHANGED Promise!vars
  <2>1. /\ UNCHANGED <<setup, queueVars, contexts, lastUse, uses>>
        /\ turn' \in {turn, NoTurn} /\ listening' \in {listening, FALSE}
    BY DEF Start, Open, Register, Hold, Build, SpawnAgent, StartFails, DropSender, EndTurn, AgentEnds,
           TurnFails, TransportEnds, ExitOnSignal, ExitWithAgent, ExitWithTransport, Exit, Step,
           loopVars, taskVars
  <2> QED
    BY <2>1, QuietKeeps
<1>2. Started' /\ EndsDrained'
  <2>1. /\ setup \in Setups /\ Started /\ EndsDrained
        /\ setup.host \in {"daemon", "embedder"}
        /\ setup' = setup /\ started' = started /\ sent' = sent
    BY <1>1 DEF Inv, Waits, Setups, Start, Open, Register, Hold, Build, SpawnAgent, StartFails,
           DropSender, EndTurn, AgentEnds, TurnFails, TransportEnds, ExitOnSignal, ExitWithAgent,
           ExitWithTransport, Exit, Step, queueVars
  <2>2. CASE Start
    BY <2>1, <2>2 DEF Start, Open, Register, Hold, Build, SpawnAgent, Step, Started, EndsDrained, Steps
  <2>3. CASE StartFails
    BY <2>1, <2>3 DEF StartFails, Started, EndsDrained, Steps
  <2>4. CASE AgentEnds /\ UNCHANGED <<boot, tasks>>
    <3>1. /\ process = "up" /\ agent = "running" /\ stash = <<>> /\ inbox = <<>> /\ senders = {}
          /\ agent' = "ended" /\ UNCHANGED <<transport, process, senders>>
      BY <2>4 DEF AgentEnds, AgentRuns, Closed
    <3>2. setup.host = "embedder"
      BY <2>1, <3>1 DEF Started
    <3>3. started = sent
      BY <3>1 DEF Inv, Waits
    <3> QED
      BY <2>1, <2>4, <3>1, <3>2, <3>3 DEF Started, EndsDrained
  <2>5. CASE /\ UNCHANGED <<boot, tasks>>
             /\ \/ DropSender \/ EndTurn \/ TurnFails \/ TransportEnds
                \/ ExitOnSignal \/ ExitWithAgent \/ ExitWithTransport
    BY <2>1, <2>5 DEF DropSender, EndTurn, TurnFails, TransportEnds, ExitOnSignal, ExitWithAgent,
           ExitWithTransport, Exit, Alive, AgentRuns, Started, EndsDrained, taskVars
  <2> QED
    BY <2>2, <2>3, <2>4, <2>5
<1> QED
  BY <1>1, <1>2 DEF Inv

-----------------------------------------------------------------------------

\* Nothing waits and nothing is told at first.
LEMMA InitInv ==
    ASSUME DaemonInit
    PROVE  Inv /\ Promise!Init
<1> USE DEF DaemonInit, Init
<1>1. Cached
  BY LoopAssumption DEF Cached
<1>2. Waits
  <2>1. /\ setup \in Setups /\ inbox = <<>> /\ stash = <<>> /\ Len(inbox) = 0 /\ Len(stash) = 0
        /\ sent = 0 /\ started = 0 /\ listening = FALSE
    OBVIOUS
  <2>2. inbox \in Seq(Interrupt) /\ stash \in Seq(Interrupt)
    BY <2>1
  <2>3. sent \in 0 .. MaxInterrupts /\ Len(inbox) <= QueueCapacity /\ Len(stash) <= 1
    BY <2>1, LoopAssumption
  <2>4. /\ \A i \in 1 .. Len(stash) : stash[i].n = started + i
        /\ \A i \in 1 .. Len(inbox) : inbox[i].n = started + Len(stash) + i
    BY <2>1
  <2> QED
    <3>1. started \in Nat /\ started + Len(stash) + Len(inbox) = sent
      BY <2>1
    <3>2. listening \in BOOLEAN /\ (listening => stash = <<>>)
      BY Zenon, <2>1
    <3> QED
      BY <2>1, <2>2, <2>3, <2>4, <3>1, <3>2 DEF Waits
<1>3. Turning /\ Started /\ EndsDrained
  BY DEF Turning, Started, EndsDrained, Steps
<1>4. Promise!Init
  <2>1. stash \o inbox = <<>>
    BY ConcatEmptySeq
  <2>2. \A c \in Conversations : Told(c) = <<>>
    BY DEF Told, Position
  <2> QED
    BY <2>1, <2>2 DEF Promise!Init
<1> QED
  BY <1>1, <1>2, <1>3, <1>4 DEF Inv

\* Every step keeps the invariant, and is a step of the promise or shows it
\* nothing.
LEMMA StepKeeps ==
    ASSUME Inv, [Next]_daemonVars
    PROVE  Inv' /\ [Promise!Next]_(Promise!vars)
<1>1. CASE Start \/ StartFails
  BY <1>1, TasksKeep
<1>2. CASE Run /\ UNCHANGED <<boot, tasks>>
  <2>1. CASE \E kind \in Kinds, c \in Conversations : Send(kind, c)
    <3>1. PICK kind \in Kinds, c \in Conversations : Send(kind, c)
      BY <2>1
    <3>2. Inv' /\ Promise!Send(kind, c)
      BY <1>2, <3>1, SendKeeps
    <3> QED
      BY <3>2 DEF Promise!Next
  <2>2. CASE Resolved
    <3>1. Inv' /\ Promise!Resolve
      BY <1>2, <2>2, ResolvedKeeps
    <3> QED
      BY <3>1 DEF Promise!Next
  <2>3. CASE BeginTurn \/ Reset \/ IgnoreAllow
    BY <1>2, <2>3, UsedKeeps
  <2>4. CASE Stash
    BY <1>2, <2>4, StashKeeps
  <2>5. CASE \/ DropSender \/ EndTurn \/ AgentEnds \/ TurnFails \/ TransportEnds
             \/ ExitOnSignal \/ ExitWithAgent \/ ExitWithTransport
    BY <1>2, <2>5, TasksKeep
  <2> QED
    BY <1>2, <2>1, <2>2, <2>3, <2>4, <2>5 DEF Run, Agent
<1>3. CASE UNCHANGED daemonVars
  <2>1. UNCHANGED <<setup, queueVars, contexts, turn, listening, lastUse, uses, taskVars, boot, tasks>>
    BY <1>3 DEF daemonVars, vars, loopVars
  <2>2. Cached' /\ Waits' /\ Turning' /\ UNCHANGED Promise!vars
    BY <2>1, QuietKeeps
  <2>3. Started' /\ EndsDrained'
    BY <2>1 DEF Inv, Started, EndsDrained, taskVars, queueVars
  <2> QED
    BY <2>2, <2>3 DEF Inv
<1> QED
  BY <1>1, <1>2, <1>3 DEF Next

\* The invariant holds in every reachable state.
THEOREM Invariance == Spec => []Inv
<1>1. DaemonInit => Inv
  BY InitInv
<1>2. Inv /\ [Next]_daemonVars => Inv'
  BY StepKeeps
<1> QED
  BY <1>1, <1>2, PTL DEF Spec

\* Every reachable state of the process is well typed, and only build() makes a
\* plugin's task run (livvi-daemon's main and AgentBuilder::build).
THEOREM DaemonTypeCorrect == Spec => []DaemonTypeOK
<1>1. ASSUME Inv PROVE DaemonTypeOK
  <2>1. started \in 0 .. sent
    BY <1>1 DEF Inv, Waits
  <2> QED
    BY <1>1, <2>1 DEF Inv, Cached, Waits, Turning, Started, TypeOK, DaemonTypeOK
<1> QED
  BY <1>1, Invariance, PTL

\* The agent ends without an error only where nobody can send any more and all
\* that was sent is begun: never in livvi-daemon, which keeps a sender of its own
\* (Agent::run and main).
THEOREM EndsDrainedHolds == Spec => []EndsDrained
  BY Invariance, PTL DEF Inv

\* The cache, the channel and the stash implement one queue and one transcript
\* per conversation: interrupts are begun in the order of sending, and a
\* transcript is lost to a reset or to Capacity later conversations only
\* (Agent::run).
THEOREM TranscriptsImplemented == Spec => TranscriptsKept
<1>1. DaemonInit => Promise!Init
  BY InitInv
<1>2. Inv /\ [Next]_daemonVars => [Promise!Next]_(Promise!vars)
  BY StepKeeps
<1> QED
  BY <1>1, <1>2, Invariance, PTL DEF Spec, TranscriptsKept, Promise!Spec

=============================================================================
