------------------------------ MODULE Recursion ------------------------------
(***************************************************************************)
(* Induction over the naturals, said with a set in place of a predicate,   *)
(* and the functions that recursion over numbers and folds define.         *)
(*                                                                         *)
(* A theorem that takes an operator cannot be applied to one by the        *)
(* provers, so a proof by induction names the set of the numbers for which *)
(* its claim holds and shows, with Induction, that it is all of Nat.       *)
(***************************************************************************)
EXTENDS Naturals, SequencesExt, SequenceTheorems, FiniteSetTheorems,
        WellFoundedInduction, TLAPS

\* A set of numbers that is not empty has a smallest one: the interval up to
\* it is minimal among the finite sets of numbers.
LEMMA Smallest ==
    ASSUME NEW T \in SUBSET Nat, T # {}
    PROVE  \E m \in T : \A n \in T : m <= n
<1> DEFINE R == StrictSubsetOrdering(Nat)
           U == {1 .. n : n \in T}
<1>1. U \subseteq FiniteSubsetsOf(Nat)
  <2>1. ASSUME NEW n \in T  PROVE IsFiniteSet(1 .. n) /\ 1 .. n \subseteq Nat
    BY FS_Interval
  <2> QED
    BY <2>1 DEF FiniteSubsetsOf
<1>2. U # {}
  OBVIOUS
<1>3. IsWellFoundedOn(R, FiniteSubsetsOf(Nat))
  BY FS_StrictSubsetOrderingWellFounded
<1>4. PICK x \in U : \A y \in U : <<y, x>> \notin R
  <2> HIDE DEF R, U
  <2> QED
    BY <1>1, <1>2, <1>3, WFMin
<1>5. PICK m \in T : x = 1 .. m
  OBVIOUS
<1>6. ASSUME NEW n \in T, n < m  PROVE FALSE
  <2>1. 1 .. n \subseteq 1 .. m /\ m \in 1 .. m /\ m \notin 1 .. n
    BY <1>6
  <2>2. <<1 .. n, x>> \in R
    BY <2>1, <1>5 DEF StrictSubsetOrdering
  <2> QED
    BY <2>2, <1>4
<1> QED
  BY <1>6

\* A set that has 0, and n + 1 with every n, has every natural.
LEMMA Induction ==
    ASSUME NEW P \in SUBSET Nat, 0 \in P, \A n \in P : n + 1 \in P
    PROVE  P = Nat
<1> SUFFICES ASSUME Nat \ P # {} PROVE FALSE
  OBVIOUS
<1>1. PICK m \in Nat \ P : \A n \in Nat \ P : m <= n
  <2> DEFINE T == Nat \ P
  <2>1. T \in SUBSET Nat /\ T # {}
    OBVIOUS
  <2> HIDE DEF T
  <2>2. \E m \in T : \A n \in T : m <= n
    BY <2>1, Smallest
  <2> QED
    BY <2>2 DEF T
<1>2. m - 1 \in Nat /\ m - 1 \in P
  BY <1>1
<1> QED
  BY <1>1, <1>2

-----------------------------------------------------------------------------

\* The functions of the sets within 1 .. n that fold step from base, the greatest
\* number last.
Folds(n, T, base, step) ==
    {f \in [SUBSET (1 .. n) -> T] :
        f = [s \in SUBSET (1 .. n) |->
                IF s = {} THEN base ELSE step[<<f[s \ {Max(s)}], Max(s)>>]]}

\* The greatest of a set within an interval that has the last number of it.
LEMMA LastIsMax ==
    ASSUME NEW n \in Nat, NEW s \in SUBSET (1 .. n + 1), n + 1 \in s
    PROVE  Max(s) = n + 1
<1>1. \A y \in s : n + 1 >= y
  OBVIOUS
<1>2. ASSUME NEW x \in s, \A y \in s : x >= y  PROVE x = n + 1
  <2>1. x >= n + 1 /\ x \in 1 .. n + 1
    BY <1>2
  <2> QED
    BY <2>1
<1> QED
  BY <1>1, <1>2 DEF Max

\* A set within an interval that is not empty has a greatest number.
LEMMA GreatestWithin ==
    ASSUME NEW n \in Nat, NEW s \in SUBSET (1 .. n), s # {}
    PROVE  Max(s) \in s
<1> DEFINE D == {n - i : i \in s}
<1>1. D \in SUBSET Nat /\ D # {}
  <2>1. \A i \in s : n - i \in Nat
    OBVIOUS
  <2> QED
    BY <2>1
<1>2. PICK d \in D : \A e \in D : d <= e
  <2> HIDE DEF D
  <2> QED
    BY <1>1, Smallest
<1>3. PICK m \in s : d = n - m
  OBVIOUS
<1>4. ASSUME NEW i \in s  PROVE m >= i
  <2>1. d <= n - i
    BY <1>2
  <2> HIDE DEF D
  <2> QED
    BY <2>1, <1>3
<1> QED
  BY <1>4 DEF Max

\* What an interval is without its greatest number.
LEMMA MaxOfInterval ==
    ASSUME NEW n \in Nat, n # 0
    PROVE  /\ 1 .. n # {} /\ Max(1 .. n) = n
           /\ (1 .. n) \ {n} = 1 .. (n - 1)
<1>1. n - 1 \in Nat /\ n = (n - 1) + 1
  OBVIOUS
<1>2. Max(1 .. n) = n
  BY <1>1, LastIsMax
<1> QED
  BY <1>2

\* A fold exists, whatever is folded.
LEMMA FoldExists ==
    ASSUME NEW T, NEW base \in T, NEW step, NEW n \in Nat,
           step \in [T \X (1 .. n) -> T]
    PROVE  Folds(n, T, base, step) # {}
<1> DEFINE P == {k \in Nat : k <= n => Folds(k, T, base, step) # {}}
<1>1. 0 \in P
  <2> DEFINE f == [s \in SUBSET (1 .. 0) |-> base]
  <2>1. SUBSET (1 .. 0) = {{}}
    OBVIOUS
  <2>2. f = [s \in SUBSET (1 .. 0) |-> IF s = {} THEN base ELSE step[<<f[s \ {Max(s)}], Max(s)>>]]
    BY <2>1
  <2>3. f \in Folds(0, T, base, step)
    BY <2>2 DEF Folds
  <2> QED
    BY <2>3
<1>2. ASSUME NEW k \in P  PROVE k + 1 \in P
  <2> SUFFICES ASSUME k + 1 <= n PROVE Folds(k + 1, T, base, step) # {}
    OBVIOUS
  <2>1. PICK f \in Folds(k, T, base, step) : TRUE
    OBVIOUS
  <2> DEFINE g == [s \in SUBSET (1 .. k + 1) |->
                      IF k + 1 \in s THEN step[<<f[s \ {k + 1}], k + 1>>] ELSE f[s]]
  <2>2. /\ f \in [SUBSET (1 .. k) -> T]
        /\ f = [s \in SUBSET (1 .. k) |->
                   IF s = {} THEN base ELSE step[<<f[s \ {Max(s)}], Max(s)>>]]
    BY <2>1 DEF Folds
  <2>3. k + 1 \in 1 .. n
    OBVIOUS
  <2>4. ASSUME NEW s \in SUBSET (1 .. k + 1)
        PROVE  /\ k + 1 \notin s => s \in SUBSET (1 .. k)
               /\ s \ {k + 1} \in SUBSET (1 .. k)
               /\ k + 1 \in s => Max(s) = k + 1
    BY LastIsMax
  <2>5. g \in [SUBSET (1 .. k + 1) -> T]
    BY <2>2, <2>3, <2>4
  <2>6. ASSUME NEW s \in SUBSET (1 .. k + 1)
        PROVE  g[s] = IF s = {} THEN base ELSE step[<<g[s \ {Max(s)}], Max(s)>>]
    <3>1. CASE k + 1 \in s
      <4>1. g[s] = step[<<f[s \ {k + 1}], k + 1>>] /\ g[s \ {k + 1}] = f[s \ {k + 1}]
        BY <3>1
      <4> QED
        BY <2>4, <3>1, <4>1
    <3>2. CASE k + 1 \notin s
      <4>1. g[s] = f[s] /\ s \in SUBSET (1 .. k)
        BY <2>4, <3>2
      <4>2. f[s] = IF s = {} THEN base ELSE step[<<f[s \ {Max(s)}], Max(s)>>]
        BY <2>2, <4>1
      <4>3. s # {} => g[s \ {Max(s)}] = f[s \ {Max(s)}]
        BY <3>2, <4>1
      <4> QED
        BY <4>1, <4>2, <4>3
    <3> QED
      BY <3>1, <3>2
  <2>7. g \in Folds(k + 1, T, base, step)
    <3> HIDE DEF g
    <3> QED
      BY <2>5, <2>6 DEF Folds
  <2> QED
    BY <2>7
<1>3. P = Nat
  <2>1. P \in SUBSET Nat
    OBVIOUS
  <2> HIDE DEF P
  <2> QED
    BY <1>1, <1>2, <2>1, Induction
<1> QED
  BY <1>3

\* The functions of the numbers up to n that step defines from base.
Recursions(n, T, base, step) ==
    {f \in [0 .. n -> T] :
        /\ f[0] = base
        /\ \A i \in 1 .. n : f[i] = step[<<f[i - 1], i>>]}

\* Such a function exists, whatever the step: a fold over the intervals from 1.
LEMMA RecursionExists ==
    ASSUME NEW T, NEW base \in T, NEW step, NEW n \in Nat,
           step \in [T \X (1 .. n) -> T]
    PROVE  Recursions(n, T, base, step) # {}
<1>1. PICK g \in Folds(n, T, base, step) : TRUE
  BY FoldExists
<1>2. /\ g \in [SUBSET (1 .. n) -> T]
      /\ g = [s \in SUBSET (1 .. n) |->
                IF s = {} THEN base ELSE step[<<g[s \ {Max(s)}], Max(s)>>]]
  BY <1>1 DEF Folds
<1> DEFINE f == [i \in 0 .. n |-> g[1 .. i]]
<1>3. \A i \in 0 .. n : 1 .. i \in SUBSET (1 .. n)
  OBVIOUS
<1>4. f \in [0 .. n -> T]
  BY <1>2, <1>3
<1>5. f[0] = base
  <2>1. 1 .. 0 = {}
    OBVIOUS
  <2> QED
    BY <1>2, <1>3, <2>1
<1>6. ASSUME NEW i \in 1 .. n  PROVE f[i] = step[<<f[i - 1], i>>]
  <2>1. 1 .. i # {} /\ Max(1 .. i) = i /\ (1 .. i) \ {i} = 1 .. (i - 1)
    <3>1. i \in Nat /\ i # 0
      OBVIOUS
    <3> QED
      BY <3>1, MaxOfInterval
  <2>2. f[i] = g[1 .. i] /\ f[i - 1] = g[1 .. (i - 1)]
    OBVIOUS
  <2>3. 1 .. i \in SUBSET (1 .. n)
    OBVIOUS
  <2>4. g[1 .. i] = step[<<g[(1 .. i) \ {Max(1 .. i)}], Max(1 .. i)>>]
    BY <1>2, <2>1, <2>3
  <2> HIDE DEF f
  <2> QED
    BY <2>1, <2>2, <2>4
<1> HIDE DEF f
<1>7. f \in Recursions(n, T, base, step)
  BY <1>4, <1>5, <1>6 DEF Recursions
<1> QED
  BY <1>7

-----------------------------------------------------------------------------

\* Sequences that one or two elements are added to.
LEMMA Appended ==
    ASSUME NEW D, NEW s \in Seq(D), NEW a \in D, NEW b \in D
    PROVE  /\ <<a>> \in Seq(D) /\ <<a, b>> \in Seq(D)
           /\ s \o <<a>> = Append(s, a)
           /\ s \o <<a, b>> = Append(Append(s, a), b)
           /\ Front(Append(s, a)) = s
<1>1. PICK n \in Nat : n = Len(s)
  BY LenProperties
<1>2. <<a>> \in Seq(D) /\ Len(<<a>>) = 1 /\ <<a>>[1] = a
  OBVIOUS
<1>3. <<a, b>> \in Seq(D) /\ Len(<<a, b>>) = 2 /\ <<a, b>>[1] = a /\ <<a, b>>[2] = b
  OBVIOUS
<1>4. PICK x, y : x = <<a>> /\ y = <<a, b>>
  OBVIOUS
<1>5. PICK p, q : p = Append(s, a) /\ q = Append(p, b)
  OBVIOUS
<1>6. /\ p \in Seq(D) /\ Len(p) = n + 1 /\ \A i \in 1 .. n : p[i] = s[i]
      /\ p[n + 1] = a
  BY <1>1, <1>5, AppendProperties
<1>7. /\ q \in Seq(D) /\ Len(q) = (n + 1) + 1 /\ \A i \in 1 .. n + 1 : q[i] = p[i]
      /\ q[(n + 1) + 1] = b
  BY <1>5, <1>6, AppendProperties
<1>8. s \o x = p
  <2>1. PICK u : u = s \o x
    OBVIOUS
  <2>2. /\ u \in Seq(D) /\ Len(u) = n + 1
        /\ \A i \in 1 .. n + 1 : u[i] = IF i <= n THEN s[i] ELSE x[i - n]
    BY <1>1, <1>2, <1>4, <2>1, ConcatProperties
  <2>3. \A i \in 1 .. n : u[i] = s[i]
    BY <2>2
  <2>4. u[n + 1] = a
    <3>1. u[n + 1] = x[(n + 1) - n]
      BY <2>2
    <3>2. (n + 1) - n = 1
      OBVIOUS
    <3> QED
      BY <1>2, <1>4, <3>1, <3>2
  <2>5. \A i \in 1 .. n + 1 : u[i] = p[i]
    BY <1>6, <2>3, <2>4
  <2> QED
    BY <1>6, <2>1, <2>2, <2>5, SeqEqual
<1>9. s \o y = q
  <2>1. PICK u : u = s \o y
    OBVIOUS
  <2>2. /\ u \in Seq(D) /\ Len(u) = n + 2
        /\ \A i \in 1 .. n + 2 : u[i] = IF i <= n THEN s[i] ELSE y[i - n]
    BY <1>1, <1>3, <1>4, <2>1, ConcatProperties
  <2>3. \A i \in 1 .. n : u[i] = s[i]
    BY <2>2
  <2>4. u[n + 1] = a
    <3>1. u[n + 1] = y[(n + 1) - n]
      BY <2>2
    <3>2. (n + 1) - n = 1
      OBVIOUS
    <3> QED
      BY <1>3, <1>4, <3>1, <3>2
  <2>5. u[n + 2] = b
    <3>1. u[n + 2] = y[(n + 2) - n]
      BY <2>2
    <3>2. (n + 2) - n = 2
      OBVIOUS
    <3> QED
      BY <1>3, <1>4, <3>1, <3>2
  <2>6. \A i \in 1 .. n + 2 : u[i] = q[i]
    BY <1>6, <1>7, <2>3, <2>4, <2>5
  <2>7. Len(u) = Len(q) /\ \A i \in 1 .. Len(u) : u[i] = q[i]
    BY <1>7, <2>2, <2>6
  <2> QED
    BY <1>7, <2>1, <2>2, <2>7, SeqEqual
<1>10. Front(p) = s
  <2>1. Front(p) = SubSeq(p, 1, n)
    BY <1>6 DEF Front
  <2>2. \A i \in 1 .. n : p[i] \in D
    BY <1>1, <1>6, ElementOfSeq
  <2>3. PICK u : u = SubSeq(p, 1, n)
    OBVIOUS
  <2>4. /\ u \in Seq(D) /\ Len(u) = IF 1 <= n THEN n - 1 + 1 ELSE 0
        /\ \A i \in 1 .. n - 1 + 1 : u[i] = p[1 + i - 1]
    BY <2>2, <2>3, SubSeqProperties
  <2>5. Len(u) = n /\ \A i \in 1 .. n : u[i] = s[i]
    <3>1. Len(u) = n
      BY <2>4
    <3>2. ASSUME NEW i \in 1 .. n  PROVE u[i] = s[i]
      <4>1. 1 + i - 1 = i /\ i \in 1 .. n - 1 + 1
        OBVIOUS
      <4> QED
        BY <1>6, <2>4, <4>1
    <3> QED
      BY <3>1, <3>2
  <2> QED
    BY <1>1, <2>1, <2>3, <2>4, <2>5, SeqEqual
<1> QED
  BY <1>2, <1>3, <1>4, <1>5, <1>8, <1>9, <1>10

\* The sequences of seqs up to one, as FlattenSeq joins them.
FlatOf(seqs) ==
    CHOOSE f : f = [i \in 1 .. Len(seqs) |-> IF i = 1 THEN seqs[i] ELSE f[i - 1] \o seqs[i]]

\* It is made from the first sequence to the last.
LEMMA FlatSteps ==
    ASSUME NEW D, NEW seqs \in Seq(Seq(D))
    PROVE  LET f == FlatOf(seqs)
               n == Len(seqs)
           IN  /\ FlattenSeq(seqs) = IF n = 0 THEN <<>> ELSE f[n]
               /\ n # 0 => f[1] = seqs[1]
               /\ \A i \in 2 .. n : f[i] = f[i - 1] \o seqs[i]
               /\ \A i \in 1 .. n : f[i] \in Seq(D)
<1>0. PICK n \in Nat : n = Len(seqs)
  BY LenProperties
<1> DEFINE step == [p \in Seq(D) \X (1 .. n) |-> p[1] \o seqs[p[2]]]
<1>1. n \in Nat /\ DOMAIN seqs = 1 .. n /\ \A i \in 1 .. n : seqs[i] \in Seq(D)
  BY <1>0, LenProperties, ElementOfSeq
<1>2. PICK h \in [0 .. n -> Seq(D)] :
         /\ h[0] = <<>>
         /\ \A i \in 1 .. n : h[i] = step[<<h[i - 1], i>>]
  <2>1. step \in [Seq(D) \X (1 .. n) -> Seq(D)]
    BY <1>1, ConcatProperties
  <2>2. <<>> \in Seq(D)
    BY EmptySeq
  <2> HIDE DEF step
  <2>3. Recursions(n, Seq(D), <<>>, step) # {}
    BY <2>1, <2>2, RecursionExists
  <2>4. PICK h \in Recursions(n, Seq(D), <<>>, step) : TRUE
    BY <2>3
  <2>5. /\ h \in [0 .. n -> Seq(D)] /\ h[0] = <<>>
        /\ \A i \in 1 .. n : h[i] = step[<<h[i - 1], i>>]
    BY <2>4 DEF Recursions
  <2> QED
    BY <2>5 DEF step
<1>3. ASSUME NEW i \in 1 .. n  PROVE h[i] = h[i - 1] \o seqs[i]
  <2>1. i - 1 \in 0 .. n
    OBVIOUS
  <2>2. h[i - 1] \in Seq(D)
    BY <2>1
  <2>3. <<h[i - 1], i>> \in Seq(D) \X (1 .. n)
    BY <2>2
  <2>4. step[<<h[i - 1], i>>] = h[i - 1] \o seqs[i]
    BY <2>3
  <2> HIDE DEF step
  <2> QED
    BY <1>2, <2>4
<1> DEFINE f == [i \in 1 .. n |-> h[i]]
<1>4. ASSUME NEW i \in 1 .. n
      PROVE  f[i] = IF i = 1 THEN seqs[i] ELSE f[i - 1] \o seqs[i]
  <2>1. CASE i = 1
    <3> HIDE DEF step
    <3>1. h[i] = h[0] \o seqs[i]
      <4>1. i - 1 = 0
        BY <2>1
      <4> QED
        BY <1>3, <4>1
    <3>2. h[0] \o seqs[i] = seqs[i]
      <4>1. h[0] = <<>> /\ seqs[i] \in Seq(D)
        BY <1>1, <1>2
      <4> QED
        BY <4>1, ConcatEmptySeq
    <3> QED
      BY <2>1, <3>1, <3>2
  <2>2. CASE i # 1
    <3> HIDE DEF step
    <3>1. i - 1 \in 1 .. n /\ f[i - 1] = h[i - 1] /\ f[i] = h[i]
      BY <1>1, <2>2
    <3> HIDE DEF f
    <3> QED
      BY <1>3, <2>2, <3>1
  <2> QED
    BY <2>1, <2>2
<1> HIDE DEF step
<1>5. f = [i \in 1 .. Len(seqs) |-> IF i = 1 THEN seqs[i] ELSE f[i - 1] \o seqs[i]]
  BY <1>0, <1>4
<1> HIDE DEF f
<1>6. PICK g : g = FlatOf(seqs)
  OBVIOUS
<1>7. g = [i \in 1 .. n |-> IF i = 1 THEN seqs[i] ELSE g[i - 1] \o seqs[i]]
  BY <1>0, <1>5, <1>6 DEF FlatOf
<1>8. FlattenSeq(seqs) = IF n = 0 THEN seqs ELSE g[n]
  BY <1>0, <1>6 DEF FlattenSeq, FlatOf
<1>9. n = 0 => seqs = <<>>
  BY <1>0, EmptySeq
<1>10. (n # 0 => g[1] = seqs[1]) /\ \A i \in 2 .. n : g[i] = g[i - 1] \o seqs[i]
  <2>1. n # 0 => 1 \in 1 .. n
    OBVIOUS
  <2>2. \A i \in 2 .. n : i \in 1 .. n /\ i # 1
    OBVIOUS
  <2> QED
    BY <1>7, <2>1, <2>2
<1>11. \A i \in 1 .. n : g[i] \in Seq(D)
  <2> DEFINE P == {i \in Nat : i + 1 <= n => g[i + 1] \in Seq(D)}
  <2>1. 0 \in P
    BY <1>1, <1>10
  <2>2. ASSUME NEW i \in P  PROVE i + 1 \in P
    <3> SUFFICES ASSUME (i + 1) + 1 <= n PROVE g[(i + 1) + 1] \in Seq(D)
      OBVIOUS
    <3>1. g[i + 1] \in Seq(D)
      BY <1>1
    <3>2. (i + 1) + 1 \in 2 .. n /\ ((i + 1) + 1) - 1 = i + 1
      BY <1>1
    <3>3. g[(i + 1) + 1] = g[i + 1] \o seqs[(i + 1) + 1] /\ seqs[(i + 1) + 1] \in Seq(D)
      <4>1. PICK k : k = (i + 1) + 1
        OBVIOUS
      <4>2. k \in 2 .. n /\ k \in 1 .. n /\ k - 1 = i + 1
        BY <3>2, <4>1
      <4>3. g[k] = g[k - 1] \o seqs[k] /\ seqs[k] \in Seq(D)
        BY <1>1, <1>10, <4>2
      <4> QED
        BY <4>1, <4>2, <4>3
    <3> QED
      BY <3>1, <3>3, ConcatProperties
  <2>3. P = Nat
    <3>1. P \in SUBSET Nat
      OBVIOUS
    <3> HIDE DEF P
    <3> QED
      BY <2>1, <2>2, <3>1, Induction
  <2>4. ASSUME NEW i \in 1 .. n  PROVE g[i] \in Seq(D)
    <3>1. i - 1 \in P /\ (i - 1) + 1 = i
      <4>1. i - 1 \in Nat /\ (i - 1) + 1 = i
        OBVIOUS
      <4> HIDE DEF P
      <4> QED
        BY <2>3, <4>1
    <3> QED
      BY <1>1, <3>1
  <2> QED
    BY <2>4
<1> QED
  BY <1>0, <1>6, <1>8, <1>9, <1>10, <1>11

\* What is flattened has the sequences one after another.
LEMMA FlattenFacts ==
    ASSUME NEW D, NEW seqs \in Seq(Seq(D))
    PROVE  /\ FlattenSeq(seqs) \in Seq(D)
           /\ Len(seqs) = 0 => FlattenSeq(seqs) = <<>>
           /\ \A last \in Seq(D) : FlattenSeq(Append(seqs, last)) = FlattenSeq(seqs) \o last
<1>0. PICK n \in Nat : n = Len(seqs)
  BY LenProperties
<1>1. \A i \in 1 .. n : seqs[i] \in Seq(D)
  BY <1>0, ElementOfSeq
<1>2. FlattenSeq(seqs) \in Seq(D)
  <2>1. CASE n = 0
    <3>1. FlattenSeq(seqs) = <<>>
      BY <1>0, <2>1, FlatSteps
    <3> QED
      BY <3>1, EmptySeq
  <2>2. CASE n # 0
    <3>1. n \in 1 .. n
      BY <2>2
    <3>2. FlattenSeq(seqs) = FlatOf(seqs)[n] /\ FlatOf(seqs)[n] \in Seq(D)
      BY <1>0, <2>2, <3>1, FlatSteps
    <3> QED
      BY <3>2
  <2> QED
    BY <2>1, <2>2
<1>3. Len(seqs) = 0 => FlattenSeq(seqs) = <<>>
  BY FlatSteps
<1>4. ASSUME NEW last \in Seq(D)
      PROVE  FlattenSeq(Append(seqs, last)) = FlattenSeq(seqs) \o last
  <2> DEFINE more == Append(seqs, last)
  <2>1. /\ more \in Seq(Seq(D)) /\ Len(more) = n + 1
        /\ \A i \in 1 .. n : more[i] = seqs[i]
        /\ more[n + 1] = last
    BY <1>0, AppendProperties
  <2> HIDE DEF more
  <2>2. CASE n = 0
    <3>1. Len(more) = 1 /\ more[1] = last
      BY <2>1, <2>2
    <3>2. FlattenSeq(more) = FlatOf(more)[1] /\ FlatOf(more)[1] = more[1]
      <4>1. FlattenSeq(more) = IF Len(more) = 0 THEN <<>> ELSE FlatOf(more)[Len(more)]
        BY <2>1, FlatSteps
      <4>2. Len(more) # 0 => FlatOf(more)[1] = more[1]
        BY <2>1, FlatSteps
      <4> QED
        BY <3>1, <4>1, <4>2
    <3>3. FlattenSeq(more) = last
      BY <3>1, <3>2
    <3>4. <<>> \o last = last
      BY ConcatEmptySeq
    <3> QED
      BY <1>0, <1>3, <2>2, <3>3, <3>4 DEF more
  <2>3. CASE n # 0
    <3> DEFINE P == {i \in Nat : i + 1 <= n => FlatOf(more)[i + 1] = FlatOf(seqs)[i + 1]}
    <3>1. 0 \in P
      <4>1. FlatOf(more)[1] = more[1]
        <5>1. Len(more) # 0
          BY <2>1
        <5> QED
          BY <2>1, <5>1, FlatSteps
      <4>2. FlatOf(seqs)[1] = seqs[1]
        BY <1>0, <2>3, FlatSteps
      <4>3. more[1] = seqs[1]
        BY <1>1, <2>1, <2>3
      <4> QED
        BY <4>1, <4>2, <4>3
    <3>2. ASSUME NEW i \in P  PROVE i + 1 \in P
      <4> SUFFICES ASSUME (i + 1) + 1 <= n
                   PROVE  FlatOf(more)[(i + 1) + 1] = FlatOf(seqs)[(i + 1) + 1]
        OBVIOUS
      <4> DEFINE k == (i + 1) + 1
      <4>1. k \in 2 .. n /\ k \in 2 .. Len(more) /\ k - 1 = i + 1 /\ k \in 1 .. n
        BY <1>1, <2>1
      <4>2. FlatOf(more)[i + 1] = FlatOf(seqs)[i + 1]
        BY <1>1
      <4> HIDE DEF k
      <4>3. FlatOf(more)[k] = FlatOf(more)[k - 1] \o more[k]
        BY <2>1, <4>1, FlatSteps
      <4>4. FlatOf(seqs)[k] = FlatOf(seqs)[k - 1] \o seqs[k]
        BY <1>0, <4>1, FlatSteps
      <4>5. FlatOf(more)[k] = FlatOf(seqs)[k]
        BY <2>1, <4>1, <4>2, <4>3, <4>4
      <4> QED
        BY <4>5 DEF k
    <3>3. P = Nat
      <4>1. P \in SUBSET Nat
        OBVIOUS
      <4> HIDE DEF P
      <4> QED
        BY <3>1, <3>2, <4>1, Induction
    <3>4. FlatOf(more)[n] = FlatOf(seqs)[n]
      <4>1. n - 1 \in Nat /\ (n - 1) + 1 = n
        BY <2>3
      <4>2. n - 1 \in P
        <5> HIDE DEF P
        <5> QED
          BY <3>3, <4>1
      <4> QED
        BY <4>1, <4>2
    <3>5. n + 1 \in 2 .. Len(more) /\ (n + 1) - 1 = n /\ n + 1 # 0
      BY <1>1, <2>1, <2>3
    <3>6. FlattenSeq(more) = FlatOf(more)[n + 1]
      BY <2>1, <3>5, FlatSteps
    <3>7. FlatOf(more)[n + 1] = FlatOf(more)[n] \o last
      <4>1. FlatOf(more)[n + 1] = FlatOf(more)[(n + 1) - 1] \o more[n + 1]
        BY <2>1, <3>5, FlatSteps
      <4> QED
        BY <2>1, <3>5, <4>1
    <3>8. FlattenSeq(seqs) = FlatOf(seqs)[n]
      BY <1>0, <2>3, FlatSteps
    <3> QED
      BY <3>4, <3>6, <3>7, <3>8 DEF more
  <2> QED
    BY <2>2, <2>3
<1> QED
  BY <1>2, <1>3, <1>4

=============================================================================
