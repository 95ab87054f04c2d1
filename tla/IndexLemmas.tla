---------------------------- MODULE IndexLemmas ----------------------------
(***************************************************************************)
(* Facts about numbers and sequences that several proofs rest on.          *)
(***************************************************************************)
EXTENDS Integers, Sequences, SequenceTheorems, WellFoundedInduction, TLAPS

\* A set of numbers has a least one: what the proofs about recursive functions
\* use in place of induction.
LEMMA LeastNumber ==
  ASSUME NEW T, T \subseteq Nat, T # {}
  PROVE  \E x \in T : \A y \in T : x <= y
<1>1. PICK R : R = OpToRel(<, Nat)
  OBVIOUS
<1>2. IsWellFoundedOn(R, Nat)
  BY <1>1, NatLessThanWellFounded
<1>3. PICK x \in T : \A y \in T : ~(<<y, x>> \in R)
  BY <1>2, WFMin
<1>4. OpToRel(<, Nat) = {ss \in Nat \X Nat : ss[1] < ss[2]}
  BY DEF OpToRel
<1>5. R = {ss \in Nat \X Nat : ss[1] < ss[2]}
  BY <1>1, <1>4
<1>6. ASSUME NEW y \in T PROVE x <= y
  <2>1. x \in Nat /\ y \in Nat
    OBVIOUS
  <2>2. ~(<<y, x>> \in {ss \in Nat \X Nat : ss[1] < ss[2]})
    BY <1>3, <1>5
  <2> QED
    BY <2>1, <2>2
<1> QED
  BY <1>6

\* A function from 1..n is a sequence of length n.
LEMMA FunctionIsSeq ==
  ASSUME NEW S, NEW n \in Nat, NEW s \in [1..n -> S]
  PROVE  s \in Seq(S) /\ Len(s) = n
<1>1. s \in Seq(S)
  BY SeqDef
<1>2. Len(s) \in Nat /\ 1..Len(s) = 1..n
  BY <1>1, LenProperties
<1>3. ASSUME NEW a \in Nat, NEW b \in Nat, 1..a = 1..b PROVE a = b
  <2>1. a # 0 => a \in 1..b
    BY <1>3
  <2>2. b # 0 => b \in 1..a
    BY <1>3
  <2> QED
    BY <2>1, <2>2
<1> QED
  BY <1>1, <1>2, <1>3

\* The first c indices followed by the next n are the first c + n.
LEMMA IndicesExtend ==
  ASSUME NEW c \in Nat, NEW n \in Nat
  PROVE  [i \in 1..c |-> i] \o [i \in 1..n |-> c + i] = [i \in 1..(c + n) |-> i]
<1> DEFINE s == [i \in 1..c |-> i]
           t == [i \in 1..n |-> c + i]
<1>1. s \in Seq(Nat) /\ Len(s) = c
  <2>1. s \in [1..c -> Nat]
    OBVIOUS
  <2> HIDE DEF s
  <2> QED
    BY <2>1, FunctionIsSeq
<1>2. t \in Seq(Nat) /\ Len(t) = n
  <2>1. t \in [1..n -> Nat]
    OBVIOUS
  <2> HIDE DEF t
  <2> QED
    BY <2>1, FunctionIsSeq
<1> HIDE DEF s, t
<1> DEFINE u == [i \in 1..(c + n) |-> i]
<1>3. u \in Seq(Nat) /\ Len(u) = c + n
  <2>1. u \in [1..(c + n) -> Nat]
    OBVIOUS
  <2> HIDE DEF u
  <2> QED
    BY <2>1, FunctionIsSeq
<1>4. /\ s \o t \in Seq(Nat) /\ Len(s \o t) = c + n
      /\ \A i \in 1..(c + n) : (s \o t)[i] = IF i <= c THEN s[i] ELSE t[i - c]
  BY <1>1, <1>2, ConcatProperties
<1>5. \A i \in 1..(c + n) : u[i] = IF i <= c THEN s[i] ELSE t[i - c]
  BY DEF s, t
<1>6. s \o t = u
  <2> HIDE DEF u
  <2> QED
    BY <1>3, <1>4, <1>5, SeqEqual
<1> QED
  BY <1>6 DEF s, t

\* A sequence is what comes up to a place and what comes behind it.
LEMMA SplitAt ==
  ASSUME NEW S, NEW s \in Seq(S), NEW k \in 0..Len(s)
  PROVE  /\ SubSeq(s, 1, k) \in Seq(S) /\ SubSeq(s, k + 1, Len(s)) \in Seq(S)
         /\ Len(SubSeq(s, 1, k)) = k /\ Len(SubSeq(s, k + 1, Len(s))) = Len(s) - k
         /\ \A i \in 1..k : SubSeq(s, 1, k)[i] = s[i]
         /\ SubSeq(s, 1, k) \o SubSeq(s, k + 1, Len(s)) = s
<1>1. Len(s) \in Nat
  BY LenProperties
<1>2. \A i \in 1..Len(s) : s[i] \in S
  BY ElementOfSeq
<1>3. SubSeq(s, 1, k) \in Seq(S) /\ Len(SubSeq(s, 1, k)) = k
      /\ \A i \in 1..k : SubSeq(s, 1, k)[i] = s[i]
  <2>1. \A i \in 1..k : s[i] \in S
    BY <1>1, <1>2
  <2>2. 1 \in Int /\ k \in Int /\ k >= 0
    BY <1>1
  <2>3. /\ SubSeq(s, 1, k) \in Seq(S)
        /\ Len(SubSeq(s, 1, k)) = IF 1 <= k THEN k - 1 + 1 ELSE 0
        /\ \A i \in 1..(k - 1 + 1) : SubSeq(s, 1, k)[i] = s[1 + i - 1]
    BY <2>1, <2>2, SubSeqProperties
  <2> QED
    BY <2>2, <2>3
<1>4. SubSeq(s, k + 1, Len(s)) \in Seq(S) /\ Len(SubSeq(s, k + 1, Len(s))) = Len(s) - k
  <2> DEFINE m == k + 1
  <2>1. \A i \in m..Len(s) : s[i] \in S
    BY <1>1, <1>2
  <2>2. m \in Int /\ Len(s) \in Int /\ m = k + 1 /\ k \in Int /\ k <= Len(s)
    BY <1>1
  <2> HIDE DEF m
  <2>3. /\ SubSeq(s, m, Len(s)) \in Seq(S)
        /\ Len(SubSeq(s, m, Len(s))) = IF m <= Len(s) THEN Len(s) - m + 1 ELSE 0
    BY <2>1, <2>2, SubSeqProperties
  <2>4. SubSeq(s, m, Len(s)) \in Seq(S) /\ Len(SubSeq(s, m, Len(s))) = Len(s) - k
    BY <2>2, <2>3
  <2> QED
    BY <2>4 DEF m
<1>5. SubSeq(s, 1, k) \o SubSeq(s, k + 1, Len(s)) = s
  <2>1. 1 \in 1..(Len(s) + 1) /\ k \in (1 - 1)..Len(s) /\ Len(s) \in k..Len(s)
    BY <1>1
  <2>2. SubSeq(s, 1, k) \o SubSeq(s, k + 1, Len(s)) = SubSeq(s, 1, Len(s))
    BY <2>1, ConcatAdjacentSubSeq
  <2> QED
    BY <2>2, SubSeqFull
<1> QED
  BY <1>3, <1>4, <1>5

\* Moving the head of one sequence to the end of another leaves the two together
\* as they were.
LEMMA HeadMoves ==
  ASSUME NEW S, NEW s \in Seq(S), NEW t \in Seq(S), t # <<>>
  PROVE  Append(s, Head(t)) \o Tail(t) = s \o t
<1>1. Head(t) \in S /\ Tail(t) \in Seq(S)
  BY HeadTailProperties
<1>2. Append(s, Head(t)) = s \o <<Head(t)>> /\ <<Head(t)>> \in Seq(S)
  BY <1>1, AppendIsConcat
<1>3. <<Head(t)>> \o Tail(t) = t
  <2>1. Len(t) \in Nat \ {0}
    BY EmptySeq
  <2>2. 1 \in 1..Len(t) /\ Len(t) \in 1..Len(t)
    BY <2>1
  <2>3. SubSeq(t, 1, Len(t)) = <<t[1]>> \o SubSeq(t, 2, Len(t))
    BY <2>2, SubSeqRecursiveFirst
  <2> QED
    BY <2>3, SubSeqFull, TailIsSubSeq
<1>4. (s \o <<Head(t)>>) \o Tail(t) = s \o (<<Head(t)>> \o Tail(t))
  BY <1>1, <1>2, ConcatAssociative
<1> QED
  BY <1>2, <1>3, <1>4
-----------------------------------------------------------------------------
(* Measures that go down                                                      *)

\* Of two sequences of numbers, the one that is smaller where they first differ.
Lower(x, y) == \E i \in DOMAIN y : x[i] < y[i] /\ \A j \in 1..(i - 1) : x[j] = y[j]

\* A sequence of numbers that never grows stands still from some point on.
LEMMA StandsStill ==
  ASSUME NEW g \in [Nat -> Nat], NEW k \in Nat, \A n \in Nat : n >= k => g[n + 1] <= g[n]
  PROVE  \E m \in Nat : m >= k /\ \A n \in Nat : n >= m => g[n] = g[m]
<1> DEFINE V == {g[n] : n \in {n \in Nat : n >= k}}
<1>1. PICK v \in V : \A w \in V : v <= w
  <2>1. V \subseteq Nat /\ g[k] \in V
    OBVIOUS
  <2> HIDE DEF V
  <2> QED
    BY <2>1, LeastNumber
<1>2. PICK m \in Nat : m >= k /\ g[m] = v
  OBVIOUS
<1> DEFINE T == {n \in Nat : n >= m /\ g[n] # v}
<1>3. T = {}
  <2> SUFFICES ASSUME T # {} PROVE FALSE
    OBVIOUS
  <2>1. PICK n \in T : \A i \in T : n <= i
    <3>1. T \subseteq Nat
      OBVIOUS
    <3> HIDE DEF T
    <3> QED
      BY <3>1, LeastNumber
  <2>2. n \in Nat /\ n >= m /\ g[n] # v /\ n # m
    BY <1>2
  <2>3. n - 1 \in Nat /\ n - 1 >= m /\ n - 1 >= k /\ (n - 1) + 1 = n
    BY <1>2, <2>2
  <2>4. n - 1 \notin T
    <3>1. ~(n <= n - 1)
      BY <2>2
    <3> HIDE DEF T
    <3> QED
      BY <2>1, <3>1
  <2>5. g[n - 1] = v
    BY <2>3, <2>4
  <2>6. g[n] <= g[n - 1]
    BY <2>3
  <2>7. v <= g[n]
    <3>1. n >= k
      BY <1>2, <2>2
    <3>2. g[n] \in V
      BY <2>2, <3>1
    <3> HIDE DEF V
    <3> QED
      BY <1>1, <3>2
  <2>8. g[n] \in Nat /\ v \in Nat
    BY <1>2, <2>2
  <2> QED
    BY <2>2, <2>5, <2>6, <2>7, <2>8
<1>4. \A n \in Nat : n >= m => g[n] = g[m]
  BY <1>2, <1>3
<1> QED
  BY <1>2, <1>4

\* Where the components before it are the same, a component has not grown.
LEMMA FirstToDiffer ==
  ASSUME NEW N \in Nat, NEW x \in [1..N -> Nat], NEW y \in [1..N -> Nat], Lower(x, y),
         NEW i \in 1..N, \A j \in 1..(i - 1) : x[j] = y[j]
  PROVE  x[i] <= y[i]
<1>1. PICK p \in 1..N : x[p] < y[p] /\ \A j \in 1..(p - 1) : x[j] = y[j]
  BY DEF Lower
<1>2. x[p] \in Nat /\ y[p] \in Nat /\ x[i] \in Nat /\ y[i] \in Nat
  OBVIOUS
<1>3. CASE p \in 1..(i - 1)
  BY <1>1, <1>2, <1>3
<1>4. CASE p = i
  BY <1>1, <1>2, <1>4
<1>5. CASE i \in 1..(p - 1)
  BY <1>1, <1>2, <1>5
<1> QED
  <2>1. p \in 1..(i - 1) \/ p = i \/ i \in 1..(p - 1)
    OBVIOUS
  <2> QED
    BY <1>3, <1>4, <1>5, <2>1

\* A measure of any number of components cannot go down for ever.
LEMMA NoEndlessDescent ==
  ASSUME NEW N \in Nat, NEW f \in [Nat -> [1..N -> Nat]]
  PROVE  ~ \A n \in Nat : Lower(f[n + 1], f[n])
<1> SUFFICES ASSUME \A n \in Nat : Lower(f[n + 1], f[n]) PROVE FALSE
  OBVIOUS
<1> DEFINE Still(i, k) == \A n \in Nat : n >= k => \A j \in 1..i : f[n][j] = f[k][j]
           T == {i \in Nat : i <= N /\ ~ \E k \in Nat : Still(i, k)}
<1>1. T = {}
  <2> SUFFICES ASSUME T # {} PROVE FALSE
    OBVIOUS
  <2>1. PICK i \in T : \A j \in T : i <= j
    <3>1. T \subseteq Nat
      OBVIOUS
    <3> HIDE DEF T
    <3> QED
      BY <3>1, LeastNumber
  <2>2. i # 0
    <3>1. Still(0, 0)
      OBVIOUS
    <3> QED
      BY <3>1
  <2>3. i \in 1..N /\ i - 1 \in Nat /\ i - 1 <= N
    BY <2>2
  <2>4. i - 1 \notin T
    <3>1. ~(i <= i - 1)
      BY <2>3
    <3> HIDE DEF T
    <3> QED
      BY <2>1, <3>1
  <2>5. PICK k \in Nat : Still(i - 1, k)
    BY <2>3, <2>4
  <2> DEFINE g == [n \in Nat |-> f[n][i]]
  <2>6. g \in [Nat -> Nat]
    <3>1. \A n \in Nat : f[n] \in [1..N -> Nat]
      OBVIOUS
    <3>2. \A n \in Nat : f[n][i] \in Nat
      BY <2>3, <3>1
    <3> QED
      BY <3>2
  <2>7. \A n \in Nat : n >= k => g[n + 1] <= g[n]
    <3> SUFFICES ASSUME NEW n \in Nat, n >= k PROVE f[n + 1][i] <= f[n][i]
      OBVIOUS
    <3>1. n + 1 \in Nat /\ n + 1 >= k
      OBVIOUS
    <3>2. \A j \in 1..(i - 1) : f[n + 1][j] = f[n][j]
      BY <2>5, <3>1
    <3>3. f[n + 1] \in [1..N -> Nat] /\ f[n] \in [1..N -> Nat] /\ Lower(f[n + 1], f[n])
      BY <3>1
    <3> QED
      BY ONLY <2>3, <3>2, <3>3, FirstToDiffer
  <2>8. PICK m \in Nat : m >= k /\ \A n \in Nat : n >= m => g[n] = g[m]
    <3> HIDE DEF g
    <3> QED
      BY <2>6, <2>7, StandsStill
  <2>9. Still(i, m)
    <3> SUFFICES ASSUME NEW n \in Nat, n >= m, NEW j \in 1..i PROVE f[n][j] = f[m][j]
      OBVIOUS
    <3>1. CASE j = i
      <4>1. g[n] = g[m]
        BY <2>8
      <4> QED
        BY <3>1, <4>1
    <3>2. CASE j \in 1..(i - 1)
      <4>1. n >= k
        BY <2>8
      <4> QED
        BY <2>5, <2>8, <3>2, <4>1
    <3> QED
      BY <2>3, <3>1, <3>2
  <2> QED
    BY <2>1, <2>9
<1>2. PICK k \in Nat : Still(N, k)
  <2>1. N \notin T
    BY <1>1
  <2> QED
    BY <2>1
<1>3. k + 1 \in Nat /\ k + 1 >= k
  OBVIOUS
<1>4. f[k + 1] \in [1..N -> Nat] /\ f[k] \in [1..N -> Nat] /\ Lower(f[k + 1], f[k])
  BY <1>3
<1>5. \A j \in 1..N : f[k + 1][j] = f[k][j]
  BY <1>2, <1>3
<1>6. PICK p \in 1..N : f[k + 1][p] < f[k][p]
  BY <1>4 DEF Lower
<1>7. f[k + 1][p] = f[k][p] /\ f[k][p] \in Nat
  BY <1>4, <1>5
<1>8. \A m, n \in Nat : m = n => ~(m < n)
  OBVIOUS
<1> QED
  BY ONLY <1>6, <1>7, <1>8
=============================================================================
