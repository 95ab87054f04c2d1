------------------------- MODULE BasenetWalkProofs -------------------------
(***************************************************************************)
(* Proofs about BasenetWalk, for any fan-out ceiling, limits and number of *)
(* legs: the legs are shown once and in order, a walk that completes has   *)
(* shown them all, and it implements CollectionWalk.                       *)
(***************************************************************************)
EXTENDS BasenetWalk, IndexLemmas, SequenceTheorems, TLAPS

\* The inductive invariant: the properties themselves, with the types, and that
\* a walk under way never stands at the end of a full batch, so that every page
\* but the last has something to show.
IInv ==
  /\ TypeOK /\ LegsOnce /\ CompleteShowsAll
  /\ phase = "walking" => cursor < MaxFanout

\* A batch is never larger than the ceiling, nor than what is left.
LEMMA BatchFits ==
  ASSUME TypeOK
  PROVE  /\ BatchSize \in 0..MaxFanout
         /\ legOffset < legs => legOffset + BatchSize <= legs /\ BatchSize > 0
         /\ legOffset >= legs => BatchSize = 0
         /\ Capped => BatchSize = MaxFanout
         /\ ~Capped => legOffset + BatchSize >= legs
BY BasenetAssumption DEF BatchSize, Least, TypeOK, Capped

\* Appending the indices of a page keeps the history in order.
LEMMA PageAppended ==
  ASSUME TypeOK, LegsOnce, NEW n \in Nat
  PROVE  LET after == covered \o Indices(n)
         IN /\ after \in Seq(Nat)
            /\ Len(after) = Position + n
            /\ \A i \in 1..Len(after) : after[i] = i
<1> DEFINE after == covered \o Indices(n)
<1>0. Position \in Nat
  BY DEF Position, TypeOK
<1>1. Indices(n) \in Seq(Nat) /\ Len(Indices(n)) = n
      /\ \A i \in 1..n : Indices(n)[i] = Position + i
  <2> DEFINE t == [i \in 1..n |-> Position + i]
  <2>1. t \in [1..n -> Nat]
    BY <1>0
  <2>2. \A i \in 1..n : t[i] = Position + i
    OBVIOUS
  <2> HIDE DEF t
  <2>3. t \in Seq(Nat) /\ Len(t) = n
    BY <2>1, FunctionIsSeq
  <2>4. Indices(n) = t
    BY DEF Indices, t
  <2> QED
    BY <2>2, <2>3, <2>4
<1>2. covered \in Seq(Nat) /\ Len(covered) = Position
  BY DEF TypeOK, LegsOnce
<1>3. after \in Seq(Nat) /\ Len(after) = Position + n
  <2>1. /\ covered \o Indices(n) \in Seq(Nat)
        /\ Len(covered \o Indices(n)) = Len(covered) + Len(Indices(n))
    BY <1>1, <1>2, ConcatProperties, Zenon
  <2> QED
    BY <1>1, <1>2, <2>1
<1>4. ASSUME NEW i \in 1..Len(after) PROVE after[i] = i
  <2>1. CASE i <= Position
    <3>1. i \in 1..Len(covered) /\ after[i] = covered[i]
      BY <1>0, <1>1, <1>2, <1>3, <2>1, ConcatProperties
    <3> QED
      BY <3>1 DEF LegsOnce
  <2>2. CASE i > Position
    <3>1. i - Position \in 1..n /\ after[i] = Indices(n)[i - Position]
      BY <1>0, <1>1, <1>2, <1>3, <2>2, ConcatProperties
    <3> QED
      BY <1>0, <1>1, <3>1
  <2> QED
    BY <1>0, <1>3, <2>1, <2>2
<1> QED
  BY <1>3, <1>4

\* The number of entries of a page.
LEMMA PageNonEmpty ==
  ASSUME TypeOK, NEW limit \in Limits, cursor <= BatchSize, NEW n \in PageSizes(limit)
  PROVE  n \in Nat /\ cursor + n <= BatchSize /\ (n = 0 <=> cursor = BatchSize)
BY BatchFits, BasenetAssumption DEF PageSizes, Least, TypeOK

\* A site's first call starts at the first leg.
LEMMA InitIInv == Init => IInv
<1> SUFFICES ASSUME Init PROVE IInv
  OBVIOUS
<1>1. TypeOK
  BY BasenetAssumption DEF Init, TypeOK
<1>2. LegsOnce /\ CompleteShowsAll
  BY DEF Init, LegsOnce, CompleteShowsAll, Position
<1>3. phase = "walking" => cursor < MaxFanout
  BY BasenetAssumption DEF Init
<1> QED
  BY <1>1, <1>2, <1>3 DEF IInv

\* A page moves the place by what it shows, within the batch or on to the next.
LEMMA ReadMoves ==
  ASSUME IInv, NEW limit \in Limits, ReadPage(limit)
  PROVE  IInv' /\ Position <= Position' /\ (Position < legs => Position' <= legs)
         /\ (Position >= legs => Position' = Position)
         /\ phase = "walking" /\ legs' = legs
         /\ \/ phase' = "walking" /\ Position' > Position /\ Position' < legs
            \/ phase' = "complete" /\ Position' >= legs
<1>1. PICK n \in PageSizes(limit) : covered' = covered \o Indices(n) /\ Follow(n)
  BY DEF ReadPage
<1>2. TypeOK /\ LegsOnce /\ phase = "walking" /\ cursor <= BatchSize /\ legs' = legs
      /\ looked' = BatchSize /\ cursor < MaxFanout
  BY DEF IInv, ReadPage
<1>3. n \in Nat /\ cursor + n <= BatchSize /\ (n = 0 <=> cursor = BatchSize)
  BY <1>1, <1>2, PageNonEmpty
<1>4. /\ legOffset \in Nat /\ cursor \in Nat /\ legs \in Nat /\ BatchSize \in 0..MaxFanout
      /\ BatchSize \in Nat
  BY <1>2, BatchFits, BasenetAssumption DEF TypeOK
<1>5. /\ legOffset' \in Nat /\ cursor' \in Nat /\ phase' \in {"walking", "complete"}
      /\ legOffset' + cursor' = legOffset + cursor + n
      /\ phase' = "complete" => legOffset' + cursor' >= legs
      /\ phase' = "walking" =>
           n > 0 /\ legOffset + cursor + n < legs /\ cursor' < MaxFanout
  <2>0. MaxFanout \in Nat \ {0}
    BY BasenetAssumption
  <2>1. CASE cursor + n < BatchSize /\ cursor' = cursor + n /\ UNCHANGED <<legOffset, phase>>
    <3>1. legOffset < legs /\ legOffset + BatchSize <= legs /\ n > 0
      BY <1>2, <1>3, <1>4, <2>1, BatchFits
    <3> QED
      BY <1>2, <1>3, <1>4, <2>0, <2>1, <3>1
  <2>2. CASE cursor + n = BatchSize /\ Capped /\ NextBatch(n)
    <3>1. BatchSize = MaxFanout /\ legOffset + BatchSize < legs
      BY <1>2, <2>2, BatchFits DEF Capped
    <3>2. legOffset' = legOffset + BatchSize /\ cursor' = 0 /\ phase' = phase
      BY <2>2 DEF NextBatch
    <3> QED
      BY <1>2, <1>3, <1>4, <2>0, <2>2, <3>1, <3>2
  <2>3. CASE /\ cursor + n = BatchSize /\ ~Capped
             /\ cursor' = cursor + n /\ phase' = "complete" /\ UNCHANGED legOffset
    <3>1. legOffset + BatchSize >= legs
      BY <1>2, <2>3, BatchFits
    <3> QED
      BY <1>2, <1>3, <1>4, <2>3, <3>1
  <2> QED
    BY <1>1, <2>1, <2>2, <2>3 DEF Follow
<1>6. covered' \in Seq(Nat) /\ Len(covered') = Position + n
      /\ \A i \in 1..Len(covered') : covered'[i] = i
  BY <1>1, <1>2, <1>3, PageAppended
<1>7. Position' = Position + n
  BY <1>5 DEF Position
<1>8. IInv'
  BY <1>2, <1>4, <1>5, <1>6, <1>7 DEF IInv, TypeOK, LegsOnce, CompleteShowsAll, Position
<1>9. Position >= legs => n = 0
  BY <1>2, <1>3, <1>4, BatchFits DEF Position
<1>10. Position < legs => Position + n <= legs
  BY <1>2, <1>3, <1>4, BatchFits DEF Position
<1>11. Position \in Nat /\ Position = legOffset + cursor
  BY <1>4 DEF Position
<1>12. Position' = legOffset' + cursor'
  BY DEF Position
<1>13. /\ Position <= Position' /\ (Position < legs => Position' <= legs)
       /\ (Position >= legs => Position' = Position)
  BY <1>3, <1>4, <1>7, <1>9, <1>10, <1>11
<1>14. phase' = "walking" => Position' > Position /\ Position' < legs
  BY <1>3, <1>4, <1>5, <1>7, <1>11
<1>15. phase' = "complete" => Position' >= legs
  BY <1>5, <1>12
<1> QED
  BY <1>2, <1>5, <1>8, <1>13, <1>14, <1>15

\* Every step keeps the invariant.
LEMMA NextIInv == IInv /\ [Next]_vars => IInv'
<1> SUFFICES ASSUME IInv, [Next]_vars PROVE IInv'
  OBVIOUS
<1>1. ASSUME NEW limit \in Limits, ReadPage(limit) PROVE IInv'
  BY <1>1, ReadMoves
<1>2. CASE RefuseCursor
  BY <1>2, BatchFits DEF RefuseCursor, IInv, TypeOK, LegsOnce, CompleteShowsAll, Position
<1>3. CASE TopologyFails
  BY <1>3, BasenetAssumption DEF TopologyFails, IInv, TypeOK, LegsOnce, CompleteShowsAll, Position
<1>4. CASE Change
  BY <1>4 DEF Change, IInv, TypeOK, LegsOnce, CompleteShowsAll, Position
<1>5. CASE UNCHANGED vars
  BY <1>5 DEF vars, IInv, TypeOK, LegsOnce, CompleteShowsAll, Position
<1> QED
  BY <1>1, <1>2, <1>3, <1>4, <1>5 DEF Next, GetTopology

\* The invariant holds of every walk.
LEMMA Invariance == Spec => []IInv
BY InitIInv, NextIInv, PTL DEF Spec

\* Type correctness; a call never looks up more than the ceiling.
THEOREM TypeCorrect == Spec => []TypeOK
<1>1. IInv => TypeOK
  BY DEF IInv
<1> QED
  BY <1>1, Invariance, PTL

\* Legs are shown once and in order, across pages and batches.
THEOREM ShownOnce == Spec => []LegsOnce
<1>1. IInv => LegsOnce
  BY DEF IInv
<1> QED
  BY <1>1, Invariance, PTL

\* A walk that ends without an error has shown every leg the site has.
THEOREM NothingMissing == Spec => []CompleteShowsAll
<1>1. IInv => CompleteShowsAll
  BY DEF IInv
<1> QED
  BY <1>1, Invariance, PTL

\* The two-level walk of get_topology implements the walk over one collection.
THEOREM BasenetImplementsWalk == Spec => WalkSpec
<1>1. Init => Walk!Init
  BY DEF Init, Walk!Init, Position
<1>2. IInv /\ [Next]_vars => [Walk!Next]_(Walk!walkVars)
  <2> SUFFICES ASSUME IInv, [Next]_vars PROVE [Walk!Next]_(Walk!walkVars)
    OBVIOUS
  <2>0. Position \in Nat /\ legs \in Nat
    BY DEF IInv, TypeOK, Position
  <2>1. ASSUME NEW limit \in Limits, ReadPage(limit) PROVE Walk!Advance
    <3>1. Position' \in Nat
      BY <2>1, ReadMoves DEF IInv, TypeOK, Position
    <3>2. /\ Position <= Position' /\ (Position < legs => Position' <= legs)
          /\ (Position >= legs => Position' = Position)
          /\ phase = "walking" /\ legs' = legs
          /\ \/ phase' = "walking" /\ Position' > Position /\ Position' < legs
             \/ phase' = "complete" /\ Position' >= legs
      BY <2>1, ReadMoves
    <3>3. CASE Position < legs
      BY <2>0, <3>1, <3>2, <3>3 DEF Walk!Advance
    <3>4. CASE Position >= legs
      BY <2>0, <3>1, <3>2, <3>4 DEF Walk!Advance
    <3> QED
      BY <2>0, <3>3, <3>4
  <2>2. CASE RefuseCursor \/ TopologyFails
    BY <2>2 DEF RefuseCursor, TopologyFails, Walk!Fail, Walk!Next, Position
  <2>3. CASE Change
    BY <2>0, <2>3 DEF Change, Walk!Change, Walk!Next, Position
  <2>4. CASE UNCHANGED vars
    BY <2>4 DEF vars, Walk!walkVars, Position
  <2> QED
    BY <2>1, <2>2, <2>3, <2>4 DEF Next, GetTopology, Walk!Next
<1> QED
  BY <1>1, <1>2, Invariance, PTL DEF Spec, WalkSpec, Walk!Spec
=============================================================================
