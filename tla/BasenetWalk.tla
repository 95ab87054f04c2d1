----------------------------- MODULE BasenetWalk -----------------------------
(***************************************************************************)
(* get_topology(view="basenet") as its caller walks it                     *)
(* (src/prisma_sdwan_mcp/tools/core.py, get_topology).  The VPN legs of a  *)
(* site come in batches of at most MaxFanout, each leg looked up, and a    *)
(* batch in pages: leg_offset names the batch, the cursor a place in it.   *)
(* The topology is fetched anew, and the batch looked up again, for every  *)
(* page.                                                                   *)
(*                                                                         *)
(* The caller exhausts the cursor before it follows next_leg_offset.  That *)
(* is a rule of its own: the cursor does not carry the leg_offset, so a    *)
(* caller that follows both at once skips the rest of a batch and the      *)
(* beginning of the next.                                                  *)
(***************************************************************************)
EXTENDS Naturals, Sequences

CONSTANTS
  MaxFanout,   \* get_max_fanout()
  Limits,      \* page sizes a caller asks for
  MaxLegs      \* bound on the legs of the site

ASSUME BasenetAssumption ==
  /\ MaxFanout \in Nat \ {0}
  /\ Limits \subseteq Nat \ {0}
  /\ MaxLegs \in Nat

VARIABLES
  legs,        \* number of VPN legs of the site's links, now
  legOffset,
  cursor,
  phase,       \* "walking", "complete" or "failed"
  covered,     \* history: indices of the legs shown, in the order shown
  looked       \* lookups of the latest call

vars == <<legs, legOffset, cursor, phase, covered, looked>>

Position == legOffset + cursor

TypeOK ==
  /\ legs \in Nat /\ legOffset \in Nat /\ cursor \in Nat
  /\ phase \in {"walking", "complete", "failed"}
  /\ covered \in Seq(Nat)
  /\ looked \in 0..MaxFanout

-----------------------------------------------------------------------------
Least(a, b) == IF a < b THEN a ELSE b

\* Mutant: the batch is not cut to the cap
BatchSizeUncut == IF legOffset < legs THEN legs - legOffset ELSE 0

\* legs[leg_offset:leg_offset + cap]; an offset past the end gives an empty
\* batch
BatchSize ==
  IF legOffset < legs THEN Least(MaxFanout, legs - legOffset) ELSE 0

\* Mutant: a single leg after the batch counts as none
CappedLate == legOffset + BatchSize + 1 < legs

\* leg_resolution_capped
Capped == legOffset + BatchSize < legs

\* Mutants: the next batch begins after the page; there is none
NextBatchAfterPage(n) == legOffset' = legOffset + n /\ cursor' = 0 /\ UNCHANGED phase
NextBatchSame(n) == legOffset' = legOffset /\ cursor' = BatchSize /\ UNCHANGED phase

\* next_leg_offset, with the cursor left out again
NextBatch(n) == legOffset' = legOffset + BatchSize /\ cursor' = 0 /\ UNCHANGED phase

\* What the caller makes of a page of n entries
Follow(n) ==
  \/ /\ cursor + n < BatchSize
     /\ cursor' = cursor + n
     /\ UNCHANGED <<legOffset, phase>>
  \/ /\ cursor + n = BatchSize /\ Capped
     /\ NextBatch(n)
  \/ /\ cursor + n = BatchSize /\ ~Capped
     /\ cursor' = cursor + n
     /\ phase' = "complete"
     /\ UNCHANGED legOffset

\* collection_json shows at least one entry while there is one, and may be
\* cut short by the limit or the byte budget
PageSizes(limit) ==
  IF cursor = BatchSize THEN {0} ELSE 1..Least(limit, BatchSize - cursor)

Indices(n) == [i \in 1..n |-> Position + i]

ReadPage(limit) ==
  /\ phase = "walking"
  /\ cursor <= BatchSize
  /\ looked' = BatchSize
  /\ \E n \in PageSizes(limit) :
       /\ covered' = covered \o Indices(n)
       /\ Follow(n)
  /\ UNCHANGED legs

\* Legs have left, and the cursor is past the end of the batch.  The lookups
\* have been made by then
RefuseCursor ==
  /\ phase = "walking"
  /\ cursor > BatchSize
  /\ looked' = BatchSize
  /\ phase' = "failed"
  /\ UNCHANGED <<legs, legOffset, cursor, covered>>

\* The topology is answered by an error
TopologyFails ==
  /\ phase = "walking"
  /\ phase' = "failed"
  /\ looked' = 0
  /\ UNCHANGED <<legs, legOffset, cursor, covered>>

\* Between two calls the site gains or loses a leg
Change ==
  /\ phase = "walking"
  /\ \/ legs < MaxLegs /\ legs' = legs + 1
     \/ legs > 0 /\ legs' = legs - 1
  /\ UNCHANGED <<legOffset, cursor, phase, covered, looked>>

-----------------------------------------------------------------------------
Init ==
  /\ legs \in 0..MaxLegs
  /\ legOffset = 0 /\ cursor = 0
  /\ phase = "walking"
  /\ covered = <<>> /\ looked = 0

GetTopology == (\E limit \in Limits : ReadPage(limit)) \/ RefuseCursor

Next == GetTopology \/ TopologyFails \/ Change
Spec == Init /\ [][Next]_vars

\* A caller that wants the view keeps asking
FairSpec == Spec /\ WF_vars(GetTopology)

-----------------------------------------------------------------------------
(* Properties *)

\* Across pages and batches the legs are shown once and in their order: the
\* indices shown are all those up to the place the two tokens name.
LegsOnce ==
  /\ Len(covered) = Position
  /\ \A i \in 1..Len(covered) : covered[i] = i

\* A walk that ends without an error has shown every leg the site then had.
\* WalkSpec includes it, so no run checks it by itself.
CompleteShowsAll == phase = "complete" => Position >= legs

\* The walk over two levels keeps the promise of a walk over one: it implements
\* CollectionWalk, where legs that left after they were shown still count.
Walk == INSTANCE CollectionWalk WITH
          total <- IF legs < Position THEN Position ELSE legs,
          position <- Position
WalkSpec == Walk!Spec

\* Every walk ends, if the caller keeps asking.
WalkEnds == <>(phase # "walking")
=============================================================================
