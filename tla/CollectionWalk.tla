--------------------------- MODULE CollectionWalk ---------------------------
(***************************************************************************)
(* What a paged read promises its caller: following next_cursor from the   *)
(* first page goes once through the collection, front to back, never       *)
(* returning to a record and never standing still, until it has accounted  *)
(* for every record or says that it cannot.                                *)
(***************************************************************************)
EXTENDS Naturals

VARIABLES
  total,     \* records in the collection
  position,  \* records accounted for so far
  phase      \* "walking", "complete" or "failed"

walkVars == <<total, position, phase>>

Init ==
  /\ total \in Nat
  /\ position = 0
  /\ phase = "walking"

\* A page accounts for at least one record; the last one ends the walk
Advance ==
  /\ phase = "walking"
  /\ position' \in position..total
  /\ phase' = IF position' < total THEN "walking" ELSE "complete"
  /\ phase' = "walking" => position' > position
  /\ UNCHANGED total

Fail ==
  /\ phase = "walking"
  /\ phase' = "failed"
  /\ UNCHANGED <<total, position>>

\* Records join and leave the collection
Change ==
  /\ total' \in Nat
  /\ UNCHANGED <<position, phase>>

Next == Advance \/ Fail \/ Change
Spec == Init /\ [][Next]_walkVars
=============================================================================
