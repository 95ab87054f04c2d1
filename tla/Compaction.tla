----------------------------- MODULE Compaction -----------------------------
(***************************************************************************)
(* How a wide page of records is shrunk before it is sent                  *)
(* (src/prisma_sdwan_mcp/response.py, _compact_records).                   *)
(*                                                                         *)
(* A record maps the fields it has to values.  A value is abstracted to    *)
(* its serialized size, and two values are equal when their numbers are:   *)
(* 0 stands for None, "", [] and {}.  A field name costs NAME.             *)
(***************************************************************************)
EXTENDS Naturals, FiniteSets, Functions

CONSTANTS
  Fields,      \* field names
  Condition,   \* the names _CONDITION matches
  Identity,    \* the names _IDENTITY matches
  NAME,        \* size of a field name with its punctuation
  REASON       \* size of omitted_fields_reason

ASSUME CompactionAssumption ==
  /\ Condition \subseteq Fields /\ Identity \subseteq Fields
  /\ NAME \in Nat /\ REASON \in Nat

Get(r, f) == IF f \in DOMAIN r THEN r[f] ELSE 0

\* _keep_field
Keep == Identity \cup Condition

RecordSize(r) == SumFunction([f \in DOMAIN r |-> r[f] + NAME])
PageSize(page) == SumFunction([i \in DOMAIN page |-> RecordSize(page[i])])

\* What a page says of the fields its records do not show
NoNotes == [empty |-> {}, shared |-> <<>>, held |-> {}]

NotesSize(notes) ==
  NAME * (Cardinality(notes.empty) + Cardinality(notes.held))
    + RecordSize(notes.shared) + (IF notes.held = {} THEN 0 ELSE REASON)

Names(page) == UNION {DOMAIN page[i] : i \in DOMAIN page}

\* Each record without the fields of the set F
Drop(page, F) == [i \in DOMAIN page |-> Restrict(page[i], DOMAIN page[i] \ F)]

-----------------------------------------------------------------------------
(* The lossless passes: fields empty in every record, and fields whose value *)
(* is the same in every record of a page of several                          *)

EmptyFields(page) == {f \in Names(page) : \A i \in DOMAIN page : Get(page[i], f) = 0}

\* Mutant: a value repeated in the records that have the field is hoisted
SharedWherePresent(page) ==
  IF Cardinality(DOMAIN page) < 2 THEN {}
  ELSE {f \in Names(page) \ EmptyFields(page) : Get(page[1], f) # 0 /\
          \A i \in DOMAIN page : Get(page[i], f) \in {0, Get(page[1], f)}}

SharedFields(page) ==
  IF Cardinality(DOMAIN page) < 2 THEN {}
  ELSE {f \in Names(page) \ EmptyFields(page) :
          \A i \in DOMAIN page : Get(page[i], f) = Get(page[1], f)}

Trimmed(page) == Drop(page, EmptyFields(page) \cup SharedFields(page))

LosslessNotes(page) ==
  [NoNotes EXCEPT !.empty = EmptyFields(page),
                  !.shared = [f \in SharedFields(page) |-> Get(page[1], f)]]

-----------------------------------------------------------------------------
(* The lossy pass *)

Weight(page, f) == SumFunction([i \in DOMAIN page |-> Get(page[i], f)])

\* fields with more than DOMINANT_FIELD_SHARE (0.4) of the bytes
Dominant(page) ==
  LET weight == [f \in Names(page) |-> Weight(page, f)]
  IN {f \in Names(page) : 10 * weight[f] > 4 * SumFunction(weight)}

Held(page) == (Names(page) \ Keep) \ Dominant(page)

\* What is left must still report a condition
Holdable(page) ==
  /\ Held(page) # {}
  /\ (Names(page) \ Held(page)) \cap Condition # {}

\* Mutant: the selection goes by the identifying names alone
SelectedIdentity(page) == Drop(page, Fields \ Identity)

\* The records the lossy pass returns: it selects by the name of a field alone
Selected(page) == Drop(page, Fields \ Keep)

\* The records sent for a page and the notes that go with them; fits tells
\* whether the lossless passes brought the page below the threshold.
Compact(page, fits) ==
  LET trimmed == Trimmed(page)
      notes == LosslessNotes(page)
  IN IF fits \/ ~Holdable(trimmed)
       THEN [records |-> trimmed, notes |-> notes]
       ELSE [records |-> Selected(trimmed),
             notes |-> [notes EXCEPT !.held = Held(trimmed)]]
=============================================================================
