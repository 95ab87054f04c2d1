-------------------------- MODULE CollectionPages --------------------------
(***************************************************************************)
(* A caller walks a collection through a list tool, page by page           *)
(* (src/prisma_sdwan_mcp/response.py, collection_json).  The server keeps  *)
(* nothing between pages: each call fetches the collection again and the   *)
(* cursor is an offset into it; records may have joined or left meanwhile. *)
(*                                                                         *)
(* Sizes are in units of the serialized text; the byte budget, envelope,   *)
(* cursor and the suffix that the last step adds to the summary are        *)
(* constants.                                                              *)
(***************************************************************************)
EXTENDS Compaction, Sequences

CONSTANTS
  Records,       \* records: maps from fields to the sizes of their values
  Collections,   \* collections a walk may start with
  Arrivals,      \* records that may be appended during a walk
  Departures,    \* positions whose record may leave during a walk
  MaxLen,        \* bound on the collection's length
  Limits,        \* page limits the caller asks for, valid or not
  MAX_PAGE,      \* get_max_page_size()
  BUDGET,        \* get_max_response_bytes()
  ENVELOPE,      \* size of a response without records, notes and cursor
  CURSOR,        \* size of next_cursor
  SUFFIX,        \* size of "; more results available via next_cursor"
  STUB           \* size of an identifier stub and its warning

ASSUME PagesAssumption ==
  /\ \A r \in Records : /\ DOMAIN r \subseteq Fields /\ IsFiniteSet(DOMAIN r)
                         /\ r \in [DOMAIN r -> Nat]
  /\ Collections \subseteq Seq(Records) /\ Arrivals \subseteq Records
  /\ Departures \subseteq Nat
  /\ MAX_PAGE \in Nat \ {0}
  /\ MaxLen \in Nat
  /\ Limits \subseteq Nat
  /\ BUDGET \in Nat /\ ENVELOPE \in Nat /\ CURSOR \in Nat
  /\ SUFFIX \in Nat /\ STUB \in Nat

VARIABLES
  records,   \* the collection, as the tool would fetch it now
  cursor,    \* offset of the cursor the caller holds; 0 at first
  phase,     \* of the walk: "walking", "complete" or "failed"
  covered,   \* the indices accounted for, in the order they were
  reply      \* the last response

vars == <<records, cursor, phase, covered, reply>>

Kinds == {"none", "page", "stub", "over_budget", "invalid_limit", "invalid_cursor"}
NoReply == [kind |-> "none", start |-> 0, full |-> FALSE, source |-> <<>>, items |-> <<>>,
            notes |-> NoNotes, size |-> 0, next |-> 0, total |-> 0, truncated |-> FALSE]

\* Types, and the indices accounted for lie behind the cursor
TypeOK ==
  /\ records \in Seq(Records)
  /\ cursor \in Nat
  /\ phase \in {"walking", "complete", "failed"}
  /\ covered \in Seq(1..cursor)
  /\ reply.kind \in Kinds

-----------------------------------------------------------------------------
(* collection_json *)

Length == Len(records)
PageEnd(limit) == IF cursor + limit < Length THEN cursor + limit ELSE Length

\* records[start:end]
PageOf(limit) == SubSeq(records, cursor + 1, PageEnd(limit))

\* Size of a response with these items and notes that stops before `next`
PayloadSize(items, notes, next) ==
  ENVELOPE + PageSize(items) + NotesSize(notes) + (IF next < Length THEN CURSOR ELSE 0)

\* COMPACT_THRESHOLD is a quarter of the budget
BelowThreshold(items, notes) ==
  4 * PayloadSize(items, notes, cursor + Len(items)) <= BUDGET

\* The page's records as they will be sent: as they are when the caller asked
\* for detail="full" or they are few, compacted otherwise
Prepared(limit, full) ==
  LET page == PageOf(limit)
  IN IF full \/ page = <<>> \/ BelowThreshold(page, NoNotes)
       THEN [records |-> page, notes |-> NoNotes]
       ELSE Compact(page, BelowThreshold(Trimmed(page), LosslessNotes(page)))

\* Mutant: the size check leaves the next cursor out
FitsWithoutCursor(prepared, n) ==
  ENVELOPE + PageSize([i \in 1..n |-> prepared.records[i]]) + NotesSize(prepared.notes) <= BUDGET

FirstItems(prepared, n) == [i \in 1..n |-> prepared.records[i]]
FitsBudget(prepared, n) ==
  PayloadSize(FirstItems(prepared, n), prepared.notes, cursor + n) <= BUDGET

\* The loop takes records until one more would not fit: n is what it took of k
Takes(prepared, k, n) ==
  /\ \A m \in 1..n : FitsBudget(prepared, m)
  /\ n < k => ~FitsBudget(prepared, n + 1)

Indices(n) == [i \in 1..n |-> cursor + i]

\* Mutant: next_offset without the + 1
FollowBehind(next) ==
  /\ cursor' = IF next < Length THEN next - 1 ELSE next
  /\ phase' = IF next < Length THEN "walking" ELSE "complete"

\* What the caller makes of a response that stops before `next`: it goes on
\* while there is a next_cursor
Follow(next) ==
  /\ cursor' = next
  /\ phase' = IF next < Length THEN "walking" ELSE "complete"

\* The loop's result, with the summary's suffix added after the last check of
\* the loop and checked in its turn
SendPage(prepared, full, n) ==
  LET next == cursor + n
      size == PayloadSize(FirstItems(prepared, n), prepared.notes, next)
                + (IF next < Length THEN SUFFIX ELSE 0)
  IN IF size > BUDGET
       THEN /\ reply' = [NoReply EXCEPT !.kind = "over_budget", !.start = cursor,
                                       !.size = size, !.next = next, !.total = Length]
            /\ phase' = "failed"
            /\ UNCHANGED <<cursor, covered>>
       ELSE /\ reply' = [kind |-> "page", start |-> cursor, full |-> full,
                         source |-> SubSeq(records, cursor + 1, next),
                         items |-> FirstItems(prepared, n), notes |-> prepared.notes,
                         size |-> size, next |-> next, total |-> Length,
                         truncated |-> next < Length]
            /\ covered' = covered \o Indices(n)
            /\ Follow(next)

\* Mutant: the stub says truncated only when records follow it
SendStubQuietly(prepared, full) ==
  LET next == cursor + 1
  IN /\ reply' = [NoReply EXCEPT !.kind = "stub", !.start = cursor, !.next = next,
                                 !.total = Length, !.truncated = next < Length]
     /\ covered' = covered \o Indices(1)
     /\ Follow(next)

\* Mutant: the stub does not take its record with it
SendStubStands(prepared, full) ==
  /\ reply' = [NoReply EXCEPT !.kind = "stub", !.start = cursor, !.full = full,
                              !.next = cursor, !.total = Length, !.truncated = TRUE]
  /\ UNCHANGED <<covered, cursor, phase>>

\* The first record alone is over budget: its identifying fields stand for it
SendStub(prepared, full) ==
  LET next == cursor + 1
  IN /\ reply' = [kind |-> "stub", start |-> cursor, full |-> full,
                  source |-> <<records[next]>>, items |-> <<>>, notes |-> prepared.notes,
                  size |-> PayloadSize(<<>>, prepared.notes, next) + STUB,
                  next |-> next, total |-> Length, truncated |-> TRUE]
     /\ covered' = covered \o Indices(1)
     /\ Follow(next)

ReadPage(limit, full) ==
  /\ phase = "walking"
  /\ cursor <= Length
  /\ limit \in 1..MAX_PAGE
  /\ LET prepared == Prepared(limit, full)
         k == PageEnd(limit) - cursor
     IN \E n \in 0..k :
          /\ Takes(prepared, k, n)
          /\ IF n = 0 /\ k > 0 THEN SendStub(prepared, full)
                               ELSE SendPage(prepared, full, n)
  /\ UNCHANGED records

\* A limit out of range is refused and moves nothing
RefuseLimit(limit) ==
  /\ phase = "walking"
  /\ limit \notin 1..MAX_PAGE
  /\ reply' = [NoReply EXCEPT !.kind = "invalid_limit", !.start = cursor]
  /\ UNCHANGED <<records, cursor, phase, covered>>

\* Mutant: a cursor out of range starts the walk anew
RefuseCursorWraps(limit) ==
  /\ phase = "walking"
  /\ limit \in 1..MAX_PAGE
  /\ cursor > Length
  /\ cursor' = 0
  /\ UNCHANGED <<records, phase, covered, reply>>

\* The collection has shrunk below the cursor: the caller has to start again
RefuseCursor(limit) ==
  /\ phase = "walking"
  /\ limit \in 1..MAX_PAGE
  /\ cursor > Length
  /\ reply' = [NoReply EXCEPT !.kind = "invalid_cursor", !.start = cursor]
  /\ phase' = "failed"
  /\ UNCHANGED <<records, cursor, covered>>

\* Between two pages a record joins the end of the collection
Arrive ==
  /\ phase = "walking"
  /\ Length < MaxLen
  /\ \E r \in Arrivals : records' = Append(records, r)
  /\ UNCHANGED <<cursor, phase, covered, reply>>

\* ... or one leaves it
Leave ==
  /\ phase = "walking"
  /\ \E d \in Departures \cap DOMAIN records :
       records' = SubSeq(records, 1, d - 1) \o SubSeq(records, d + 1, Length)
  /\ UNCHANGED <<cursor, phase, covered, reply>>

-----------------------------------------------------------------------------
Init ==
  /\ records \in Collections
  /\ cursor = 0
  /\ phase = "walking"
  /\ covered = <<>>
  /\ reply = NoReply

Read == \E limit \in Limits :
          \/ RefuseCursor(limit)
          \/ \E full \in BOOLEAN : ReadPage(limit, full)

Next ==
  \/ Read
  \/ \E limit \in Limits : RefuseLimit(limit)
  \/ Arrive
  \/ Leave

Spec == Init /\ [][Next]_vars

\* A caller that wants the collection keeps asking for the next page.  This is
\* WF_vars(Read), spelt out so that TLC need not compute the page twice: Read is
\* enabled just while the walk goes on, and its steps are those that leave the
\* collection alone and do not refuse the limit.
Asked == UNCHANGED records /\ reply'.kind # "invalid_limit"
FairSpec == Spec /\ ([]<>(phase # "walking") \/ []<><<Asked>>_vars)

-----------------------------------------------------------------------------
(* Properties *)

\* Exactly once: the indices accounted for are 1, 2, 3... up to the cursor,
\* each in its turn, and a walk that is complete has left nothing behind
\* (next_offset, the cursor and the stub's offset).
ExactlyOnce ==
  /\ Len(covered) = cursor
  /\ \A i \in 1..Len(covered) : covered[i] = i
  /\ phase = "complete" => cursor = Length

\* The walk refines the promise of CollectionWalk: every page moves it forward.
Walk == INSTANCE CollectionWalk WITH total <- Length, position <- cursor
WalkSpec == Walk!Spec

\* Every walk ends, if the caller keeps asking: no page repeats its cursor.
WalkEnds == <>(phase # "walking")

\* What is shown is what was fetched: an item's fields, and the fields hoisted
\* into shared_fields, have the values of the record they stand for.
ShownIsFetched ==
  \A i \in DOMAIN reply.items :
    LET original == reply.source[i]
    IN /\ \A f \in DOMAIN reply.items[i] : Get(original, f) = reply.items[i][f]
       /\ \A f \in DOMAIN reply.notes.shared : Get(original, f) = reply.notes.shared[f]
       /\ \A f \in reply.notes.empty : Get(original, f) = 0

\* Fields that identify a record or report its condition are in every page, in
\* the record or shared, and detail="full" leaves every record as it is.
ConditionNeverHeld ==
  \A i \in DOMAIN reply.items :
    LET original == reply.source[i]
    IN \A f \in (IF reply.full THEN Fields ELSE Keep) :
         Get(original, f) # 0 =>
           f \in DOMAIN reply.items[i] \cup DOMAIN reply.notes.shared

\* A response that left out a record, or the contents of one, says truncated.
TruncationDeclared ==
  reply.kind \in {"page", "stub"} /\ ~reply.truncated =>
    Len(reply.items) = reply.total - reply.start

\* A field that is most of the record is never held back.
NothingDroppedUnnamed ==
  \A i \in DOMAIN reply.items :
    LET original == reply.source[i]
    IN \A f \in DOMAIN original :
         original[f] # 0 =>
           f \in DOMAIN reply.items[i] \cup DOMAIN reply.notes.shared \cup reply.notes.held

\* Paging guarantees that a response fits: no walk ends in an error.  It does
\* not hold for a page that fits exactly, so no run checks it.
WalkNeverFails == reply.kind # "over_budget"

\* When it does, the suffix alone is to blame: the loop counts all else that the
\* response is made of, the next cursor too, and only a page that more records
\* follow is lost.  But for a page of no records, which is lost when the budget
\* does not even hold the envelope.
OverflowIsTheSuffix ==
  reply.kind = "over_budget" =>
    \/ reply.size <= BUDGET + SUFFIX /\ reply.next < reply.total
    \/ BUDGET < ENVELOPE /\ reply.size = ENVELOPE /\ reply.next = reply.total

\* MCP_MAX_RESPONSE_BYTES is the ceiling of one response.  It does not hold for
\* the stub of an oversize record, so no run checks it.
WithinCeiling == reply.size <= BUDGET
=============================================================================
