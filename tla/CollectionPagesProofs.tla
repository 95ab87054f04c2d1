----------------------- MODULE CollectionPagesProofs -----------------------
(***************************************************************************)
(* Proofs about CollectionPages: for any collections, budget, sizes and    *)
(* page limits, a walk accounts for the records once and in order, and     *)
(* every step of it is one that CollectionWalk allows; for those the       *)
(* proofs use only that a page takes some number of the records it was     *)
(* offered.  Then, what compaction leaves of a record: the values that     *)
(* were fetched, and every field of its identity and condition.  Last, the *)
(* sizes: what the loop checked and what the last check adds to it.        *)
(***************************************************************************)
EXTENDS CollectionPages, IndexLemmas, TLAPS, SequenceTheorems, FiniteSetTheorems

\* The inductive invariant: the indices accounted for are exactly those up to
\* the cursor.  It implies ExactlyOnce and the typing of covered.
IInv ==
  /\ records \in Seq(Records)
  /\ cursor \in Nat
  /\ phase \in {"walking", "complete", "failed"}
  /\ covered = [i \in 1..cursor |-> i]
  /\ phase = "complete" => cursor = Length
  /\ reply.kind \in Kinds
  /\ TruncationDeclared

\* IInv implies the properties the runs check.
LEMMA IInvConsequences ==
  ASSUME IInv
  PROVE  TypeOK /\ ExactlyOnce /\ TruncationDeclared
<1>1. covered \in [1..cursor -> 1..cursor]
  BY DEF IInv
<1>2. covered \in Seq(1..cursor)
  BY <1>1, FunctionIsSeq DEF IInv
<1>3. Len(covered) = cursor
  BY <1>1, FunctionIsSeq DEF IInv
<1>4. \A i \in 1..Len(covered) : covered[i] = i
  BY <1>3 DEF IInv
<1> QED
  BY <1>2, <1>3, <1>4 DEF IInv, TypeOK, ExactlyOnce

\* A walk begins at the front of a collection.
LEMMA InitIInv == Init => IInv
<1> SUFFICES ASSUME Init PROVE IInv
  OBVIOUS
<1>1. covered = [i \in 1..cursor |-> i]
  <2>1. cursor = 0 /\ covered = <<>>
    BY DEF Init
  <2>2. 1..0 = {}
    OBVIOUS
  <2> QED
    BY <2>1, <2>2
<1>2. records \in Seq(Records)
  BY PagesAssumption DEF Init
<1> QED
  BY <1>1, <1>2 DEF Init, IInv, NoReply, Kinds, TruncationDeclared

\* What a read does to the walk: it stands still and fails, or takes n of the
\* records before it.
LEMMA ReadAdvances ==
  ASSUME IInv, NEW limit \in Limits, NEW full \in BOOLEAN, ReadPage(limit, full)
  PROVE  /\ phase = "walking" /\ cursor <= Length
         /\ records' = records
         /\ TruncationDeclared' /\ reply'.kind \in Kinds
         /\ \/ /\ phase' = "failed"
               /\ UNCHANGED <<cursor, covered>>
            \/ \E n \in Nat :
                 /\ cursor + n <= Length
                 /\ n = 0 => cursor = Length
                 /\ covered' = covered \o Indices(n)
                 /\ Follow(cursor + n)
<1> DEFINE k == PageEnd(limit) - cursor
           prepared == Prepared(limit, full)
<1>1. Length \in Nat /\ cursor \in Nat /\ cursor <= Length /\ limit \in Nat /\ limit > 0
  BY LenProperties DEF IInv, Length, ReadPage
<1>2. k \in Nat /\ cursor + k <= Length /\ (k = 0 => cursor = Length)
  BY <1>1 DEF PageEnd
<1> HIDE DEF k, prepared
<1>3. PICK n \in 0..k :
        IF n = 0 /\ k > 0 THEN SendStub(prepared, full) ELSE SendPage(prepared, full, n)
  BY DEF ReadPage, k, prepared
<1>4. n \in Nat /\ cursor + n <= Length
  BY <1>1, <1>2, <1>3
<1>5. phase = "walking" /\ records' = records
  BY DEF ReadPage
<1>6. CASE n = 0 /\ k > 0
  <2>1. SendStub(prepared, full)
    BY <1>3, <1>6
  <2>2. cursor + 1 <= Length
    BY <1>1, <1>2, <1>6
  <2>3. covered' = covered \o Indices(1) /\ Follow(cursor + 1)
    BY <2>1 DEF SendStub
  <2>4. reply'.kind = "stub" /\ reply'.truncated = TRUE
    BY <2>1 DEF SendStub
  <2>5. TruncationDeclared' /\ reply'.kind \in Kinds
    BY <2>4 DEF TruncationDeclared, Kinds
  <2>6. 1 \in Nat /\ 1 # 0
    OBVIOUS
  <2>7. \E m \in Nat : /\ cursor + m <= Length /\ (m = 0 => cursor = Length)
                       /\ covered' = covered \o Indices(m) /\ Follow(cursor + m)
    BY ONLY <2>2, <2>3, <2>6
  <2> QED
    BY ONLY <1>1, <1>5, <2>5, <2>7
<1>7. CASE ~(n = 0 /\ k > 0)
  <2>1. SendPage(prepared, full, n)
    BY <1>3, <1>7
  <2>2. n = 0 => cursor = Length
    BY <1>2, <1>7
  <2> DEFINE size == PayloadSize(FirstItems(prepared, n), prepared.notes, cursor + n)
                       + (IF cursor + n < Length THEN SUFFIX ELSE 0)
  <2>3. CASE size > BUDGET
    <3>1. /\ reply' = [NoReply EXCEPT !.kind = "over_budget", !.start = cursor, !.size = size,
                                     !.next = cursor + n, !.total = Length]
          /\ phase' = "failed" /\ UNCHANGED <<cursor, covered>>
      BY <2>1, <2>3 DEF SendPage
    <3>2. TruncationDeclared' /\ reply'.kind \in Kinds
      BY <3>1 DEF TruncationDeclared, Kinds, NoReply
    <3> QED
      BY <1>1, <1>5, <3>1, <3>2
  <2>4. CASE ~(size > BUDGET)
    <3>1. /\ reply'.kind = "page" /\ reply'.items = FirstItems(prepared, n)
          /\ reply'.truncated = (cursor + n < Length)
          /\ reply'.total = Length /\ reply'.start = cursor
          /\ covered' = covered \o Indices(n) /\ Follow(cursor + n)
      BY <2>1, <2>4 DEF SendPage
    <3>2. Len(FirstItems(prepared, n)) = n
      <4> DEFINE items == FirstItems(prepared, n)
      <4>1. items \in [1..n -> {items[i] : i \in 1..n}]
        BY DEF FirstItems
      <4> HIDE DEF items
      <4>2. Len(items) = n
        BY <1>4, <4>1, FunctionIsSeq
      <4> QED
        BY <4>2 DEF items
    <3>3. ~reply'.truncated => n = Length - cursor
      <4>1. ~reply'.truncated => ~(cursor + n < Length)
        BY <3>1, Zenon
      <4> QED
        BY <1>1, <1>4, <4>1
    <3>4. TruncationDeclared' /\ reply'.kind \in Kinds
      BY <3>1, <3>2, <3>3 DEF TruncationDeclared, Kinds
    <3> QED
      BY <1>1, <1>4, <1>5, <2>2, <3>1, <3>4
  <2> QED
    BY <2>3, <2>4
<1> QED
  BY <1>6, <1>7

\* Records that join or leave make another collection of records.
LEMMA CollectionChanges ==
  ASSUME IInv, Arrive \/ Leave
  PROVE  records' \in Seq(Records)
<1>1. CASE Arrive
  <2>1. PICK r \in Arrivals : records' = Append(records, r)
    BY <1>1 DEF Arrive
  <2> QED
    BY <2>1, PagesAssumption, AppendProperties DEF IInv
<1>2. CASE Leave
  <2>1. PICK d \in Departures \cap DOMAIN records :
          records' = SubSeq(records, 1, d - 1) \o SubSeq(records, d + 1, Length)
    BY <1>2 DEF Leave
  <2>2. d \in 1..Len(records) /\ Len(records) \in Nat
    BY <2>1, LenProperties DEF IInv
  <2>3. SubSeq(records, 1, d - 1) \in Seq(Records)
    BY <2>2, SubSeqProperties DEF IInv
  <2>4. SubSeq(records, d + 1, Length) \in Seq(Records)
    BY <2>2, SubSeqProperties DEF IInv, Length
  <2> QED
    BY <2>1, <2>3, <2>4, ConcatProperties
<1> QED
  BY <1>1, <1>2

\* Every step keeps the invariant.
LEMMA NextIInv == IInv /\ [Next]_vars => IInv'
<1> SUFFICES ASSUME IInv, [Next]_vars PROVE IInv'
  OBVIOUS
<1>1. ASSUME NEW limit \in Limits, NEW full \in BOOLEAN, ReadPage(limit, full)
      PROVE  IInv'
  <2>1. /\ phase = "walking" /\ cursor <= Length /\ records' = records
        /\ TruncationDeclared' /\ reply'.kind \in Kinds
    BY <1>1, ReadAdvances
  <2>2. Length' = Length /\ Length \in Nat /\ records' \in Seq(Records)
    BY <2>1, LenProperties DEF IInv, Length
  <2>3. CASE phase' = "failed" /\ UNCHANGED <<cursor, covered>>
    BY <2>1, <2>2, <2>3 DEF IInv
  <2>4. ASSUME NEW n \in Nat, cursor + n <= Length,
               covered' = covered \o Indices(n), Follow(cursor + n)
        PROVE  IInv'
    <3>1. cursor' = cursor + n /\ cursor' \in Nat
      BY <2>4 DEF Follow, IInv
    <3>2. covered' = [i \in 1..cursor' |-> i]
      BY <2>4, <3>1, IndicesExtend DEF IInv, Indices
    <3>3. /\ phase' \in {"walking", "complete", "failed"}
          /\ phase' = "complete" => cursor' = Length'
      BY <2>2, <2>4, <3>1 DEF Follow
    <3> QED
      BY <2>1, <2>2, <3>1, <3>2, <3>3 DEF IInv
  <2> QED
    BY <1>1, <2>3, <2>4, ReadAdvances
<1>2. ASSUME NEW limit \in Limits, RefuseLimit(limit) PROVE IInv'
  BY <1>2 DEF RefuseLimit, IInv, NoReply, Kinds, TruncationDeclared, Length
<1>3. ASSUME NEW limit \in Limits, RefuseCursor(limit) PROVE IInv'
  BY <1>3 DEF RefuseCursor, IInv, NoReply, Kinds, TruncationDeclared, Length
<1>4. CASE Arrive \/ Leave
  <2>1. records' \in Seq(Records)
    BY <1>4, CollectionChanges
  <2>2. phase = "walking" /\ UNCHANGED <<cursor, phase, covered, reply>>
    BY <1>4 DEF Arrive, Leave
  <2> QED
    BY <2>1, <2>2 DEF IInv, TruncationDeclared
<1>5. CASE UNCHANGED vars
  BY <1>5 DEF vars, IInv, TruncationDeclared, Length
<1> QED
  BY <1>1, <1>2, <1>3, <1>4, <1>5 DEF Next, Read

\* The invariant holds of every walk.
LEMMA Invariance == Spec => []IInv
  BY InitIInv, NextIInv, PTL DEF Spec

\* Type correctness of the walk, whatever the sizes and limits.
THEOREM TypeCorrect == Spec => []TypeOK
<1>1. IInv => TypeOK
  BY IInvConsequences
<1> QED
  BY <1>1, Invariance, PTL

\* A walk accounts for the records once, in order and without a gap: the loop,
\* the stub and the cursor agree on where the next page begins.
THEOREM OnceInOrder == Spec => []ExactlyOnce
<1>1. IInv => ExactlyOnce
  BY IInvConsequences
<1> QED
  BY <1>1, Invariance, PTL

\* A response not marked truncated holds every record from its start on.
THEOREM TruncationHonest == Spec => []TruncationDeclared
<1>1. IInv => TruncationDeclared
  BY IInvConsequences
<1> QED
  BY <1>1, Invariance, PTL

\* Paging implements the abstract walk: no page goes back or stands still.
THEOREM PagesImplementWalk == Spec => WalkSpec
<1>1. Init => Walk!Init
  BY PagesAssumption, LenProperties DEF Init, Walk!Init, Length
<1>2. ASSUME IInv, IInv', [Next]_vars
      PROVE  [Walk!Next]_(Walk!walkVars)
  <2>1. Length \in Nat /\ Length' \in Nat /\ cursor \in Nat
    BY <1>2, LenProperties DEF IInv, Length
  <2>2. ASSUME NEW limit \in Limits, NEW full \in BOOLEAN, ReadPage(limit, full)
        PROVE  Walk!Next
    <3>1. phase = "walking" /\ cursor <= Length /\ Length' = Length
      BY <1>2, <2>2, ReadAdvances DEF Length
    <3>2. CASE phase' = "failed" /\ UNCHANGED <<cursor, covered>>
      BY <3>1, <3>2 DEF Walk!Next, Walk!Fail
    <3>3. ASSUME NEW n \in Nat, cursor + n <= Length, n = 0 => cursor = Length,
                 Follow(cursor + n)
          PROVE  Walk!Next
      BY <2>1, <3>1, <3>3 DEF Walk!Next, Walk!Advance, Follow
    <3> QED
      BY <1>2, <2>2, <3>2, <3>3, ReadAdvances
  <2>3. ASSUME NEW limit \in Limits, RefuseLimit(limit) PROVE UNCHANGED Walk!walkVars
    BY <2>3 DEF RefuseLimit, Walk!walkVars, Length
  <2>4. ASSUME NEW limit \in Limits, RefuseCursor(limit) PROVE Walk!Next
    BY <2>4 DEF RefuseCursor, Walk!Next, Walk!Fail, Length
  <2>5. CASE Arrive \/ Leave
    BY <2>1, <2>5 DEF Arrive, Leave, Walk!Next, Walk!Change
  <2>6. CASE UNCHANGED vars
    BY <2>6 DEF vars, Walk!walkVars, Length
  <2> QED
    BY <1>2, <2>2, <2>3, <2>4, <2>5, <2>6 DEF Next, Read
<1> QED
  BY <1>1, <1>2, Invariance, PTL DEF Spec, WalkSpec, Walk!Spec

-----------------------------------------------------------------------------
(* What compaction leaves *)

\* An item and the notes of its page against the record it stands for.
Faithful(original, item, notes) ==
  /\ DOMAIN item \subseteq DOMAIN original
  /\ \A f \in DOMAIN item : item[f] = original[f]
  /\ \A f \in DOMAIN notes.shared : Get(original, f) = notes.shared[f]
  /\ \A f \in notes.empty : Get(original, f) = 0
  /\ \A f \in Keep : Get(original, f) # 0 => f \in DOMAIN item \cup DOMAIN notes.shared

\* Dropping fields keeps the values of the others.
LEMMA DropKeeps ==
  ASSUME NEW page, NEW F, NEW i \in DOMAIN page, NEW dropped, dropped = Drop(page, F)
  PROVE  /\ DOMAIN dropped = DOMAIN page
         /\ DOMAIN (dropped[i]) = DOMAIN (page[i]) \ F
         /\ \A f \in DOMAIN (page[i]) \ F : dropped[i][f] = page[i][f]
<1>1. DOMAIN dropped = DOMAIN page
  BY DEF Drop
<1>2. dropped[i] = [f \in DOMAIN (page[i]) \ F |-> page[i][f]]
  BY DEF Drop, Restrict
<1> QED
  BY <1>1, <1>2

\* The passes drop a field from the records only if it is empty or shared, and
\* the lossy one no field that identifies a record or reports its condition.
LEMMA CompactFaithful ==
  ASSUME NEW page, NEW fits, NEW i \in DOMAIN page
  PROVE  /\ DOMAIN Compact(page, fits).records = DOMAIN page
         /\ Faithful(page[i], Compact(page, fits).records[i], Compact(page, fits).notes)
<1> DEFINE E == EmptyFields(page)
           S == SharedFields(page)
           t == Trimmed(page)
           s == Selected(t)
           shared == [f \in S |-> Get(page[1], f)]
<1>0. PICK gone, lost : gone = E \cup S /\ lost = Fields \ Keep
  OBVIOUS
<1>1. /\ DOMAIN t = DOMAIN page /\ DOMAIN (t[i]) = DOMAIN (page[i]) \ gone
      /\ \A f \in DOMAIN (page[i]) \ gone : t[i][f] = page[i][f]
  <2>1. t = Drop(page, gone)
    BY <1>0 DEF Trimmed
  <2>2. i \in DOMAIN page
    OBVIOUS
  <2> HIDE DEF t
  <2>3. DOMAIN t = DOMAIN page
    BY <2>1, <2>2, DropKeeps
  <2>4. DOMAIN (t[i]) = DOMAIN (page[i]) \ gone
    BY <2>1, <2>2, DropKeeps
  <2>5. \A f \in DOMAIN (page[i]) \ gone : t[i][f] = page[i][f]
    BY <2>1, <2>2, DropKeeps
  <2> QED
    BY <2>3, <2>4, <2>5
<1>2. /\ DOMAIN s = DOMAIN page /\ DOMAIN (s[i]) = DOMAIN (t[i]) \ lost
      /\ \A f \in DOMAIN (t[i]) \ lost : s[i][f] = t[i][f]
  <2>1. s = Drop(t, lost)
    BY <1>0 DEF Selected
  <2>2. i \in DOMAIN t /\ DOMAIN t = DOMAIN page
    BY <1>1
  <2> HIDE DEF s, t
  <2> QED
    BY <2>1, <2>2, DropKeeps
<1>3. \A f \in E : Get(page[i], f) = 0
  BY DEF EmptyFields
<1>4. \A f \in S : Get(page[i], f) = Get(page[1], f)
  BY DEF SharedFields
<1>5. \A f \in Keep : Get(page[i], f) # 0 => f \in DOMAIN (page[i])
  BY DEF Get
<1>6. ASSUME NEW item, NEW notes, notes.empty = E, notes.shared = shared,
             item = t[i] \/ item = s[i]
      PROVE  Faithful(page[i], item, notes)
  <2> HIDE DEF E, S, t, s
  <2>1. DOMAIN notes.shared = S /\ \A f \in S : notes.shared[f] = Get(page[1], f)
    BY <1>6
  <2>2. DOMAIN item \subseteq DOMAIN (page[i]) /\ \A f \in DOMAIN item : item[f] = page[i][f]
    BY <1>1, <1>2, <1>6
  <2>3. \A f \in Keep : Get(page[i], f) # 0 => f \in DOMAIN item \cup S
    BY <1>0, <1>1, <1>2, <1>3, <1>5, <1>6
  <2> QED
    BY <1>3, <1>4, <1>6, <2>1, <2>2, <2>3 DEF Faithful
<1>7. LosslessNotes(page).empty = E /\ LosslessNotes(page).shared = shared
  BY DEF LosslessNotes, NoNotes
<1>8. CASE fits \/ ~Holdable(t)
  <2>1. Compact(page, fits) = [records |-> t, notes |-> LosslessNotes(page)]
    BY <1>8 DEF Compact
  <2> HIDE DEF t
  <2> QED
    BY <1>1, <1>6, <1>7, <2>1
<1>9. CASE ~(fits \/ ~Holdable(t))
  <2> DEFINE notes == [LosslessNotes(page) EXCEPT !.held = Held(t)]
  <2>1. Compact(page, fits) = [records |-> s, notes |-> notes]
    BY <1>9 DEF Compact
  <2>2. notes.empty = E /\ notes.shared = shared
    BY <1>7 DEF LosslessNotes, NoNotes
  <2> HIDE DEF t, s, notes
  <2> QED
    BY <1>2, <1>6, <2>1, <2>2
<1> QED
  BY <1>8, <1>9

\* A record that is sent as it is.
LEMMA WholeFaithful ==
  ASSUME NEW r
  PROVE  Faithful(r, r, NoNotes)
BY DEF Faithful, NoNotes, Get

\* A page that is offered to the loop is true to the records behind the cursor.
LEMMA PreparedFaithful ==
  ASSUME IInv, NEW limit \in Nat, NEW full \in BOOLEAN, cursor <= Length,
         NEW i \in 1..(PageEnd(limit) - cursor)
  PROVE  /\ Faithful(records[cursor + i], Prepared(limit, full).records[i],
                     Prepared(limit, full).notes)
         /\ full => Prepared(limit, full).records[i] = records[cursor + i]
<1> DEFINE page == PageOf(limit)
           prepared == Prepared(limit, full)
           fits == BelowThreshold(Trimmed(page), LosslessNotes(page))
<1>1. /\ Length \in Nat /\ cursor \in Nat /\ records \in Seq(Records)
      /\ PageEnd(limit) \in Nat /\ cursor <= PageEnd(limit) /\ PageEnd(limit) <= Length
  BY LenProperties DEF IInv, Length, PageEnd
<1>2. \A j \in (cursor + 1)..PageEnd(limit) : records[j] \in Records
  BY <1>1, ElementOfSeq DEF Length
<1>3. /\ page \in Seq(Records) /\ Len(page) = PageEnd(limit) - cursor
      /\ \A j \in 1..(PageEnd(limit) - cursor) : page[j] = records[cursor + j]
  <2>1. cursor + 1 \in Int /\ PageEnd(limit) \in Int
    BY <1>1
  <2>2. /\ page \in Seq(Records)
        /\ Len(page) = IF cursor + 1 <= PageEnd(limit) THEN PageEnd(limit) - (cursor + 1) + 1 ELSE 0
        /\ \A j \in 1..(PageEnd(limit) - (cursor + 1) + 1) : page[j] = records[(cursor + 1) + j - 1]
    BY <1>2, <2>1, SubSeqProperties DEF PageOf
  <2>3. PageEnd(limit) - (cursor + 1) + 1 = PageEnd(limit) - cursor
    BY <1>1
  <2>4. \A j \in 1..(PageEnd(limit) - cursor) : (cursor + 1) + j - 1 = cursor + j
    BY <1>1
  <2> HIDE DEF page
  <2> QED
    BY <1>1, <2>2, <2>3, <2>4
<1>4. i \in DOMAIN page /\ page[i] = records[cursor + i]
  <2> HIDE DEF page
  <2> QED
    BY <1>1, <1>3, LenProperties
<1>5. \/ prepared = [records |-> page, notes |-> NoNotes]
      \/ ~full /\ prepared = Compact(page, fits)
  BY DEF Prepared
<1>6. CASE prepared = [records |-> page, notes |-> NoNotes]
  <2> HIDE DEF page, prepared
  <2>1. prepared.records[i] = records[cursor + i] /\ prepared.notes = NoNotes
    BY <1>4, <1>6
  <2>2. Faithful(records[cursor + i], prepared.records[i], prepared.notes)
    BY <2>1, WholeFaithful
  <2> QED
    BY <2>1, <2>2 DEF prepared
<1>7. CASE ~full /\ prepared = Compact(page, fits)
  <2> HIDE DEF page, prepared, fits
  <2>1. Faithful(page[i], prepared.records[i], prepared.notes)
    BY <1>4, <1>7, CompactFaithful
  <2> QED
    BY <1>4, <1>7, <2>1 DEF prepared
<1> QED
  BY <1>5, <1>6, <1>7

\* The items of the last reply are true to the records they stand for.
ReplyFaithful ==
  \A i \in DOMAIN reply.items :
    /\ Faithful(reply.source[i], reply.items[i], reply.notes)
    /\ reply.full => reply.items[i] = reply.source[i]

LEMMA ReadFaithful ==
  ASSUME IInv, NEW limit \in Nat, NEW full \in BOOLEAN, ReadPage(limit, full)
  PROVE  ReplyFaithful'
<1> DEFINE k == PageEnd(limit) - cursor
           prepared == Prepared(limit, full)
<1>1. Length \in Nat /\ cursor \in Nat /\ cursor <= Length /\ records \in Seq(Records)
  BY LenProperties DEF IInv, Length, ReadPage
<1>2. k \in Nat /\ cursor + k <= Length
  BY <1>1 DEF PageEnd
<1>3. \A i \in 1..k : /\ Faithful(records[cursor + i], prepared.records[i], prepared.notes)
                      /\ full => prepared.records[i] = records[cursor + i]
  BY <1>1, PreparedFaithful
<1> HIDE DEF k, prepared
<1>4. PICK n \in 0..k :
        IF n = 0 /\ k > 0 THEN SendStub(prepared, full) ELSE SendPage(prepared, full, n)
  BY DEF ReadPage, k, prepared
<1>5. reply'.items = <<>> => ReplyFaithful'
  BY DEF ReplyFaithful
<1>6. CASE SendStub(prepared, full)
  BY <1>5, <1>6 DEF SendStub
<1>7. CASE SendPage(prepared, full, n)
  <2> DEFINE size == PayloadSize(FirstItems(prepared, n), prepared.notes, cursor + n)
                       + (IF cursor + n < Length THEN SUFFIX ELSE 0)
  <2>1. CASE size > BUDGET
    <3>1. reply'.items = <<>>
      BY <1>7, <2>1 DEF SendPage, NoReply
    <3> QED
      BY <1>5, <3>1
  <2>2. CASE ~(size > BUDGET)
    <3>1. /\ reply'.items = FirstItems(prepared, n) /\ reply'.notes = prepared.notes
          /\ reply'.full = full /\ reply'.source = SubSeq(records, cursor + 1, cursor + n)
      BY <1>7, <2>2 DEF SendPage
    <3>2. /\ DOMAIN reply'.items = 1..n
          /\ \A i \in 1..n : reply'.items[i] = prepared.records[i]
      BY <3>1 DEF FirstItems
    <3>3. \A i \in 1..n : reply'.source[i] = records[cursor + i]
      <4>1. \A j \in (cursor + 1)..(cursor + n) : records[j] \in Records
        BY <1>1, <1>2, ElementOfSeq DEF Length
      <4>2. cursor + 1 \in Int /\ cursor + n \in Int
        BY <1>1, <1>2
      <4>3. \A i \in 1..((cursor + n) - (cursor + 1) + 1) :
              SubSeq(records, cursor + 1, cursor + n)[i] = records[(cursor + 1) + i - 1]
        BY <4>1, <4>2, SubSeqProperties
      <4>4. (cursor + n) - (cursor + 1) + 1 = n
        BY <1>1, <1>2
      <4>5. \A i \in 1..n : (cursor + 1) + i - 1 = cursor + i
        BY <1>1, <1>2
      <4> QED
        BY <3>1, <4>3, <4>4, <4>5
    <3>4. \A i \in 1..n : i \in 1..k
      BY <1>2
    <3> QED
      BY <1>3, <3>1, <3>2, <3>3, <3>4 DEF ReplyFaithful
  <2> QED
    BY <2>1, <2>2
<1> QED
  BY <1>4, <1>6, <1>7

LEMMA FaithfulInductive == IInv /\ ReplyFaithful /\ [Next]_vars => ReplyFaithful'
<1> SUFFICES ASSUME IInv, ReplyFaithful, [Next]_vars PROVE ReplyFaithful'
  OBVIOUS
<1>1. ASSUME NEW limit \in Limits, NEW full \in BOOLEAN, ReadPage(limit, full)
      PROVE  ReplyFaithful'
  BY <1>1, ReadFaithful, PagesAssumption
<1>2. ASSUME NEW limit \in Limits, RefuseLimit(limit) \/ RefuseCursor(limit)
      PROVE  ReplyFaithful'
  <2>1. reply'.items = <<>>
    BY <1>2 DEF RefuseLimit, RefuseCursor, NoReply
  <2> QED
    BY <2>1 DEF ReplyFaithful
<1>3. CASE Arrive \/ Leave \/ UNCHANGED vars
  BY <1>3 DEF Arrive, Leave, vars, ReplyFaithful
<1> QED
  BY <1>1, <1>2, <1>3 DEF Next, Read

LEMMA FaithfulAlways == Spec => []ReplyFaithful
<1>1. Init => ReplyFaithful
  BY DEF Init, NoReply, ReplyFaithful
<1> QED
  BY <1>1, FaithfulInductive, Invariance, PTL DEF Spec

\* What is shown is what was fetched, for any records and any budget.
THEOREM ShownAsFetched == Spec => []ShownIsFetched
<1>1. ReplyFaithful => ShownIsFetched
  BY DEF ReplyFaithful, Faithful, ShownIsFetched, Get
<1> QED
  BY <1>1, FaithfulAlways, PTL

\* Fields that identify a record or report its condition are in every page.
THEOREM ConditionAlwaysShown == Spec => []ConditionNeverHeld
<1>1. ReplyFaithful => ConditionNeverHeld
  <2> SUFFICES ASSUME ReplyFaithful, NEW i \in DOMAIN reply.items,
                      NEW f \in (IF reply.full THEN Fields ELSE Keep),
                      Get(reply.source[i], f) # 0
               PROVE  f \in DOMAIN reply.items[i] \cup DOMAIN reply.notes.shared
    BY DEF ConditionNeverHeld
  <2>1. f \in DOMAIN (reply.source[i])
    BY DEF Get
  <2> QED
    BY <2>1 DEF ReplyFaithful, Faithful
<1> QED
  BY <1>1, FaithfulAlways, PTL

-----------------------------------------------------------------------------
(* The sizes *)

\* The sum of finitely many natural numbers is one, and the sum of none is 0.
\* The fold's recursive function is not known to exist: first, by the least size
\* of a set that has none, a function that does what it asks for.
LEMMA SumIsNatural ==
  ASSUME NEW fun, IsFiniteSet(DOMAIN fun), \A x \in DOMAIN fun : fun[x] \in Nat
  PROVE  /\ SumFunction(fun) \in Nat
         /\ DOMAIN fun = {} => SumFunction(fun) = 0
<1> DEFINE S == DOMAIN fun
           pick(s) == CHOOSE x \in s : TRUE
           value(g, s) == IF s = {} THEN 0 ELSE fun[pick(s)] + g[s \ {pick(s)}]
           card(s) == Cardinality(s)
           Part(g, n) == \A s \in SUBSET S :
                           card(s) <= n => g[s] \in Nat /\ g[s] = value(g, s)
           T == {n \in Nat : ~ \E g \in [SUBSET S -> Nat] : Part(g, n)}
<1>1. \A s \in SUBSET S : card(s) \in Nat /\ (s = {} <=> card(s) = 0) /\ IsFiniteSet(s)
  BY FS_Subset, FS_CardinalityType, FS_EmptySet
<1>2. \A s \in SUBSET S : s # {} =>
        /\ pick(s) \in s /\ fun[pick(s)] \in Nat
        /\ s \ {pick(s)} \in SUBSET S /\ card(s \ {pick(s)}) = card(s) - 1
  <2> SUFFICES ASSUME NEW s \in SUBSET S, s # {}
               PROVE /\ pick(s) \in s /\ fun[pick(s)] \in Nat
                     /\ s \ {pick(s)} \in SUBSET S /\ card(s \ {pick(s)}) = card(s) - 1
    OBVIOUS
  <2>1. PICK x : x = pick(s)
    OBVIOUS
  <2>2. x \in s
    BY <2>1
  <2>3. Cardinality(s \ {x}) = Cardinality(s) - 1
    BY <1>1, <2>2, FS_RemoveElement
  <2> QED
    BY <2>1, <2>2, <2>3
<1> HIDE DEF card
<1>3. T = {}
  <2> SUFFICES ASSUME T # {} PROVE FALSE
    OBVIOUS
  <2>1. PICK n \in T : \A m \in T : n <= m
    <3>1. T \subseteq Nat
      OBVIOUS
    <3> HIDE DEF T
    <3> QED
      BY <3>1, LeastNumber
  <2>2. n \in Nat /\ ~ \E g \in [SUBSET S -> Nat] : Part(g, n)
    BY <2>1
  <2>3. CASE n = 0
    <3> DEFINE g == [s \in SUBSET S |-> 0]
    <3>1. Part(g, 0)
      BY <1>1
    <3>2. g \in [SUBSET S -> Nat]
      OBVIOUS
    <3> QED
      BY <2>2, <2>3, <3>1, <3>2
  <2>4. CASE n # 0
    <3>1. PICK m \in Nat : n = m + 1
      BY <2>2, <2>4
    <3>2. m \notin T
      <4>1. ~(n <= m)
        BY <3>1
      <4> HIDE DEF T
      <4> QED
        BY <2>1, <4>1
    <3>3. PICK g \in [SUBSET S -> Nat] : Part(g, m)
      BY <3>2
    <3> DEFINE h == [s \in SUBSET S |-> value(g, s)]
    <3>4. h \in [SUBSET S -> Nat]
      BY <1>2, <3>3
    <3>5. Part(h, n)
      <4> SUFFICES ASSUME NEW s \in SUBSET S, card(s) <= n
                   PROVE  h[s] \in Nat /\ h[s] = value(h, s)
        OBVIOUS
      <4>1. h[s] \in Nat /\ h[s] = value(g, s)
        BY <3>4
      <4>2. CASE s = {}
        BY <4>1, <4>2
      <4>3. CASE s # {}
        <5> DEFINE r == s \ {pick(s)}
        <5>1. r \in SUBSET S /\ card(r) <= m
          BY <1>1, <1>2, <2>2, <3>1, <4>3
        <5>2. g[r] = value(g, r)
          BY <3>3, <5>1
        <5>3. h[r] = g[r]
          BY <5>1, <5>2
        <5> QED
          BY <4>1, <4>3, <5>3
      <4> QED
        BY <4>2, <4>3
    <3> QED
      BY <2>2, <3>4, <3>5
  <2> QED
    BY <2>3, <2>4
<1>4. PICK G \in [SUBSET S -> Nat] : \A s \in SUBSET S : G[s] = value(G, s)
  <2>1. card(S) \in Nat
    BY <1>1
  <2>2. PICK g \in [SUBSET S -> Nat] : Part(g, card(S))
    BY <1>3, <2>1
  <2>3. \A s \in SUBSET S : card(s) <= card(S)
    BY FS_Subset DEF card
  <2> QED
    BY <2>2, <2>3
<1>5. G = [s \in SUBSET S |-> value(G, s)]
  BY <1>4
<1>6. PICK F : F = [s \in SUBSET S |-> value(F, s)] /\ SumFunction(fun) = F[S]
  <2> DEFINE F == CHOOSE f : f = [s \in SUBSET S |-> value(f, s)]
  <2>1. F = [s \in SUBSET S |-> value(F, s)]
    BY <1>5
  <2>2. SumFunction(fun) = F[S]
    BY DEF SumFunction, SumFunctionOnSet, FoldFunctionOnSet, MapThenFoldSet
  <2> QED
    BY <2>1, <2>2
<1> DEFINE U == {card(s) : s \in {t \in SUBSET S : F[t] \notin Nat}}
<1>7. \A s \in SUBSET S : F[s] \in Nat
  <2> SUFFICES ASSUME NEW t \in SUBSET S, F[t] \notin Nat PROVE FALSE
    OBVIOUS
  <2>1. U \subseteq Nat /\ card(t) \in U
    BY <1>1
  <2>2. PICK n \in U : \A m \in U : n <= m
    <3> HIDE DEF U
    <3> QED
      BY <2>1, LeastNumber
  <2>3. PICK s \in SUBSET S : n = card(s) /\ F[s] \notin Nat
    BY <2>2
  <2>4. F[s] = value(F, s)
    BY <1>6
  <2>5. s # {}
    BY <2>3, <2>4
  <2>6. s \ {pick(s)} \in SUBSET S /\ card(s \ {pick(s)}) < n
    BY <1>1, <1>2, <2>3, <2>5
  <2>7. F[s \ {pick(s)}] \in Nat
    BY <1>1, <2>1, <2>2, <2>6
  <2> QED
    BY <1>2, <2>3, <2>4, <2>5, <2>7
<1>8. S = {} => F[S] = 0
  BY <1>6
<1> QED
  BY <1>6, <1>7, <1>8

\* A record as it comes from a fetch or out of a pass: sizes of finitely many
\* fields.
Plain(r) == IsFiniteSet(DOMAIN r) /\ \A f \in DOMAIN r : r[f] \in Nat

PlainNotes(notes) ==
  IsFiniteSet(notes.empty) /\ IsFiniteSet(notes.held) /\ Plain(notes.shared)

\* The size of a record, of a page and of the notes is a number.
LEMMA SizesAreNumbers ==
  ASSUME NEW page, IsFiniteSet(DOMAIN page), \A i \in DOMAIN page : Plain(page[i]),
         NEW notes, PlainNotes(notes)
  PROVE  PageSize(page) \in Nat /\ NotesSize(notes) \in Nat
<1>1. ASSUME NEW r, Plain(r) PROVE RecordSize(r) \in Nat
  <2> DEFINE sizes == [f \in DOMAIN r |-> r[f] + NAME]
  <2>1. DOMAIN sizes = DOMAIN r /\ \A f \in DOMAIN sizes : sizes[f] \in Nat
    BY <1>1, CompactionAssumption DEF Plain
  <2>2. IsFiniteSet(DOMAIN sizes)
    BY <1>1, <2>1 DEF Plain
  <2> HIDE DEF sizes
  <2>3. SumFunction(sizes) \in Nat
    BY <2>1, <2>2, SumIsNatural
  <2> QED
    BY <2>3 DEF RecordSize, sizes
<1>2. PageSize(page) \in Nat
  <2> DEFINE sizes == [i \in DOMAIN page |-> RecordSize(page[i])]
  <2>1. DOMAIN sizes = DOMAIN page /\ \A i \in DOMAIN sizes : sizes[i] \in Nat
    BY <1>1
  <2> HIDE DEF sizes
  <2>2. SumFunction(sizes) \in Nat
    BY <2>1, SumIsNatural
  <2> QED
    BY <2>2 DEF PageSize, sizes
<1>3. NotesSize(notes) \in Nat
  <2>1. RecordSize(notes.shared) \in Nat
    BY <1>1 DEF PlainNotes
  <2>2. Cardinality(notes.empty) \in Nat /\ Cardinality(notes.held) \in Nat
    BY FS_CardinalityType DEF PlainNotes
  <2>3. ASSUME NEW a \in Nat, NEW b \in Nat, NEW c \in Nat, NEW d \in Nat, NEW e \in Nat
        PROVE  a * (b + c) + d + (IF notes.held = {} THEN 0 ELSE e) \in Nat
    OBVIOUS
  <2> QED
    BY <2>1, <2>2, <2>3, CompactionAssumption DEF NotesSize
<1> QED
  BY <1>2, <1>3

\* An empty page without notes is nothing but its envelope.
LEMMA NothingHasNoSize == PageSize(<<>>) = 0 /\ NotesSize(NoNotes) = 0
<1>1. ASSUME NEW sizes, DOMAIN sizes = {} PROVE SumFunction(sizes) = 0
  BY <1>1, SumIsNatural, FS_EmptySet
<1>2. DOMAIN <<>> = {}
  OBVIOUS
<1>3. PageSize(<<>>) = 0
  <2>1. PICK sizes : sizes = [i \in DOMAIN <<>> |-> RecordSize(<<>>[i])]
    OBVIOUS
  <2>2. DOMAIN sizes = {}
    BY <1>2, <2>1
  <2> QED
    BY <1>1, <2>1, <2>2 DEF PageSize
<1>4. RecordSize(<<>>) = 0
  <2>1. PICK sizes : sizes = [f \in DOMAIN <<>> |-> <<>>[f] + NAME]
    OBVIOUS
  <2>2. DOMAIN sizes = {}
    BY <1>2, <2>1
  <2> QED
    BY <1>1, <2>1, <2>2 DEF RecordSize
<1>5. Cardinality({}) = 0
  BY FS_EmptySet
<1> QED
  BY <1>3, <1>4, <1>5, CompactionAssumption DEF NotesSize, NoNotes

\* The names of finitely many records are finitely many.
LEMMA NamesFinite ==
  ASSUME NEW page, IsFiniteSet(DOMAIN page), \A i \in DOMAIN page : Plain(page[i])
  PROVE  IsFiniteSet(Names(page))
<1> DEFINE T == {DOMAIN page[i] : i \in DOMAIN page}
           g == [i \in DOMAIN page |-> DOMAIN page[i]]
<1>1. g \in Surjection(DOMAIN page, T)
  BY DEF Surjection
<1>2. IsFiniteSet(T)
  <2> HIDE DEF T, g
  <2> QED
    BY <1>1, FS_Surjection
<1>3. \A S \in T : IsFiniteSet(S)
  BY DEF Plain
<1>4. IsFiniteSet(UNION T)
  <2> HIDE DEF T
  <2> QED
    BY <1>2, <1>3, FS_UNION
<1> QED
  BY <1>4 DEF Names

\* Dropping fields leaves plain records.
LEMMA DropPlain ==
  ASSUME NEW page, NEW F, NEW dropped, dropped = Drop(page, F),
         \A i \in DOMAIN page : Plain(page[i])
  PROVE  DOMAIN dropped = DOMAIN page /\ \A i \in DOMAIN dropped : Plain(dropped[i])
<1>1. DOMAIN dropped = DOMAIN page
  BY DEF Drop
<1>2. ASSUME NEW i \in DOMAIN page PROVE Plain(dropped[i])
  <2>1. /\ DOMAIN (dropped[i]) = DOMAIN (page[i]) \ F
        /\ \A f \in DOMAIN (page[i]) \ F : dropped[i][f] = page[i][f]
    BY <1>2, DropKeeps
  <2>2. PICK d : d = DOMAIN (page[i]) \ F
    OBVIOUS
  <2>3. IsFiniteSet(DOMAIN (page[i])) /\ d \in SUBSET DOMAIN (page[i])
    BY <1>2, <2>2 DEF Plain
  <2>4. IsFiniteSet(d)
    BY <2>3, FS_Subset
  <2> QED
    BY <1>2, <2>1, <2>2, <2>4 DEF Plain
<1> QED
  BY <1>1, <1>2

\* What either pass makes of a page is plain, the notes with it.
LEMMA CompactPlain ==
  ASSUME NEW page, NEW fits, IsFiniteSet(DOMAIN page), 1 \in DOMAIN page,
         \A i \in DOMAIN page : Plain(page[i])
  PROVE  /\ \A i \in DOMAIN page : Plain(Compact(page, fits).records[i])
         /\ PlainNotes(Compact(page, fits).notes)
<1> DEFINE E == EmptyFields(page)
           S == SharedFields(page)
           t == Trimmed(page)
           s == Selected(t)
           H == Held(t)
           shared == [f \in S |-> Get(page[1], f)]
<1>1. PICK gone, lost : gone = E \cup S /\ lost = Fields \ Keep
  OBVIOUS
<1>2. DOMAIN t = DOMAIN page /\ \A i \in DOMAIN t : Plain(t[i])
  <2>1. t = Drop(page, gone)
    BY <1>1 DEF Trimmed
  <2> HIDE DEF t
  <2> QED
    BY <2>1, DropPlain
<1>3. DOMAIN s = DOMAIN page /\ \A i \in DOMAIN s : Plain(s[i])
  <2>1. s = Drop(t, lost)
    BY <1>1 DEF Selected
  <2> HIDE DEF s, t
  <2> QED
    BY <1>2, <2>1, DropPlain
<1>4. IsFiniteSet(Names(page)) /\ IsFiniteSet(Names(t))
  <2> HIDE DEF t
  <2> QED
    BY <1>2, NamesFinite
<1>5. E \in SUBSET Names(page) /\ S \in SUBSET Names(page) /\ H \in SUBSET Names(t)
  BY DEF EmptyFields, SharedFields, Held
<1>6. IsFiniteSet(E) /\ IsFiniteSet(S) /\ IsFiniteSet(H)
  <2> HIDE DEF E, S, H, t
  <2> QED
    BY <1>4, <1>5, FS_Subset
<1>7. Plain(shared)
  <2>1. \A f \in S : Get(page[1], f) \in Nat
    BY DEF Plain, Get
  <2>2. DOMAIN shared = S
    OBVIOUS
  <2>3. \A f \in DOMAIN shared : shared[f] \in Nat
    BY <2>1
  <2> HIDE DEF shared, S
  <2> QED
    BY <1>6, <2>2, <2>3 DEF Plain
<1>8. /\ LosslessNotes(page).empty = E /\ LosslessNotes(page).shared = shared
      /\ LosslessNotes(page).held = {}
  BY DEF LosslessNotes, NoNotes
<1>9. CASE fits \/ ~Holdable(t)
  <2>1. Compact(page, fits) = [records |-> t, notes |-> LosslessNotes(page)]
    BY <1>9 DEF Compact
  <2>2. IsFiniteSet({})
    BY FS_EmptySet
  <2> HIDE DEF t, shared, E
  <2> QED
    BY <1>2, <1>6, <1>7, <1>8, <2>1, <2>2 DEF PlainNotes
<1>10. CASE ~(fits \/ ~Holdable(t))
  <2> DEFINE notes == [LosslessNotes(page) EXCEPT !.held = H]
  <2>1. Compact(page, fits) = [records |-> s, notes |-> notes]
    BY <1>10 DEF Compact
  <2>2. notes.empty = E /\ notes.shared = shared /\ notes.held = H
    BY <1>8 DEF LosslessNotes, NoNotes
  <2> HIDE DEF t, s, notes, shared, E, H
  <2> QED
    BY <1>3, <1>6, <1>7, <2>1, <2>2 DEF PlainNotes
<1> QED
  BY <1>9, <1>10

\* What is offered to the loop has a size, whatever part of it is taken.
LEMMA PreparedHasSize ==
  ASSUME IInv, NEW limit \in Nat, NEW full \in BOOLEAN, cursor <= Length,
         NEW n \in 0..(PageEnd(limit) - cursor), NEW next
  PROVE  PayloadSize(FirstItems(Prepared(limit, full), n),
                     Prepared(limit, full).notes, next) \in Nat
<1> DEFINE page == PageOf(limit)
           prepared == Prepared(limit, full)
           items == FirstItems(prepared, n)
           fits == BelowThreshold(Trimmed(page), LosslessNotes(page))
<1>1. /\ Length \in Nat /\ cursor \in Nat /\ records \in Seq(Records)
      /\ PageEnd(limit) \in Nat /\ cursor <= PageEnd(limit) /\ PageEnd(limit) <= Length
  BY LenProperties DEF IInv, Length, PageEnd
<1>2. page \in Seq(Records) /\ Len(page) = PageEnd(limit) - cursor
  <2>1. \A j \in (cursor + 1)..PageEnd(limit) : records[j] \in Records
    BY <1>1, ElementOfSeq DEF Length
  <2>2. cursor + 1 \in Int /\ PageEnd(limit) \in Int
    BY <1>1
  <2>3. /\ page \in Seq(Records)
        /\ Len(page) = IF cursor + 1 <= PageEnd(limit) THEN PageEnd(limit) - (cursor + 1) + 1 ELSE 0
    BY <2>1, <2>2, SubSeqProperties DEF PageOf
  <2> HIDE DEF page
  <2> QED
    BY <1>1, <2>3
<1>3. \A r \in Records : Plain(r)
  BY PagesAssumption DEF Plain
<1> HIDE DEF page
<1>4. /\ DOMAIN page = 1..Len(page) /\ Len(page) \in Nat
      /\ \A i \in DOMAIN page : Plain(page[i])
  <2>1. DOMAIN page = 1..Len(page) /\ Len(page) \in Nat
    BY <1>2, LenProperties
  <2>2. \A i \in 1..Len(page) : page[i] \in Records
    BY <1>2, ElementOfSeq
  <2> QED
    BY <1>3, <2>1, <2>2
<1>5. IsFiniteSet(DOMAIN page)
  BY <1>4, FS_Interval
<1>6. IsFiniteSet({}) /\ Plain(<<>>)
  <2>1. DOMAIN <<>> = {}
    OBVIOUS
  <2> QED
    BY <2>1, FS_EmptySet DEF Plain
<1>7. (\A i \in 1..n : Plain(prepared.records[i])) /\ PlainNotes(prepared.notes)
  <2>1. \/ prepared = [records |-> page, notes |-> NoNotes]
        \/ page # <<>> /\ prepared = Compact(page, fits)
    BY DEF Prepared, page
  <2>2. \A i \in 1..n : i \in DOMAIN page
    BY <1>1, <1>2, <1>4
  <2> HIDE DEF prepared, fits
  <2>3. CASE prepared = [records |-> page, notes |-> NoNotes]
    BY <1>4, <1>6, <2>2, <2>3 DEF PlainNotes, NoNotes
  <2>4. CASE page # <<>> /\ prepared = Compact(page, fits)
    <3>1. 1 \in DOMAIN page
      BY <1>2, <1>4, <2>4, EmptySeq
    <3>2. /\ \A i \in DOMAIN page : Plain(Compact(page, fits).records[i])
          /\ PlainNotes(Compact(page, fits).notes)
      BY <1>4, <1>5, <3>1, CompactPlain
    <3> QED
      BY <2>2, <2>4, <3>2
  <2> QED
    BY <2>1, <2>3, <2>4
<1> HIDE DEF prepared
<1>8. IsFiniteSet(DOMAIN items) /\ \A i \in DOMAIN items : Plain(items[i])
  <2>1. DOMAIN items = 1..n /\ \A i \in 1..n : items[i] = prepared.records[i]
    BY DEF FirstItems
  <2>2. n \in Nat
    BY <1>1
  <2>3. IsFiniteSet(1..n)
    BY <2>2, FS_Interval
  <2> QED
    BY <1>7, <2>1, <2>3
<1> HIDE DEF items
<1>9. PageSize(items) \in Nat /\ NotesSize(prepared.notes) \in Nat
  BY <1>7, <1>8, SizesAreNumbers
<1>10. PayloadSize(items, prepared.notes, next) \in Nat
  BY <1>9, PagesAssumption DEF PayloadSize
<1> QED
  BY <1>10 DEF items, prepared

\* The size check that the suffix fails is the last one alone: the loop made the
\* same one without it.
LEMMA OverflowOfRead ==
  ASSUME IInv, NEW limit \in Nat, NEW full \in BOOLEAN, ReadPage(limit, full)
  PROVE  OverflowIsTheSuffix'
<1> DEFINE k == PageEnd(limit) - cursor
           prepared == Prepared(limit, full)
<1>1. Length \in Nat /\ cursor \in Nat /\ cursor <= Length
  BY LenProperties DEF IInv, Length, ReadPage
<1>2. k \in Nat /\ cursor + k <= Length
  BY <1>1 DEF PageEnd
<1>3. PICK n \in 0..k :
        /\ Takes(prepared, k, n)
        /\ IF n = 0 /\ k > 0 THEN SendStub(prepared, full) ELSE SendPage(prepared, full, n)
  BY DEF ReadPage
<1> DEFINE payload == PayloadSize(FirstItems(prepared, n), prepared.notes, cursor + n)
<1>4. n \in Nat /\ n <= k /\ cursor + n <= Length
  BY <1>1, <1>2, <1>3
<1>5. payload \in Nat
  BY <1>1, <1>3, PreparedHasSize
<1>6. CASE n = 0 /\ k > 0
  <2>1. reply'.kind = "stub"
    BY <1>3, <1>6 DEF SendStub
  <2> QED
    BY <2>1 DEF OverflowIsTheSuffix
<1>7. CASE ~(n = 0 /\ k > 0)
  <2>1. SendPage(prepared, full, n)
    BY <1>3, <1>7
  <2> DEFINE size == payload + (IF cursor + n < Length THEN SUFFIX ELSE 0)
  <2>2. CASE ~(size > BUDGET)
    <3>1. reply'.kind = "page"
      BY <2>1, <2>2 DEF SendPage
    <3> QED
      BY <3>1 DEF OverflowIsTheSuffix
  <2>3. CASE size > BUDGET
    <3>1. reply' = [NoReply EXCEPT !.kind = "over_budget", !.start = cursor, !.size = size,
                                   !.next = cursor + n, !.total = Length]
      BY <2>1, <2>3 DEF SendPage
    <3>2. reply'.size = size /\ reply'.next = cursor + n /\ reply'.total = Length
      BY <3>1 DEF NoReply
    <3>3. CASE n > 0
      <4>1. FitsBudget(prepared, n)
        BY <1>3, <1>4, <3>3 DEF Takes
      <4>2. payload <= BUDGET
        BY <4>1 DEF FitsBudget
      <4> HIDE DEF payload
      <4>3. cursor + n < Length /\ size <= BUDGET + SUFFIX
        BY <1>1, <1>4, <1>5, <2>3, <4>2, PagesAssumption
      <4> QED
        BY <3>2, <4>3 DEF OverflowIsTheSuffix
    <3>4. CASE ~(n > 0)
      <4>1. n = 0 /\ k = 0
        BY <1>2, <1>4, <1>7, <3>4
      <4>2. cursor = Length /\ PageEnd(limit) = cursor
        BY <1>1, <4>1 DEF PageEnd, ReadPage
      <4>3. PageOf(limit) = <<>>
        BY <1>1, <4>2, SubSeqEmpty DEF PageOf
      <4>4. prepared.notes = NoNotes
        BY <4>3 DEF Prepared
      <4>5. FirstItems(prepared, n) = <<>>
        <5>1. 1..n = {}
          BY <4>1
        <5> QED
          BY <5>1 DEF FirstItems
      <4>6. payload = ENVELOPE + 0 + 0 + 0
        BY <1>1, <4>1, <4>2, <4>4, <4>5, NothingHasNoSize DEF PayloadSize
      <4> HIDE DEF payload
      <4>7. size = ENVELOPE /\ ENVELOPE > BUDGET /\ cursor + n = Length
        BY <1>1, <2>3, <4>1, <4>2, <4>6, PagesAssumption
      <4> QED
        BY <3>2, <4>7, PagesAssumption DEF OverflowIsTheSuffix
    <3> QED
      BY <3>3, <3>4
  <2> QED
    BY <2>2, <2>3
<1> QED
  BY <1>6, <1>7

\* A page is lost to the budget only by the suffix of its summary, whatever the
\* records, the sizes and the budget.
THEOREM OnlyTheSuffixOverflows == Spec => []OverflowIsTheSuffix
<1>1. Init => OverflowIsTheSuffix
  BY DEF Init, NoReply, OverflowIsTheSuffix
<1>2. IInv /\ OverflowIsTheSuffix /\ [Next]_vars => OverflowIsTheSuffix'
  <2> SUFFICES ASSUME IInv, OverflowIsTheSuffix, [Next]_vars PROVE OverflowIsTheSuffix'
    OBVIOUS
  <2>1. ASSUME NEW limit \in Limits, NEW full \in BOOLEAN, ReadPage(limit, full)
        PROVE  OverflowIsTheSuffix'
    BY <2>1, OverflowOfRead, PagesAssumption
  <2>2. ASSUME NEW limit \in Limits, RefuseLimit(limit) \/ RefuseCursor(limit)
        PROVE  OverflowIsTheSuffix'
    <3>1. reply'.kind \in {"invalid_limit", "invalid_cursor"}
      BY <2>2 DEF RefuseLimit, RefuseCursor, NoReply
    <3> QED
      BY <3>1 DEF OverflowIsTheSuffix
  <2>3. CASE Arrive \/ Leave \/ UNCHANGED vars
    BY <2>3 DEF Arrive, Leave, vars, OverflowIsTheSuffix
  <2> QED
    BY <2>1, <2>2, <2>3 DEF Next, Read
<1> QED
  BY <1>1, <1>2, Invariance, PTL DEF Spec
=============================================================================
