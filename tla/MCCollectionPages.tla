------------------------- MODULE MCCollectionPages -------------------------
(* Instances of CollectionPages for TLC: records of an identifier, a condition *)
(* flag, a short note and a blob, each with a few sizes.                       *)
EXTENDS CollectionPages

CONSTANTS NoteSizes, BlobSizes, StateSizes, StartLengths

MCFields == {"id", "state", "note", "blob"}
MCIdentity == {"id"}
MCCondition == {"state"}

MCSome ==
  {[id |-> 2, state |-> s, note |-> n, blob |-> b] :
      s \in StateSizes, n \in NoteSizes, b \in BlobSizes}

MCCollections == UNION {[1..n -> MCSome] : n \in StartLengths}

\* what may arrive during a walk: a small record and an oversize one
MCArrivals == {[id |-> 2, state |-> 1, note |-> 0, blob |-> 0],
               [id |-> 2, state |-> 1, note |-> 3, blob |-> 70]}

MCRecords == MCSome \cup MCArrivals
=============================================================================
