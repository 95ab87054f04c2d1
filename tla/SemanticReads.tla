--------------------------- MODULE SemanticReads ---------------------------
(* The handlers of the read tools (tools/core.py, monitoring.py,              *)
(* routing_diagnostics.py, policies_security.py, domains.py, discovery.py).   *)
(* Each handler is a short program over the same few steps: refuse arguments, *)
(* resolve names, look something up, look at whether the answer was an error, *)
(* keep an error beside the result, pick one row, look up every row.  What a  *)
(* caller can read from the reply depends on which of these steps a handler   *)
(* takes and in which order: an error that no step looks at becomes a list    *)
(* without rows (records, tools/common.py).                                   *)
(*                                                                            *)
(* Modelled elsewhere: the resolver (NameMatch, SiteElement), the retries     *)
(* under a lookup (SdwanClient), the paging of the reply (CollectionPages)    *)
(* and the basenet view of get_topology (BasenetWalk).                        *)
EXTENDS Integers, Sequences, FiniteSets

CONSTANTS
  Operations,   \* the operations a caller may ask for
  MaxFanout,    \* get_max_fanout(): the most rows one call looks up
  MaxRows       \* bound: the longest list a controller answers with

ASSUME FanoutAssumption == MaxFanout \in Nat \ {0}
ASSUME RowsAssumption == MaxRows \in Nat

-----------------------------------------------------------------------------
(* The steps of a handler.                                                    *)

Check   == [do |-> "check"]     \* arguments refused with an error reply
Resolve == [do |-> "resolve"]   \* names to ids; a failure ends the call
Lookup  == [do |-> "lookup"]    \* data = execute(...)
Guard   == [do |-> "guard"]     \* fail_from_upstream(tool, data)
Note    == [do |-> "note"]      \* a lookup whose error is kept beside the result
Match   == [do |-> "match"]     \* match_named must leave one row
Sole    == [do |-> "sole"]      \* the list must have one row
\* One lookup per row up to the cap; flags: the reply says that rows were cut
EachRow(flags) == [do |-> "each", flags |-> flags]

(* The handlers, one plan per group of operations that take the same path.    *)

GetInventory == [inventory |-> <<Lookup, Guard>>]

\* Without interfaces, or without a site for them (then noted), the first plan
GetDeviceHealth ==
  LET Element == <<Resolve, Check, Lookup, Guard, Note, Note>>
  IN  [health |-> Element,
       health_interfaces |-> Element \o <<Check, Lookup, EachRow(TRUE)>>]

GetInterfaces ==
  [interface_config |-> <<Resolve, Check, Lookup>>,
   interfaces       |-> <<Resolve, Check, Lookup, EachRow(TRUE)>>,
   interface        |-> <<Resolve, Check, Lookup, Match, EachRow(TRUE)>>]

\* view='anynet'; the view and leg_offset are looked at after the topology came
GetTopology == [topology |-> <<Resolve, Check, Lookup, Guard, Check>>]

GetWan ==
  [wan_tenant |-> <<Lookup, Guard>>,
   wan_leg    |-> <<Check, Lookup, Guard>>,
   wan_site   |-> <<Resolve, Check, Lookup, Guard>>]

GetMonitoring ==
  [events       |-> <<Resolve, Check, Lookup, Guard>>,   \* also flows, probe_metrics
   link_metrics |-> <<Resolve, Check, Lookup, Lookup>>,
   aiops        |-> <<Resolve, Lookup, Guard>>]

\* A bug: the list operations answer without looking at the error
GetRoutingUnguarded ==
  [routing      |-> <<Resolve, Check, Lookup>>,
   bgp_status   |-> <<Resolve, Check, Lookup>>,
   bgp_prefixes_each |-> <<Resolve, Check, Lookup, EachRow(TRUE)>>,
   bgp_prefixes |-> <<Resolve, Check, Check, Lookup, Match, Check, Lookup, Guard>>,
   ospf         |-> <<Resolve, Check, Lookup, EachRow(FALSE)>>]

GetRouting ==
  [routing      |-> <<Resolve, Check, Lookup, Guard>>,
   bgp_status   |-> <<Resolve, Check, Lookup>>,
   bgp_prefixes_each |-> <<Resolve, Check, Lookup, EachRow(TRUE)>>,
   bgp_prefixes |-> <<Resolve, Check, Check, Lookup, Match, Check, Lookup, Guard>>,
   ospf         |-> <<Resolve, Check, Lookup, EachRow(FALSE)>>]

GetDeviceDiagnostics == [diagnostics |-> <<Resolve, Check, Lookup, Guard>>]

\* family='all' asks the five families in turn and notes the ones that failed
GetPolicies ==
  [policies_all |-> <<Check, Note, Note, Note, Note, Note>>,
   policy_sets  |-> <<Lookup, Guard>>,
   policy_rules |-> <<Check, Resolve, Check, Lookup, Guard>>]

GetSecurity ==
  [security          |-> <<Check, Lookup, Guard>>,
   applications      |-> <<Lookup>>,
   security_scoped   |-> <<Resolve, Check, Lookup, Guard>>]

\* _finish looks at the error for every operation of tools/domains.py
GetNetworkServices ==
  [services   |-> <<Resolve, Check, Lookup, Guard>>,
   ntp_status |-> <<Resolve, Check, Lookup, Sole, Lookup, Guard>>]

GetMulticast == [multicast |-> <<Resolve, Check, Lookup, Guard>>]
GetIpfix == [ipfix |-> <<Resolve, Check, Lookup, Guard>>]
GetServiceConnections == [connections |-> <<Resolve, Check, Lookup, Guard>>]
GetPrismaAccess == [prisma_access |-> <<Resolve, Check, Lookup, Guard>>]
GetIdentity == [identity |-> <<Check, Lookup, Guard>>]
\* These ask for the machine or the element before they resolve it
GetCellular == [cellular |-> <<Check, Resolve, Lookup, Guard>>]
GetSoftware == [software |-> <<Check, Resolve, Lookup, Guard>>]
GetPlatform == [platform |-> <<Check, Resolve, Lookup, Guard>>]

\* A failed list is an error of the resolver: one of five fails them all
Find == [find |-> <<Resolve>>]
FindResource == [find_policy |-> <<Resolve, Resolve, Resolve, Resolve, Resolve>>]
ReadCapability == [capability |-> <<Check, Lookup, Guard>>]
\* The error of the first list empties it, the second list is not looked at
ResolvePath == [resolve_path |-> <<Resolve, Check, Lookup, Lookup>>]

Handlers ==
  {GetInventory, GetDeviceHealth, GetInterfaces, GetTopology, GetWan, GetMonitoring,
   GetRouting, GetDeviceDiagnostics, GetPolicies, GetSecurity, GetNetworkServices,
   GetMulticast, GetIpfix, GetServiceConnections, GetPrismaAccess, GetIdentity,
   GetCellular, GetSoftware, GetPlatform, Find, FindResource, ReadCapability,
   ResolvePath}

\* The plan of every operation
Plans ==
  [o \in UNION {DOMAIN handler : handler \in Handlers} |->
     (CHOOSE handler \in Handlers : o \in DOMAIN handler)[o]]

ASSUME OperationsAssumption == Operations \subseteq DOMAIN Plans

-----------------------------------------------------------------------------
VARIABLES
  op,       \* the operation asked for
  cap,      \* the most rows this call looks up: the ceiling, or interface_limit
  at,       \* the next step of the plan
  data,     \* the last list: its rows, and whether the answer was an error
  row,      \* rows of the list already looked up
  failed,   \* lookups answered with an error: <<step, row>>, row 0 for a list
  told,     \* failed lookups the reply gives the error of
  flagged,  \* the reply says that it did not look up every row
  calls,    \* lookups made
  reply     \* "none" while the call runs

vars == <<op, cap, at, data, row, failed, told, flagged, calls, reply>>

Plan == Plans[op]
Doing(what) == reply = "none" /\ at <= Len(Plan) /\ Plan[at].do = what
\* A bug: the cap is not applied to the loop
NoCut == data.rows
Cut == IF data.rows <= cap THEN data.rows ELSE cap

NoList == [rows |-> 0, error |-> FALSE]
Replies == {"none", "ok", "refused", "unmatched", "error", "raised"}

Init ==
  /\ op \in Operations
  /\ cap \in IF op = "health_interfaces" THEN 1..MaxFanout ELSE {MaxFanout}
  /\ at = 1 /\ data = NoList /\ row = 0
  /\ failed = {} /\ told = {} /\ flagged = FALSE /\ calls = 0
  /\ reply = "none"

Passes == at' = at + 1 /\ UNCHANGED reply
ReplyWith(what) == reply' = what /\ UNCHANGED at
NoLookup == UNCHANGED <<failed, calls>>

\* An early return with invalid_argument, or the arguments are fine
CheckArguments ==
  /\ Doing("check")
  /\ Passes \/ ReplyWith("refused")
  /\ UNCHANGED <<op, cap, data, row, told, flagged>> /\ NoLookup

\* resolve, find or site_element, when the caller named something: the
\* ResolutionError of no match, of several, and of a list that failed (SiteElement
\* tells them apart) becomes not_found or ambiguous_match
ResolveNames ==
  /\ Doing("resolve")
  /\ Passes \/ ReplyWith("unmatched")
  /\ UNCHANGED <<op, cap, data, row, told, flagged>> /\ NoLookup

\* The answer replaces the list in hand; an error has no rows (records)
LookUp ==
  /\ Doing("lookup")
  /\ calls' = calls + 1
  /\ \/ \E n \in 0..MaxRows :
          data' = [rows |-> n, error |-> FALSE] /\ UNCHANGED failed
     \/ data' = [rows |-> 0, error |-> TRUE] /\ failed' = failed \cup {<<at, 0>>}
  /\ row' = 0 /\ Passes
  /\ UNCHANGED <<op, cap, told, flagged>>

\* fail_from_upstream replies with the error of the list in hand
GuardData ==
  /\ Doing("guard")
  /\ IF data.error
       THEN ReplyWith("error") /\ told' = told \cup {<<at - 1, 0>>}
       ELSE Passes /\ UNCHANGED told
  /\ UNCHANGED <<op, cap, data, row, flagged>> /\ NoLookup

\* partial_errors and family_errors: the error goes into the reply
NoteError ==
  /\ Doing("note")
  /\ calls' = calls + 1
  /\ \/ UNCHANGED <<failed, told>>
     \/ failed' = failed \cup {<<at, 0>>} /\ told' = told \cup {<<at, 0>>}
  /\ Passes
  /\ UNCHANGED <<op, cap, data, row, flagged>>

\* match_named leaves one of the rows, or the call ends with not_found or
\* ambiguous_match
MatchOne ==
  /\ Doing("match")
  /\ \/ data.rows > 0 /\ data' = [data EXCEPT !.rows = 1] /\ Passes
     \/ ReplyWith("unmatched") /\ UNCHANGED data
  /\ UNCHANGED <<op, cap, row, told, flagged>> /\ NoLookup

\* ntp_status without object_id: one configuration, or ambiguous_match
OnlyOne ==
  /\ Doing("sole")
  /\ IF data.rows = 1 THEN Passes ELSE ReplyWith("unmatched")
  /\ UNCHANGED <<op, cap, data, row, told, flagged>> /\ NoLookup

\* One row of the list: without an id it is passed over; an error stays in the
\* row of the reply
LookUpRow ==
  /\ Doing("each") /\ row < Cut
  /\ row' = row + 1
  /\ \/ UNCHANGED <<failed, told, calls>>
     \/ calls' = calls + 1 /\ UNCHANGED <<failed, told>>
     \/ /\ calls' = calls + 1
        /\ failed' = failed \cup {<<at, row + 1>>}
        /\ told' = told \cup {<<at, row + 1>>}
  /\ UNCHANGED <<op, cap, at, data, flagged, reply>>

\* A bug: the flag compares the rows looked up with the cap
RowsDoneChecked ==
  /\ Doing("each") /\ row = Cut
  /\ flagged' = (Plan[at].flags /\ row >= cap)
  /\ Passes
  /\ UNCHANGED <<op, cap, data, row, told>> /\ NoLookup

RowsDone ==
  /\ Doing("each") /\ row = Cut
  /\ flagged' = (Plan[at].flags /\ data.rows > cap)
  /\ Passes
  /\ UNCHANGED <<op, cap, data, row, told>> /\ NoLookup

\* execute raises: the login fails, or no candidate binds the SDK method.  The
\* handler's except clause replies, and what was looked up so far is lost
LookupRaises ==
  /\ \/ Doing("resolve") \/ Doing("lookup") \/ Doing("note")
     \/ Doing("each") /\ row < Cut
  /\ ReplyWith("error")
  /\ UNCHANGED <<op, cap, data, row, told, flagged>> /\ NoLookup

\* The code of the handler raises: a setting it looks at is no number, the ceiling
\* of a fan-out or the size of a page or a reply (_int_env)
HandlerRaises ==
  /\ reply = "none"
  /\ \/ Doing("check") /\ op = "health_interfaces" /\ calls > 0
     \/ Doing("each") /\ op # "health_interfaces" /\ row = 0
     \/ at = Len(Plan) + 1
  /\ ReplyWith("raised")
  /\ UNCHANGED <<op, cap, data, row, told, flagged>> /\ NoLookup

Answer ==
  /\ reply = "none" /\ at = Len(Plan) + 1
  /\ reply' = "ok"
  /\ UNCHANGED <<op, cap, at, data, row, told, flagged>> /\ NoLookup

Next ==
  \/ CheckArguments \/ ResolveNames \/ LookUp \/ GuardData \/ NoteError
  \/ MatchOne \/ OnlyOne \/ LookUpRow \/ RowsDone \/ LookupRaises \/ HandlerRaises
  \/ Answer

Spec == Init /\ [][Next]_vars

-----------------------------------------------------------------------------
(* Properties.                                                                *)

\* The variables keep their types, and only failed lookups are told of.
TypeOK ==
  /\ op \in Operations /\ cap \in 1..MaxFanout
  /\ at \in 1..(Len(Plan) + 1)
  /\ data \in [rows : 0..MaxRows, error : BOOLEAN] /\ (data.error => data.rows = 0)
  /\ row \in 0..cap
  /\ failed \subseteq (1..Len(Plan)) \X (0..MaxRows) /\ told \subseteq failed
  /\ flagged \in BOOLEAN /\ calls \in Nat /\ reply \in Replies

\* Operations that take the rows of an answer without looking for its error.
Unguarded ==
  {"health_interfaces", "interface_config", "interfaces", "interface",
   "link_metrics", "bgp_status", "bgp_prefixes_each", "bgp_prefixes", "ospf",
   "applications", "ntp_status", "resolve_path"}

\* A reply that is not an error tells of every lookup of the call that failed: its
\* handler held the answer against fail_from_upstream before the next replaced it,
\* or kept the error beside the result (partial_errors, family_errors).  In the
\* Unguarded operations the error of a list can be lost, the error of a row never.
ErrorsTold ==
  reply \in {"ok", "unmatched"}
    => \A f \in failed \ told : op \in Unguarded /\ f[2] = 0

\* The reply of a fan-out says that rows were cut exactly when rows were cut
\* (capped, fanout_capped, prefix_fanout_capped).  The OSPF operations have no
\* such flag.
CutsFlagged ==
  reply = "ok" /\ op # "ospf" /\ Plan[Len(Plan)].do = "each"
    => (flagged <=> row < data.rows)

\* A call makes no more lookups than its own single ones and one for each row up
\* to the fan-out ceiling, whatever the controller lists.
LookupsBounded ==
  LET Single == {k \in DOMAIN Plan : Plan[k].do \in {"lookup", "note"}}
  IN  calls <= Cardinality(Single) + MaxFanout

\* A reply that says there is nothing, or that nothing matches, was read from an
\* answer and not from an error.  Does not hold: the Unguarded operations read an
\* error as a list without rows.
EmptyIsAnswered ==
  reply \in {"ok", "unmatched"} /\ data.rows = 0 => ~data.error

\* A lookup that fails for one row leaves the rows looked up before it in the
\* reply.  Does not hold, and no run checks it: an answer that is an error stays
\* in its row, but an execute that raises (a login that fails half way) ends the
\* call and drops every row, and so does a setting found bad afterwards.
RowsSurvive ==
  row > 0 => reply \notin {"error", "raised"}

=============================================================================
