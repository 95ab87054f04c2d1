---------------------------- MODULE ToolCallProofs ----------------------------
(***************************************************************************)
(* What holds of a call of any read tool, whatever the fan-out ceiling and *)
(* however many rows a controller lists: which errors are told, that cuts  *)
(* are flagged, that the lookups are bounded, when a retry is advised, and *)
(* that the arguments of a call reach the SDK whole.                       *)
(* The handlers are data here: that their plans are well formed is proved  *)
(* of each of them, and the rest follows from that alone.                  *)
(***************************************************************************)
EXTENDS ToolCall, IndexLemmas, FiniteSetTheorems, TLAPS

-----------------------------------------------------------------------------
(* The plans *)

\* A guard looks at the lookup before it; every lookup of a guarded operation has
\* its guard; a fan-out comes last, and only that of ospf flags nothing.
WellFormed(o, p) ==
  /\ Len(p) \in Nat \ {0} /\ DOMAIN p = 1..Len(p)
  /\ \A k \in 1..Len(p) :
       /\ p[k].do = "guard" => k > 1 /\ p[k - 1].do = "lookup"
       /\ p[k].do = "lookup" /\ o \notin Unguarded => k < Len(p) /\ p[k + 1].do = "guard"
       /\ p[k].do = "each" => k = Len(p) /\ (o # "ospf" => p[k].flags)

AllWellFormed(f) == \A o \in DOMAIN f : WellFormed(o, f[o])

\* Handler by handler.
LEMMA HandlersWellFormed == \A handler \in Handlers : AllWellFormed(handler)
<1>1. AllWellFormed(GetInventory)
  BY
     DEF GetInventory, AllWellFormed, WellFormed, Unguarded, Check, Resolve, Lookup, Guard, Note, Match, Sole, EachRow
<1>2. AllWellFormed(GetDeviceHealth)
  <2>1. WellFormed("health", GetDeviceHealth.health)
    BY
       DEF GetDeviceHealth, WellFormed, Unguarded, Check, Resolve, Lookup, Guard, Note, Match, Sole, EachRow
  <2>2. WellFormed("health_interfaces", GetDeviceHealth.health_interfaces)
    BY
       DEF GetDeviceHealth, WellFormed, Unguarded, Check, Resolve, Lookup, Guard, Note, Match, Sole, EachRow
  <2>3. DOMAIN GetDeviceHealth = {"health", "health_interfaces"}
    BY DEF GetDeviceHealth
  <2> QED
    BY <2>1, <2>2, <2>3 DEF AllWellFormed
<1>3. AllWellFormed(GetInterfaces)
  <2>1. WellFormed("interface_config", GetInterfaces.interface_config)
    BY
       DEF GetInterfaces, WellFormed, Unguarded, Check, Resolve, Lookup, Guard, Note, Match, Sole, EachRow
  <2>2. WellFormed("interfaces", GetInterfaces.interfaces)
    BY
       DEF GetInterfaces, WellFormed, Unguarded, Check, Resolve, Lookup, Guard, Note, Match, Sole, EachRow
  <2>3. WellFormed("interface", GetInterfaces.interface)
    BY
       DEF GetInterfaces, WellFormed, Unguarded, Check, Resolve, Lookup, Guard, Note, Match, Sole, EachRow
  <2>4. DOMAIN GetInterfaces = {"interface_config", "interfaces", "interface"}
    BY DEF GetInterfaces
  <2> QED
    BY <2>1, <2>2, <2>3, <2>4 DEF AllWellFormed
<1>4. AllWellFormed(GetTopology)
  BY
     DEF GetTopology, AllWellFormed, WellFormed, Unguarded, Check, Resolve, Lookup, Guard, Note, Match, Sole, EachRow
<1>5. AllWellFormed(GetWan)
  <2>1. WellFormed("wan_tenant", GetWan.wan_tenant)
    BY
       DEF GetWan, WellFormed, Unguarded, Check, Resolve, Lookup, Guard, Note, Match, Sole, EachRow
  <2>2. WellFormed("wan_leg", GetWan.wan_leg)
    BY
       DEF GetWan, WellFormed, Unguarded, Check, Resolve, Lookup, Guard, Note, Match, Sole, EachRow
  <2>3. WellFormed("wan_site", GetWan.wan_site)
    BY
       DEF GetWan, WellFormed, Unguarded, Check, Resolve, Lookup, Guard, Note, Match, Sole, EachRow
  <2>4. DOMAIN GetWan = {"wan_tenant", "wan_leg", "wan_site"}
    BY DEF GetWan
  <2> QED
    BY <2>1, <2>2, <2>3, <2>4 DEF AllWellFormed
<1>6. AllWellFormed(GetMonitoring)
  <2>1. WellFormed("events", GetMonitoring.events)
    BY
       DEF GetMonitoring, WellFormed, Unguarded, Check, Resolve, Lookup, Guard, Note, Match, Sole, EachRow
  <2>2. WellFormed("link_metrics", GetMonitoring.link_metrics)
    BY
       DEF GetMonitoring, WellFormed, Unguarded, Check, Resolve, Lookup, Guard, Note, Match, Sole, EachRow
  <2>3. WellFormed("aiops", GetMonitoring.aiops)
    BY
       DEF GetMonitoring, WellFormed, Unguarded, Check, Resolve, Lookup, Guard, Note, Match, Sole, EachRow
  <2>4. DOMAIN GetMonitoring = {"events", "link_metrics", "aiops"}
    BY DEF GetMonitoring
  <2> QED
    BY <2>1, <2>2, <2>3, <2>4 DEF AllWellFormed
<1>7. AllWellFormed(GetRouting)
  <2>1. WellFormed("routing", GetRouting.routing)
    BY
       DEF GetRouting, WellFormed, Unguarded, Check, Resolve, Lookup, Guard, Note, Match, Sole, EachRow
  <2>2. WellFormed("bgp_status", GetRouting.bgp_status)
    BY
       DEF GetRouting, WellFormed, Unguarded, Check, Resolve, Lookup, Guard, Note, Match, Sole, EachRow
  <2>3. WellFormed("bgp_prefixes_each", GetRouting.bgp_prefixes_each)
    BY
       DEF GetRouting, WellFormed, Unguarded, Check, Resolve, Lookup, Guard, Note, Match, Sole, EachRow
  <2>4. WellFormed("bgp_prefixes", GetRouting.bgp_prefixes)
    BY
       DEF GetRouting, WellFormed, Unguarded, Check, Resolve, Lookup, Guard, Note, Match, Sole, EachRow
  <2>5. WellFormed("ospf", GetRouting.ospf)
    BY
       DEF GetRouting, WellFormed, Unguarded, Check, Resolve, Lookup, Guard, Note, Match, Sole, EachRow
  <2>6. DOMAIN GetRouting = {"routing", "bgp_status", "bgp_prefixes_each", "bgp_prefixes", "ospf"}
    BY DEF GetRouting
  <2> QED
    BY <2>1, <2>2, <2>3, <2>4, <2>5, <2>6 DEF AllWellFormed
<1>8. AllWellFormed(GetDeviceDiagnostics)
  BY
     DEF GetDeviceDiagnostics, AllWellFormed, WellFormed, Unguarded, Check, Resolve, Lookup, Guard, Note, Match, Sole, EachRow
<1>9. AllWellFormed(GetPolicies)
  <2>1. WellFormed("policies_all", GetPolicies.policies_all)
    BY
       DEF GetPolicies, WellFormed, Unguarded, Check, Resolve, Lookup, Guard, Note, Match, Sole, EachRow
  <2>2. WellFormed("policy_sets", GetPolicies.policy_sets)
    BY
       DEF GetPolicies, WellFormed, Unguarded, Check, Resolve, Lookup, Guard, Note, Match, Sole, EachRow
  <2>3. WellFormed("policy_rules", GetPolicies.policy_rules)
    BY
       DEF GetPolicies, WellFormed, Unguarded, Check, Resolve, Lookup, Guard, Note, Match, Sole, EachRow
  <2>4. DOMAIN GetPolicies = {"policies_all", "policy_sets", "policy_rules"}
    BY DEF GetPolicies
  <2> QED
    BY <2>1, <2>2, <2>3, <2>4 DEF AllWellFormed
<1>10. AllWellFormed(GetSecurity)
  <2>1. WellFormed("security", GetSecurity.security)
    BY
       DEF GetSecurity, WellFormed, Unguarded, Check, Resolve, Lookup, Guard, Note, Match, Sole, EachRow
  <2>2. WellFormed("applications", GetSecurity.applications)
    BY
       DEF GetSecurity, WellFormed, Unguarded, Check, Resolve, Lookup, Guard, Note, Match, Sole, EachRow
  <2>3. WellFormed("security_scoped", GetSecurity.security_scoped)
    BY
       DEF GetSecurity, WellFormed, Unguarded, Check, Resolve, Lookup, Guard, Note, Match, Sole, EachRow
  <2>4. DOMAIN GetSecurity = {"security", "applications", "security_scoped"}
    BY DEF GetSecurity
  <2> QED
    BY <2>1, <2>2, <2>3, <2>4 DEF AllWellFormed
<1>11. AllWellFormed(GetNetworkServices)
  <2>1. WellFormed("services", GetNetworkServices.services)
    BY
       DEF GetNetworkServices, WellFormed, Unguarded, Check, Resolve, Lookup, Guard, Note, Match, Sole, EachRow
  <2>2. WellFormed("ntp_status", GetNetworkServices.ntp_status)
    BY
       DEF GetNetworkServices, WellFormed, Unguarded, Check, Resolve, Lookup, Guard, Note, Match, Sole, EachRow
  <2>3. DOMAIN GetNetworkServices = {"services", "ntp_status"}
    BY DEF GetNetworkServices
  <2> QED
    BY <2>1, <2>2, <2>3 DEF AllWellFormed
<1>12. AllWellFormed(GetMulticast)
  BY SMTT(30)
     DEF GetMulticast, AllWellFormed, WellFormed, Unguarded, Check, Resolve, Lookup, Guard, Note, Match, Sole, EachRow
<1>13. AllWellFormed(GetIpfix)
  BY SMTT(30)
     DEF GetIpfix, AllWellFormed, WellFormed, Unguarded, Check, Resolve, Lookup, Guard, Note, Match, Sole, EachRow
<1>14. AllWellFormed(GetServiceConnections)
  BY SMTT(30)
     DEF GetServiceConnections, AllWellFormed, WellFormed, Unguarded, Check, Resolve, Lookup, Guard, Note, Match, Sole, EachRow
<1>15. AllWellFormed(GetPrismaAccess)
  BY SMTT(30)
     DEF GetPrismaAccess, AllWellFormed, WellFormed, Unguarded, Check, Resolve, Lookup, Guard, Note, Match, Sole, EachRow
<1>16. AllWellFormed(GetIdentity)
  BY SMTT(30)
     DEF GetIdentity, AllWellFormed, WellFormed, Unguarded, Check, Resolve, Lookup, Guard, Note, Match, Sole, EachRow
<1>17. AllWellFormed(GetCellular)
  BY SMTT(30)
     DEF GetCellular, AllWellFormed, WellFormed, Unguarded, Check, Resolve, Lookup, Guard, Note, Match, Sole, EachRow
<1>18. AllWellFormed(GetSoftware)
  BY SMTT(30)
     DEF GetSoftware, AllWellFormed, WellFormed, Unguarded, Check, Resolve, Lookup, Guard, Note, Match, Sole, EachRow
<1>19. AllWellFormed(GetPlatform)
  BY SMTT(30)
     DEF GetPlatform, AllWellFormed, WellFormed, Unguarded, Check, Resolve, Lookup, Guard, Note, Match, Sole, EachRow
<1>20. AllWellFormed(Find)
  BY SMTT(30)
     DEF Find, AllWellFormed, WellFormed, Unguarded, Check, Resolve, Lookup, Guard, Note, Match, Sole, EachRow
<1>21. AllWellFormed(FindResource)
  BY SMTT(30)
     DEF FindResource, AllWellFormed, WellFormed, Unguarded, Check, Resolve, Lookup, Guard, Note, Match, Sole, EachRow
<1>22. AllWellFormed(ReadCapability)
  BY SMTT(30)
     DEF ReadCapability, AllWellFormed, WellFormed, Unguarded, Check, Resolve, Lookup, Guard, Note, Match, Sole, EachRow
<1>23. AllWellFormed(ResolvePath)
  BY
     DEF ResolvePath, AllWellFormed, WellFormed, Unguarded, Check, Resolve, Lookup, Guard, Note, Match, Sole, EachRow
<1> QED
  BY <1>1, <1>2, <1>3, <1>4, <1>5, <1>6, <1>7, <1>8, <1>9, <1>10, <1>11, <1>12, <1>13, <1>14, <1>15, <1>16, <1>17, <1>18, <1>19, <1>20, <1>21, <1>22, <1>23
     DEF Handlers

\* Every plan is its handler's, so every operation has a well-formed plan.
LEMMA PlansWellFormed == \A o \in Operations : WellFormed(o, Plans[o])
<1> SUFFICES ASSUME NEW o \in Operations
             PROVE  WellFormed(o, Plans[o])
  OBVIOUS
<1>1. o \in UNION {DOMAIN handler : handler \in Handlers}
  BY OperationsAssumption DEF Plans
<1>2. PICK handler \in Handlers : o \in DOMAIN handler
  BY <1>1
<1> DEFINE chosen == CHOOSE h \in Handlers : o \in DOMAIN h
<1>3. chosen \in Handlers /\ o \in DOMAIN chosen
  BY <1>2
<1>4. Plans[o] = chosen[o]
  BY <1>1 DEF Plans
<1> HIDE DEF chosen
<1> QED
  BY <1>3, <1>4, HandlersWellFormed DEF AllWellFormed

-----------------------------------------------------------------------------
(* Steps in hand *)

\* What a step in hand says of its plan.
LEMMA StepInHand ==
  ASSUME op \in Operations, at \in 1..(Len(Plan) + 1), NEW what, Doing(what)
  PROVE  /\ Len(Plan) \in Nat \ {0} /\ DOMAIN Plan = 1..Len(Plan) /\ at \in 1..Len(Plan)
         /\ Plan[at].do = what /\ reply = "none"
<1> QED
  BY PlansWellFormed DEF Plan, Doing, WellFormed

-----------------------------------------------------------------------------
(* Types *)

\* A cut exceeds neither the cap nor the list.
LEMMA CutBounds ==
  ASSUME cap \in Nat, data.rows \in Nat
  PROVE  Cut \in Nat /\ Cut <= cap /\ Cut <= data.rows
BY DEF Cut

\* The error in the hand of a guard is that of the lookup before it, and it is
\* among the failed ones.
ErrorInHand ==
  at \in DOMAIN Plan /\ Plan[at].do = "guard" /\ data.error => <<at - 1, 0>> \in failed

\* A step that is not a lookup is not followed by a guard.
LEMMA NoGuardNext ==
  ASSUME op \in Operations, at \in 1..(Len(Plan) + 1), NEW what, Doing(what),
         what # "lookup", at + 1 \in DOMAIN Plan
  PROVE  Plan[at + 1].do # "guard"
<1>1. /\ Len(Plan) \in Nat \ {0} /\ DOMAIN Plan = 1..Len(Plan) /\ at \in 1..Len(Plan)
      /\ Plan[at].do = what
  BY StepInHand
<1>2. (at + 1) - 1 = at
  BY <1>1
<1> QED
  BY <1>1, <1>2, PlansWellFormed DEF Plan, WellFormed

TypedErrors == TypeOK /\ ErrorInHand

\* The types with ErrorInHand, without which told could leave failed.
LEMMA TypeInductive == TypedErrors /\ [Next]_vars => TypedErrors'
<1> SUFFICES ASSUME TypeOK, ErrorInHand, [Next]_vars
             PROVE  TypeOK' /\ ErrorInHand'
  BY DEF TypedErrors
<1> USE FanoutAssumption, RowsAssumption
<1>0. /\ op \in Operations /\ cap \in Nat /\ cap \in 1..MaxFanout /\ at \in 1..(Len(Plan) + 1)
      /\ data \in [rows : 0..MaxRows, error : BOOLEAN] /\ (data.error => data.rows = 0)
      /\ row \in Nat /\ row \in 0..cap
      /\ failed \subseteq (1..Len(Plan)) \X (0..MaxRows) /\ told \subseteq failed
      /\ flagged \in BOOLEAN /\ calls \in Nat /\ reply \in Replies
  BY DEF TypeOK
<1>p. Len(Plan) \in Nat /\ DOMAIN Plan = 1..Len(Plan)
  BY <1>0, PlansWellFormed DEF Plan, WellFormed
<1>c. Cut \in Nat /\ Cut <= cap /\ Cut <= data.rows
  BY <1>0, CutBounds
<1>a. \A what : Doing(what) => /\ at \in 1..Len(Plan) /\ at + 1 \in 1..(Len(Plan) + 1)
                               /\ Plan[at].do = what
  BY <1>0, <1>p DEF Doing
<1>n. \A what : Doing(what) /\ what # "lookup" /\ at + 1 \in DOMAIN Plan
                  => Plan[at + 1].do # "guard"
  BY <1>0, NoGuardNext
<1>1. CASE CheckArguments
  BY <1>0, <1>1, <1>a, <1>n, <1>p
     DEF CheckArguments, Passes, ReplyWith, NoLookup, TypeOK, ErrorInHand, Plan, Replies
<1>2. CASE ResolveNames
  BY <1>0, <1>2, <1>a, <1>n, <1>p
     DEF ResolveNames, Passes, ReplyWith, NoLookup, TypeOK, ErrorInHand, Plan, Replies
<1>3. CASE LookUp
  <2>1. /\ op' = op /\ cap' = cap /\ told' = told /\ flagged' = flagged
        /\ row' = 0 /\ at' = at + 1 /\ calls' = calls + 1 /\ reply' = reply
        /\ at \in 1..Len(Plan) /\ Plan' = Plan
    BY <1>3, <1>a DEF LookUp, Passes, Plan
  <2>2. CASE \E n \in 0..MaxRows :
               data' = [rows |-> n, error |-> FALSE] /\ UNCHANGED failed
    BY <1>0, <1>p, <2>1, <2>2 DEF TypeOK, ErrorInHand
  <2>3. CASE data' = [rows |-> 0, error |-> TRUE] /\ failed' = failed \cup {<<at, 0>>}
    <3>1. at' - 1 = at
      BY <2>1
    <3> QED
      BY <1>0, <1>p, <2>1, <2>3, <3>1 DEF TypeOK, ErrorInHand
  <2> QED
    BY <1>3, <2>2, <2>3 DEF LookUp
<1>4. CASE GuardData
  <2>1. /\ op' = op /\ cap' = cap /\ data' = data /\ row' = row /\ flagged' = flagged
        /\ failed' = failed /\ calls' = calls
        /\ at \in 1..Len(Plan) /\ Plan[at].do = "guard" /\ Plan' = Plan
    BY <1>4, <1>a DEF GuardData, NoLookup, Plan
  <2>2. CASE data.error
    <3>1. reply' = "error" /\ at' = at /\ told' = told \cup {<<at - 1, 0>>}
      BY <1>4, <2>2 DEF GuardData, ReplyWith
    <3>2. <<at - 1, 0>> \in failed
      BY <1>p, <2>1, <2>2 DEF ErrorInHand
    <3> QED
      BY <1>0, <1>p, <2>1, <3>1, <3>2 DEF TypeOK, ErrorInHand, Replies
  <2>3. CASE ~data.error
    BY <1>0, <1>4, <1>a, <1>p, <2>1, <2>3 DEF GuardData, Passes, TypeOK, ErrorInHand
  <2> QED
    BY <2>2, <2>3
<1>5. CASE NoteError
  BY SMTT(30), <1>0, <1>5, <1>a, <1>n, <1>p DEF NoteError, Passes, TypeOK, ErrorInHand, Plan
<1>6. CASE MatchOne
  <2>1. /\ op' = op /\ cap' = cap /\ row' = row /\ told' = told /\ flagged' = flagged
        /\ failed' = failed /\ calls' = calls
        /\ at \in 1..Len(Plan) /\ Plan[at].do = "match" /\ Plan' = Plan
    BY <1>6, <1>a DEF MatchOne, NoLookup, Plan
  <2>2. CASE data.rows > 0 /\ data' = [data EXCEPT !.rows = 1] /\ Passes
    <3>1. data' \in [rows : 0..MaxRows, error : BOOLEAN] /\ data'.error = data.error
      BY <1>0, <2>2
    <3>2. ~data.error
      BY <1>0, <2>2
    <3> QED
      BY <1>0, <1>p, <2>1, <2>2, <3>1, <3>2 DEF Passes, TypeOK, ErrorInHand
  <2>3. CASE ReplyWith("unmatched") /\ UNCHANGED data
    BY <1>0, <1>p, <2>1, <2>3 DEF ReplyWith, TypeOK, ErrorInHand, Replies
  <2> QED
    BY <1>6, <2>2, <2>3 DEF MatchOne
<1>7. CASE OnlyOne
  BY <1>0, <1>7, <1>a, <1>n, <1>p
     DEF OnlyOne, Passes, ReplyWith, NoLookup, TypeOK, ErrorInHand, Plan, Replies
<1>8. CASE LookUpRow
  BY SMTT(30), <1>0, <1>8, <1>a, <1>c, <1>p DEF LookUpRow, TypeOK, ErrorInHand, Plan
<1>9. CASE RowsDone
  BY <1>0, <1>9, <1>a, <1>n, <1>p
     DEF RowsDone, Passes, NoLookup, TypeOK, ErrorInHand, Plan
<1>10. CASE LookupRaises
  BY <1>0, <1>10, <1>p
     DEF LookupRaises, ReplyWith, NoLookup, TypeOK, ErrorInHand, Plan, Replies
<1>11. CASE HandlerRaises
  BY <1>0, <1>11, <1>p
     DEF HandlerRaises, ReplyWith, NoLookup, TypeOK, ErrorInHand, Plan, Replies
<1>12. CASE Answer
  BY <1>0, <1>12, <1>p DEF Answer, NoLookup, TypeOK, ErrorInHand, Plan, Replies
<1>13. CASE UNCHANGED vars
  BY <1>0, <1>13 DEF vars, TypeOK, ErrorInHand, Plan
<1> QED
  BY <1>1, <1>2, <1>3, <1>4, <1>5, <1>6, <1>7, <1>8, <1>9, <1>10, <1>11, <1>12, <1>13
     DEF Next

\* The variables keep their types, and only failed lookups are told of.
THEOREM TypeCorrect == Spec => []TypeOK
<1>1. Init => TypedErrors
  <2> SUFFICES ASSUME Init PROVE TypedErrors
    OBVIOUS
  <2>1. op \in Operations /\ Len(Plan) \in Nat \ {0} /\ DOMAIN Plan = 1..Len(Plan)
    BY PlansWellFormed DEF Init, Plan, WellFormed
  <2>2. cap \in 1..MaxFanout
    BY FanoutAssumption DEF Init
  <2>3. /\ at = 1 /\ data = [rows |-> 0, error |-> FALSE] /\ row = 0 /\ failed = {} /\ told = {}
        /\ flagged = FALSE /\ calls = 0 /\ reply = "none"
    BY DEF Init, NoList
  <2>4. TypeOK
    <3>1. at \in 1..(Len(Plan) + 1) /\ row \in 0..cap /\ calls \in Nat
      BY <2>1, <2>2, <2>3, FanoutAssumption
    <3>2. data \in [rows : 0..MaxRows, error : BOOLEAN] /\ ~data.error
      BY <2>3, RowsAssumption
    <3>3. failed \subseteq (1..Len(Plan)) \X (0..MaxRows) /\ told \subseteq failed
      BY <2>3
    <3> QED
      BY <2>1, <2>2, <2>3, <3>1, <3>2, <3>3 DEF TypeOK, Replies
  <2>5. ErrorInHand
    BY <2>3 DEF ErrorInHand
  <2> QED
    BY <2>4, <2>5 DEF TypedErrors
<1>2. TypedErrors => TypeOK
  BY DEF TypedErrors
<1> QED
  BY <1>1, <1>2, TypeInductive, PTL DEF Spec

-----------------------------------------------------------------------------
(* Errors *)

\* Failed lookups the reply does not tell of yet: of a guarded operation at most
\* the one whose answer the next step, a guard, looks at.
UntoldInHand ==
  /\ \A f \in failed \ told : f[2] = 0
  /\ op \notin Unguarded =>
       \A f \in failed \ told :
         f = <<at - 1, 0>> /\ at \in DOMAIN Plan /\ Plan[at].do = "guard" /\ data.error

\* Where a call that has its reply stopped.
StoppedAt ==
  /\ reply = "ok" => at = Len(Plan) + 1
  /\ reply = "unmatched" => at \in DOMAIN Plan /\ Plan[at].do \in {"resolve", "match", "sole"}

ErrorsInv == UntoldInHand /\ StoppedAt

\* A step that is neither a guard nor a lookup finds nothing untold, and leaves
\* nothing untold.
LEMMA NothingUntold ==
  ASSUME TypeOK, UntoldInHand, op \notin Unguarded, NEW what, Doing(what), what # "guard"
  PROVE  failed \ told = {}
<1>1. Plan[at].do = what
  BY StepInHand DEF TypeOK
<1> QED
  BY <1>1 DEF UntoldInHand

LEMMA ErrorsInductive == TypeOK /\ ErrorsInv /\ [Next]_vars => ErrorsInv'
<1> SUFFICES ASSUME TypeOK, UntoldInHand, StoppedAt, [Next]_vars
             PROVE  UntoldInHand' /\ StoppedAt'
  BY DEF ErrorsInv
<1>0. op \in Operations /\ at \in 1..(Len(Plan) + 1) /\ told \subseteq failed
  BY DEF TypeOK
<1>p. Len(Plan) \in Nat /\ DOMAIN Plan = 1..Len(Plan)
  BY <1>0, PlansWellFormed DEF Plan, WellFormed
<1>a. \A what : Doing(what) => /\ at \in 1..Len(Plan) /\ at \in DOMAIN Plan
                               /\ Plan[at].do = what /\ reply = "none"
  BY <1>0, StepInHand, <1>p
<1>n. \A what : Doing(what) /\ what # "guard" /\ op \notin Unguarded => failed \ told = {}
  BY NothingUntold
<1>u. ASSUME op' = op, reply = "none",
             reply' \in {"none", "refused", "error", "unmatched"},
             reply' = "unmatched" =>
               at' = at /\ at \in DOMAIN Plan /\ Plan[at].do \in {"resolve", "match", "sole"},
             NEW added \in SUBSET (Nat \X Nat), failed' = failed \cup added,
             told' = told \cup added, op \notin Unguarded => failed \ told = {}
      PROVE  UntoldInHand' /\ StoppedAt'
  <2>1. failed' \ told' \subseteq failed \ told
    BY <1>u
  <2>2. Plan' = Plan
    BY <1>u DEF Plan
  <2>3. UntoldInHand'
    BY <1>u, <2>1 DEF UntoldInHand
  <2>4. StoppedAt'
    BY <1>u, <2>2 DEF StoppedAt
  <2> QED
    BY <2>3, <2>4
<1>v. ASSUME op' = op, reply = "none",
             reply' \in {"none", "refused", "error", "unmatched"},
             reply' = "unmatched" =>
               at' = at /\ at \in DOMAIN Plan /\ Plan[at].do \in {"resolve", "match", "sole"},
             failed' = failed, told' = told, op \notin Unguarded => failed \ told = {}
      PROVE  UntoldInHand' /\ StoppedAt'
  <2>1. {} \in SUBSET (Nat \X Nat) /\ failed' = failed \cup {} /\ told' = told \cup {}
    BY <1>v
  <2> QED
    BY <1>u, <1>v, <2>1
<1>1. CASE CheckArguments
  BY <1>1, <1>a, <1>n, <1>v DEF CheckArguments, Passes, ReplyWith, NoLookup
<1>2. CASE ResolveNames
  BY <1>2, <1>a, <1>n, <1>v DEF ResolveNames, Passes, ReplyWith, NoLookup
<1>3. CASE LookUp
  <2>1. /\ op' = op /\ told' = told /\ at' = at + 1 /\ reply' = reply /\ reply = "none"
        /\ at \in 1..Len(Plan) /\ Plan[at].do = "lookup" /\ Plan' = Plan /\ at' - 1 = at
        /\ (op \notin Unguarded => failed \ told = {})
    BY <1>3, <1>a, <1>n DEF LookUp, Passes, Plan
  <2>2. CASE failed' = failed
    BY <1>v, <2>1, <2>2
  <2>3. CASE data' = [rows |-> 0, error |-> TRUE] /\ failed' = failed \cup {<<at, 0>>}
    <3>1. op \notin Unguarded => at + 1 \in DOMAIN Plan /\ Plan[at + 1].do = "guard"
      BY <1>0, <1>p, <2>1, PlansWellFormed DEF Plan, WellFormed
    <3>2. \A f \in failed' \ told' : f \in failed \ told \/ f = <<at, 0>>
      BY <2>1, <2>3
    <3>3. UntoldInHand'
      BY <2>1, <2>3, <3>1, <3>2 DEF UntoldInHand
    <3>4. StoppedAt'
      BY <2>1 DEF StoppedAt
    <3> QED
      BY <3>3, <3>4
  <2> QED
    BY <1>3, <2>2, <2>3 DEF LookUp
<1>4. CASE GuardData
  <2>1. /\ op' = op /\ data' = data /\ failed' = failed /\ reply = "none"
        /\ at \in DOMAIN Plan /\ Plan[at].do = "guard" /\ Plan' = Plan
    BY <1>4, <1>a DEF GuardData, NoLookup, Plan
  <2>2. CASE data.error
    <3>1. reply' = "error" /\ told' = told \cup {<<at - 1, 0>>}
      BY <1>4, <2>2 DEF GuardData, ReplyWith
    <3>2. \A f \in failed' \ told' : f \in failed \ told /\ f # <<at - 1, 0>>
      BY <2>1, <3>1
    <3>3. UntoldInHand'
      BY <2>1, <3>2 DEF UntoldInHand
    <3> QED
      BY <3>1, <3>3 DEF StoppedAt
  <2>3. CASE ~data.error
    <3>1. told' = told /\ reply' = "none"
      BY <1>4, <2>1, <2>3 DEF GuardData, Passes
    <3>2. op \notin Unguarded => failed \ told = {}
      BY <2>3 DEF UntoldInHand
    <3> QED
      BY <1>v, <2>1, <3>1, <3>2
  <2> QED
    BY <2>2, <2>3
<1>5. CASE NoteError
  <2>1. /\ op' = op /\ reply = "none" /\ reply' = "none" /\ at \in 1..Len(Plan)
        /\ (op \notin Unguarded => failed \ told = {})
    BY <1>5, <1>a, <1>n DEF NoteError, Passes
  <2>2. CASE UNCHANGED <<failed, told>>
    BY <1>v, <2>1, <2>2
  <2>3. CASE failed' = failed \cup {<<at, 0>>} /\ told' = told \cup {<<at, 0>>}
    <3>1. {<<at, 0>>} \in SUBSET (Nat \X Nat)
      BY <2>1, <1>p
    <3> QED
      BY <1>u, <2>1, <2>3, <3>1
  <2> QED
    BY <1>5, <2>2, <2>3 DEF NoteError
<1>6. CASE MatchOne
  BY <1>6, <1>a, <1>n, <1>v DEF MatchOne, Passes, ReplyWith, NoLookup
<1>7. CASE OnlyOne
  BY <1>7, <1>a, <1>n, <1>v DEF OnlyOne, Passes, ReplyWith, NoLookup
<1>8. CASE LookUpRow
  <2>1. /\ op' = op /\ reply = "none" /\ reply' = "none" /\ at \in 1..Len(Plan) /\ row \in Nat
        /\ (op \notin Unguarded => failed \ told = {})
    BY <1>8, <1>a, <1>n, FanoutAssumption DEF LookUpRow, TypeOK
  <2>2. CASE UNCHANGED <<failed, told>>
    BY <1>v, <2>1, <2>2
  <2>3. CASE failed' = failed \cup {<<at, row + 1>>} /\ told' = told \cup {<<at, row + 1>>}
    <3>1. {<<at, row + 1>>} \in SUBSET (Nat \X Nat)
      BY <2>1, <1>p
    <3> QED
      BY <1>u, <2>1, <2>3, <3>1
  <2> QED
    BY <1>8, <2>2, <2>3 DEF LookUpRow
<1>9. CASE RowsDone
  BY <1>9, <1>a, <1>n, <1>v DEF RowsDone, Passes, NoLookup
<1>10. CASE LookupRaises
  BY <1>10, <1>a, <1>n, <1>v DEF LookupRaises, ReplyWith, NoLookup
<1>11. CASE HandlerRaises
  BY <1>11, <1>a, <1>n, <1>p, <1>v
     DEF HandlerRaises, ReplyWith, NoLookup, UntoldInHand, StoppedAt, Plan
<1>12. CASE Answer
  <2>1. at \notin DOMAIN Plan
    BY <1>12, <1>p DEF Answer
  <2> QED
    BY <1>12, <2>1 DEF Answer, NoLookup, UntoldInHand, StoppedAt, Plan
<1>13. CASE UNCHANGED vars
  BY <1>13 DEF vars, UntoldInHand, StoppedAt, Plan
<1> QED
  BY <1>1, <1>2, <1>3, <1>4, <1>5, <1>6, <1>7, <1>8, <1>9, <1>10, <1>11, <1>12, <1>13
     DEF Next

\* A reply that is not an error tells of every lookup of the call that failed,
\* but for the lists of the Unguarded operations.
THEOREM ErrorsAreTold == Spec => []ErrorsTold
<1>1. Init => ErrorsInv
  BY DEF Init, ErrorsInv, UntoldInHand, StoppedAt
<1>2. TypeOK /\ ErrorsInv => ErrorsTold
  <2> SUFFICES ASSUME TypeOK, UntoldInHand, StoppedAt, reply \in {"ok", "unmatched"},
                      NEW f \in failed \ told
               PROVE  op \in Unguarded /\ f[2] = 0
    BY DEF ErrorsInv, ErrorsTold
  <2>1. DOMAIN Plan = 1..Len(Plan) /\ Len(Plan) \in Nat
    BY PlansWellFormed DEF TypeOK, Plan, WellFormed
  <2>2. at \in DOMAIN Plan => Plan[at].do # "guard"
    BY <2>1 DEF StoppedAt
  <2> QED
    BY <2>2 DEF UntoldInHand
<1> QED
  BY <1>1, <1>2, ErrorsInductive, TypeCorrect, PTL DEF Spec

-----------------------------------------------------------------------------
(* Cuts and lookups *)

LastStep == Plan[Len(Plan)]

\* Rows are counted by the fan-out alone, and once it is done it has cut where
\* the ceiling says and its flag is right.
RowsOfFanout ==
  /\ at \in DOMAIN Plan /\ Plan[at].do # "each" => row = 0
  /\ at = Len(Plan) + 1 /\ LastStep.do = "each" =>
       row = Cut /\ (flagged <=> LastStep.flags /\ data.rows > cap)
  /\ reply = "ok" => at = Len(Plan) + 1

LEMMA RowsInductive == TypeOK /\ RowsOfFanout /\ [Next]_vars => RowsOfFanout'
<1> SUFFICES ASSUME TypeOK, RowsOfFanout, [Next]_vars
             PROVE  RowsOfFanout'
  OBVIOUS
<1>0. op \in Operations /\ at \in 1..(Len(Plan) + 1)
  BY DEF TypeOK
<1>p. Len(Plan) \in Nat /\ DOMAIN Plan = 1..Len(Plan)
  BY <1>0, PlansWellFormed DEF Plan, WellFormed
<1>a. \A what : Doing(what) => /\ at \in 1..Len(Plan) /\ at \in DOMAIN Plan
                               /\ Plan[at].do = what /\ reply = "none"
  BY <1>0, StepInHand, <1>p
<1>u. ASSUME op' = op, row' = 0, reply' # "ok", NEW what, what # "each", Doing(what),
             at' \in {at, at + 1}
      PROVE  RowsOfFanout'
  <2>1. at \in 1..Len(Plan) /\ Plan[at].do # "each" /\ Plan' = Plan
    BY <1>a, <1>u DEF Plan
  <2>2. ~(at' = Len(Plan) + 1 /\ LastStep.do = "each")
    BY <1>p, <1>u, <2>1 DEF LastStep
  <2> QED
    BY <1>u, <2>1, <2>2 DEF RowsOfFanout, LastStep
<1>r. \A what : Doing(what) /\ what # "each" => row = 0
  BY <1>a DEF RowsOfFanout
<1>1. CASE CheckArguments
  BY <1>1, <1>a, <1>r, <1>u DEF CheckArguments, Passes, ReplyWith
<1>2. CASE ResolveNames
  BY <1>2, <1>a, <1>r, <1>u DEF ResolveNames, Passes, ReplyWith
<1>3. CASE LookUp
  BY <1>3, <1>a, <1>u DEF LookUp, Passes
<1>4. CASE GuardData
  BY <1>4, <1>a, <1>r, <1>u DEF GuardData, Passes, ReplyWith
<1>5. CASE NoteError
  BY <1>5, <1>a, <1>r, <1>u DEF NoteError, Passes
<1>6. CASE MatchOne
  BY <1>6, <1>a, <1>r, <1>u DEF MatchOne, Passes, ReplyWith
<1>7. CASE OnlyOne
  BY <1>7, <1>a, <1>r, <1>u DEF OnlyOne, Passes, ReplyWith
<1>8. CASE LookUpRow
  BY <1>8, <1>a, <1>p DEF LookUpRow, RowsOfFanout, LastStep, Plan
<1>9. CASE RowsDone
  <2>1. at = Len(Plan)
    BY <1>0, <1>9, <1>a, <1>p, PlansWellFormed DEF RowsDone, Plan, WellFormed
  <2>2. /\ op' = op /\ cap' = cap /\ data' = data /\ row' = row /\ row = Cut
        /\ at' = Len(Plan) + 1 /\ (flagged' <=> LastStep.flags /\ data.rows > cap)
    BY <1>9, <2>1 DEF RowsDone, Passes, LastStep
  <2> QED
    BY <1>p, <2>2 DEF RowsOfFanout, LastStep, Plan, Cut
<1>10. CASE LookupRaises
  BY <1>10, <1>a, <1>p DEF LookupRaises, ReplyWith, NoLookup, RowsOfFanout, LastStep, Plan
<1>11. CASE HandlerRaises
  BY <1>11, <1>a, <1>p DEF HandlerRaises, ReplyWith, NoLookup, RowsOfFanout, LastStep, Plan, Cut
<1>12. CASE Answer
  BY <1>12, <1>p DEF Answer, NoLookup, RowsOfFanout, LastStep, Plan, Cut
<1>13. CASE UNCHANGED vars
  BY <1>13 DEF vars, RowsOfFanout, LastStep, Plan, Cut
<1> QED
  BY <1>1, <1>2, <1>3, <1>4, <1>5, <1>6, <1>7, <1>8, <1>9, <1>10, <1>11, <1>12, <1>13
     DEF Next

\* The reply of a fan-out says that rows were cut exactly when rows were cut.
THEOREM CutsAreFlagged == Spec => []CutsFlagged
<1>1. Init => RowsOfFanout
  <2> SUFFICES ASSUME Init PROVE RowsOfFanout
    OBVIOUS
  <2>1. Len(Plan) \in Nat \ {0}
    BY PlansWellFormed DEF Init, Plan, WellFormed
  <2> QED
    BY <2>1 DEF Init, RowsOfFanout
<1>2. TypeOK /\ RowsOfFanout => CutsFlagged
  <2> SUFFICES ASSUME TypeOK, RowsOfFanout,
                      reply = "ok", op # "ospf", Plan[Len(Plan)].do = "each"
               PROVE  flagged <=> row < data.rows
    BY DEF CutsFlagged
  <2>1. LastStep.flags
    BY PlansWellFormed DEF TypeOK, Plan, WellFormed, LastStep
  <2>2. row = Cut /\ (flagged <=> data.rows > cap)
    BY <2>1 DEF RowsOfFanout, LastStep
  <2>3. cap \in Nat /\ data.rows \in Nat
    BY FanoutAssumption, RowsAssumption DEF TypeOK
  <2> QED
    BY <2>2, <2>3 DEF Cut
<1> QED
  BY <1>1, <1>2, RowsInductive, TypeCorrect, PTL DEF Spec

\* The single lookups of the steps before one.
SinglesBefore(k) == {j \in 1..(k - 1) : Plan[j].do \in {"lookup", "note"}}

LEMMA SinglesCounted ==
  ASSUME Len(Plan) \in Nat, NEW k \in 1..Len(Plan)
  PROVE  /\ IsFiniteSet(SinglesBefore(k)) /\ Cardinality(SinglesBefore(k)) \in Nat
         /\ Cardinality(SinglesBefore(k + 1)) \in Nat
         /\ Cardinality(SinglesBefore(k)) <= Cardinality(SinglesBefore(k + 1))
         /\ Plan[k].do \in {"lookup", "note"} =>
              Cardinality(SinglesBefore(k + 1)) = Cardinality(SinglesBefore(k)) + 1
<1>1. \A i \in Nat : IsFiniteSet(SinglesBefore(i + 1))
  <2> SUFFICES ASSUME NEW i \in Nat PROVE IsFiniteSet(SinglesBefore(i + 1))
    OBVIOUS
  <2>1. IsFiniteSet(1..i)
    BY FS_Interval
  <2>2. SinglesBefore(i + 1) \subseteq 1..i
    BY DEF SinglesBefore
  <2> QED
    BY <2>1, <2>2, FS_Subset
<1>2. IsFiniteSet(SinglesBefore(k)) /\ IsFiniteSet(SinglesBefore(k + 1))
  <2>1. k - 1 \in Nat /\ (k - 1) + 1 = k /\ k \in Nat
    OBVIOUS
  <2> QED
    BY <1>1, <2>1
<1>3. SinglesBefore(k) \subseteq SinglesBefore(k + 1) /\ k \notin SinglesBefore(k)
  BY DEF SinglesBefore
<1>4. Plan[k].do \in {"lookup", "note"} => SinglesBefore(k + 1) = SinglesBefore(k) \cup {k}
  BY DEF SinglesBefore
<1> QED
  BY <1>2, <1>3, <1>4, FS_Subset, FS_AddElement, FS_CardinalityType

\* So far a call has made at most its single lookups and one for each row.
CallsSoFar == calls <= Cardinality(SinglesBefore(at)) + row

LEMMA CallsInductive == TypeOK /\ RowsOfFanout /\ CallsSoFar /\ [Next]_vars => CallsSoFar'
<1> SUFFICES ASSUME TypeOK, RowsOfFanout, CallsSoFar, [Next]_vars
             PROVE  CallsSoFar'
  OBVIOUS
<1>0. op \in Operations /\ at \in 1..(Len(Plan) + 1) /\ calls \in Nat /\ row \in Nat
  BY FanoutAssumption DEF TypeOK
<1>p. Len(Plan) \in Nat /\ DOMAIN Plan = 1..Len(Plan)
  BY <1>0, PlansWellFormed DEF Plan, WellFormed
<1>a. \A what : Doing(what) => /\ at \in 1..Len(Plan) /\ Plan[at].do = what
                               /\ (what # "each" => row = 0)
  BY <1>0, StepInHand, <1>p DEF RowsOfFanout
<1> DEFINE before == Cardinality(SinglesBefore(at))
           after == Cardinality(SinglesBefore(at + 1))
<1>f. at \in 1..Len(Plan) =>
        /\ before \in Nat /\ after \in Nat /\ before <= after
        /\ (Plan[at].do \in {"lookup", "note"} => after = before + 1)
  BY <1>p, SinglesCounted
<1>c. calls <= before + row
  BY DEF CallsSoFar
<1>k. op' = op => /\ (at' = at => Cardinality(SinglesBefore(at))' = before)
                  /\ (at' = at + 1 => Cardinality(SinglesBefore(at))' = after)
  BY DEF SinglesBefore, Plan
<1> HIDE DEF before, after
<1>t. ASSUME op' = op, row' = row, calls' = calls,
             at' = at \/ (at' = at + 1 /\ at \in 1..Len(Plan))
      PROVE  CallsSoFar'
  BY <1>0, <1>c, <1>f, <1>k, <1>t DEF CallsSoFar
<1>1. CASE CheckArguments
  BY <1>1, <1>a, <1>t DEF CheckArguments, Passes, ReplyWith, NoLookup
<1>2. CASE ResolveNames
  BY <1>2, <1>a, <1>t DEF ResolveNames, Passes, ReplyWith, NoLookup
<1>3. CASE LookUp
  BY <1>0, <1>3, <1>a, <1>c, <1>f, <1>k DEF LookUp, Passes, CallsSoFar
<1>4. CASE GuardData
  BY <1>4, <1>a, <1>t DEF GuardData, Passes, ReplyWith, NoLookup
<1>5. CASE NoteError
  BY <1>0, <1>5, <1>a, <1>c, <1>f, <1>k DEF NoteError, Passes, CallsSoFar
<1>6. CASE MatchOne
  BY <1>6, <1>a, <1>t DEF MatchOne, Passes, ReplyWith, NoLookup
<1>7. CASE OnlyOne
  BY <1>7, <1>a, <1>t DEF OnlyOne, Passes, ReplyWith, NoLookup
<1>8. CASE LookUpRow
  BY <1>0, <1>8, <1>a, <1>c, <1>f, <1>k DEF LookUpRow, CallsSoFar
<1>9. CASE RowsDone
  BY <1>9, <1>a, <1>t DEF RowsDone, Passes, NoLookup
<1>10. CASE LookupRaises
  BY <1>10, <1>c, <1>k DEF LookupRaises, ReplyWith, NoLookup, CallsSoFar
<1>11. CASE HandlerRaises
  BY <1>11, <1>c, <1>k DEF HandlerRaises, ReplyWith, NoLookup, CallsSoFar
<1>12. CASE Answer
  BY <1>12, <1>c, <1>k DEF Answer, NoLookup, CallsSoFar
<1>13. CASE UNCHANGED vars
  BY <1>13, <1>c, <1>k DEF vars, CallsSoFar
<1> QED
  BY <1>1, <1>2, <1>3, <1>4, <1>5, <1>6, <1>7, <1>8, <1>9, <1>10, <1>11, <1>12, <1>13
     DEF Next

\* A call makes no more lookups than its own single ones and one for each row up
\* to the fan-out ceiling, whatever the controller lists.
THEOREM LookupsAreBounded == Spec => []LookupsBounded
<1>1. Init => RowsOfFanout /\ CallsSoFar
  <2> SUFFICES ASSUME Init PROVE RowsOfFanout /\ CallsSoFar
    OBVIOUS
  <2>1. Len(Plan) \in Nat \ {0}
    BY PlansWellFormed DEF Init, Plan, WellFormed
  <2>2. RowsOfFanout
    BY <2>1 DEF Init, RowsOfFanout
  <2>3. SinglesBefore(1) = {}
    BY DEF SinglesBefore
  <2> QED
    BY <2>2, <2>3, FS_EmptySet DEF Init, CallsSoFar
<1>2. TypeOK /\ CallsSoFar => LookupsBounded
  <2> SUFFICES ASSUME TypeOK, CallsSoFar PROVE LookupsBounded
    OBVIOUS
  <2> DEFINE Single == {k \in DOMAIN Plan : Plan[k].do \in {"lookup", "note"}}
  <2>1. Len(Plan) \in Nat /\ DOMAIN Plan = 1..Len(Plan) /\ at \in 1..(Len(Plan) + 1)
    BY PlansWellFormed DEF TypeOK, Plan, WellFormed
  <2>2. SinglesBefore(at) \subseteq Single
    BY <2>1 DEF SinglesBefore
  <2>3. IsFiniteSet(Single)
    <3>1. IsFiniteSet(1..Len(Plan)) /\ Single \subseteq 1..Len(Plan)
      BY <2>1, FS_Interval
    <3> QED
      BY <3>1, FS_Subset
  <2>4. /\ Cardinality(SinglesBefore(at)) \in Nat /\ Cardinality(Single) \in Nat
        /\ Cardinality(SinglesBefore(at)) <= Cardinality(Single)
    BY <2>2, <2>3, FS_Subset, FS_CardinalityType
  <2>5. row <= MaxFanout /\ row \in Nat /\ calls \in Nat
    BY FanoutAssumption DEF TypeOK
  <2>6. calls <= Cardinality(Single) + MaxFanout
    <3> HIDE DEF Single
    <3> QED
      BY <2>4, <2>5, FanoutAssumption DEF CallsSoFar
  <2> QED
    BY <2>6 DEF LookupsBounded
<1> QED
  BY <1>1, <1>2, RowsInductive, CallsInductive, TypeCorrect, PTL DEF Spec

-----------------------------------------------------------------------------
(* A call down to the SDK *)

\* Every step of a call is a step of its handler, or leaves the handler alone.
LEMMA HandlerStep == [ToolNext]_toolVars => [Next]_vars
<1>1. CASE Ask \/ Invoke \/ UNCHANGED toolVars
  BY <1>1 DEF Ask, Invoke, toolVars
<1>2. CASE Take
  BY <1>2 DEF Take, TakeList, TakeNote, TakeRow, TakeName, TakeException, Next
<1>3. CASE Alone
  BY <1>3 DEF Alone, Next
<1> QED
  BY <1>1, <1>2, <1>3 DEF ToolNext

\* A call of the executor and its client, seen from its handler, is one of
\* SemanticReads: what is proved there holds of it.
THEOREM CallIsAHandler == ToolSpec => Spec
<1>1. ToolInit => Init
  BY DEF ToolInit
<1> QED
  BY <1>1, HandlerStep, PTL DEF ToolSpec, Spec

\* Which errors are told, that cuts are flagged and that the lookups are bounded,
\* of a call down to the SDK.
COROLLARY RepliesAreRight == ToolSpec => [](ErrorsTold /\ CutsFlagged /\ LookupsBounded)
BY CallIsAHandler, ErrorsAreTold, CutsAreFlagged, LookupsAreBounded, PTL

-----------------------------------------------------------------------------
(* Advice *)

\* What the last call of the client ended on for a while.
ForAWhile == result.kind = "raised" \/ result.status = "transient"

\* What execute makes of the client's result keeps it apart.
Faithful ==
  /\ outcome.class \in {"none", "value", "error", "login", "capability", "registry"}
  /\ outcome.class = "error" => (outcome.status \in {429, 503} <=> ForAWhile)
                                /\ outcome.status \in {0, 403, 404, 429, 503}
  /\ outcome.class = "login" => result.kind = "raised"

\* The handler waits while the executor runs, which has its outcome when it is
\* done and not before, and a guard has that of the lookup before it in hand.
InStep ==
  /\ running # "idle" => Asks
  /\ busy => running = "trying"
  /\ running = "trying" => outcome.class = "none"
  /\ running = "done" => outcome.class # "none"
  /\ Doing("guard") /\ data.error => outcome.class = "error"

AdviceInv == Faithful /\ InStep /\ RetryAdvised

\* The executor ends with an outcome that is true to the result.
LEMMA OutcomesFaithful ==
  ASSUME NEW r \in X!Results, result' = r, NEW o \in X!Outcomes(r), outcome' = o
  PROVE  Faithful'
<1>1. CASE r.kind = "answer"
  BY <1>1 DEF X!Results, X!ResultOf, X!Outcomes, X!Outcome, Faithful, ForAWhile
<1>2. CASE r.kind = "sdk_error"
  BY <1>2 DEF X!Results, X!ResultOf, X!Outcomes, X!Outcome, Faithful, ForAWhile
<1>3. CASE r.kind = "auth_error"
  BY <1>3 DEF X!Results, X!ResultOf, X!Outcomes, X!Outcome, Faithful, ForAWhile
<1>4. CASE r.kind = "transient_error"
  BY <1>4 DEF X!Results, X!ResultOf, X!Outcomes, X!Outcome, Faithful, ForAWhile
<1>5. CASE r.kind = "raised"
  BY <1>5 DEF X!Results, X!ResultOf, X!Outcomes, X!Outcome, Faithful, ForAWhile
<1> QED
  BY <1>1, <1>2, <1>3, <1>4, <1>5 DEF X!Results, X!ResultOf

\* A call that waits has no reply and is at no guard.
LEMMA Waiting ==
  ASSUME TypeOK, Asks
  PROVE  reply = "none" /\ ~Doing("guard")
<1> QED
  BY StepInHand DEF TypeOK, Asks, Doing

\* Steps of the executor and its client.
LEMMA InvokeAdvised == TypeOK /\ AdviceInv /\ Invoke => AdviceInv'
<1> SUFFICES ASSUME TypeOK, Faithful, InStep, RetryAdvised, Invoke
             PROVE  AdviceInv'
  BY DEF AdviceInv
<1>0. vars' = vars /\ advice' = advice
  BY DEF Invoke
<1>1. Asks' = Asks /\ Doing("guard")' = Doing("guard") /\ reply' = reply /\ data' = data
  BY <1>0 DEF vars, Asks, Doing, Plan, Cut
<1>2. running # "idle" => reply = "none" /\ ~Doing("guard")
  BY Waiting DEF InStep
<1>3. CASE busy /\ (X!LogsIn \/ X!Sends) /\ UNCHANGED X!executor
  <2>1. /\ busy' = busy /\ result' = result
        /\ running' = running /\ outcome' = outcome
    BY <1>3 DEF X!LogsIn, X!Sends, X!executor
  <2>2. Faithful'
    BY <2>1 DEF Faithful, ForAWhile
  <2>3. InStep'
    BY <1>1, <2>1 DEF InStep
  <2>4. RetryAdvised'
    BY <1>0, <1>1, <2>1 DEF vars, RetryAdvised, Transient, ValueErrorRefused
  <2> QED
    BY <2>2, <2>3, <2>4 DEF AdviceInv
<1>4. ASSUME NEW r \in X!Results, NEW type_error \in BOOLEAN, X!InvokeReturned(r, type_error)
      PROVE  AdviceInv'
  <2>1. busy /\ running = "trying" /\ busy' = FALSE /\ result' = r
    BY <1>4 DEF X!InvokeReturned, X!Returns, InStep
  <2>2. reply' = "none" /\ Doing("guard")' = FALSE /\ Asks'
    BY <1>1, <1>2, <2>1 DEF InStep
  <2>3. CASE UNCHANGED X!executor
    BY <2>1, <2>2, <2>3 DEF X!executor, AdviceInv, Faithful, InStep, RetryAdvised
  <2>4. CASE X!Ends(X!Outcome("capability", 400))
    <3>1. running' = "done" /\ outcome'.class = "capability"
      BY <2>4 DEF X!Ends, X!Outcome
    <3> QED
      BY <2>1, <2>2, <3>1 DEF AdviceInv, Faithful, InStep, RetryAdvised
  <2>5. CASE \E o \in X!Outcomes(r) : X!Ends(o)
    <3>1. PICK o \in X!Outcomes(r) : X!Ends(o)
      BY <2>5
    <3>2. running' = "done" /\ outcome' = o
      BY <3>1 DEF X!Ends
    <3>3. Faithful'
      BY <2>1, <3>2, OutcomesFaithful
    <3>4. outcome'.class # "none"
      BY <3>1, <3>2 DEF X!Outcomes, X!Outcome
    <3> QED
      BY <2>1, <2>2, <3>2, <3>3, <3>4 DEF AdviceInv, InStep, RetryAdvised
  <2> QED
    BY <1>4, <2>3, <2>4, <2>5 DEF X!InvokeReturned
<1>5. CASE X!TryNext
  <2>1. running = "trying" /\ running' = running /\ outcome' = outcome /\ busy' = TRUE
    BY <1>5 DEF X!TryNext, X!Called
  <2> QED
    BY <1>1, <1>2, <2>1 DEF AdviceInv, Faithful, InStep, RetryAdvised
<1> QED
  BY <1>3, <1>4, <1>5 DEF Invoke, X!Invoking

\* A step of the handler.
LEMMA HandlerAdvised == TypeOK /\ AdviceInv /\ (Take \/ Alone) => AdviceInv'
<1> SUFFICES ASSUME TypeOK, Faithful, InStep, RetryAdvised, Take \/ Alone
             PROVE  AdviceInv'
  BY DEF AdviceInv
<1>0. op \in Operations /\ at \in 1..(Len(Plan) + 1)
  BY DEF TypeOK
<1>1. /\ outcome' = outcome /\ result' = result /\ busy' = busy
      /\ running' = "idle" /\ running # "trying"
  BY
     DEF Take, TakeList, TakeNote, TakeRow, TakeName, TakeException, Answered, Taken, Alone,
         client, execution
<1>2. Faithful'
  BY <1>1 DEF Faithful, ForAWhile
<1>3. busy' = FALSE \/ ~busy'
  BY <1>1 DEF InStep
<1>n. ASSUME NEW what, Doing(what), what # "lookup", op' = op, at' \in {at, at + 1},
             at' = at => what # "guard"
      PROVE  ~Doing("guard")'
  <2>1. Len(Plan) \in Nat /\ DOMAIN Plan = 1..Len(Plan) /\ at \in 1..Len(Plan)
        /\ Plan[at].do = what
    BY <1>0, <1>n, StepInHand
  <2>2. Plan' = Plan
    BY <1>n DEF Plan
  <2>3. CASE at' = at
    BY <1>n, <2>1, <2>2, <2>3 DEF Doing
  <2>4. CASE at' = at + 1
    BY <1>0, <1>n, <2>1, <2>2, <2>4, NoGuardNext DEF Doing
  <2> QED
    BY <1>n, <2>3, <2>4
<1>s. ASSUME ~Doing("guard")', reply' # "error"
      PROVE  AdviceInv'
  BY <1>1, <1>2, <1>3, <1>s DEF AdviceInv, InStep, RetryAdvised
<1>4. CASE TakeList
  <2>1. reply' = "none" /\ (data'.error => outcome.class = "error")
    BY <1>4 DEF TakeList, LookUp, Passes, Doing, IsError
  <2> QED
    BY <1>1, <1>2, <1>3, <2>1 DEF AdviceInv, InStep, RetryAdvised
<1>5. CASE TakeNote
  BY <1>5, <1>n, <1>s DEF TakeNote, NoteError, Passes, Doing
<1>6. CASE TakeRow
  <2>1. Doing("each") /\ op' = op /\ at' = at /\ reply' = "none"
    BY <1>6 DEF TakeRow, LookUpRow, Doing
  <2> QED
    BY <2>1, <1>n, <1>s
<1>7. CASE TakeName
  <2>1. Doing("resolve") /\ op' = op /\ at' \in {at, at + 1} /\ reply' # "error"
    BY <1>7 DEF TakeName, ResolveNames, Passes, ReplyWith, Doing
  <2> QED
    BY <2>1, <1>n, <1>s
<1>8. CASE TakeException
  <2>1. /\ running = "done" /\ reply' = "error" /\ op' = op
        /\ outcome.class \notin {"none", "value", "error"}
    BY <1>8 DEF TakeException, Answered, LookupRaises, ReplyWith, InStep
  <2>2. outcome.class \in {"login", "capability", "registry"}
    BY <2>1 DEF Faithful
  <2>3. ~Doing("guard")'
    BY <2>1 DEF Doing
  <2>4. PICK error \in RaisedErrors(outcome.class) : Advise(error)
    BY <1>8 DEF TakeException
  <2>5. RetryAdvised'
    <3>1. CASE outcome.class = "login"
      <4>1. Transient /\ Transient' /\ result.kind = "raised" /\ result'.kind = "raised"
        BY <1>1, <2>1, <3>1 DEF Transient, Faithful, ForAWhile
      <4>2. error = InternalError \/ ValueErrorRefused
        BY <2>4, <3>1 DEF RaisedErrors
      <4>3. error = InternalError => advice' = "retry"
        BY <2>4 DEF Advise, Retryable, InternalError
      <4> QED
        BY <2>1, <4>1, <4>2, <4>3 DEF RetryAdvised, ValueErrorRefused
    <3>2. CASE outcome.class \in {"capability", "registry"}
      <4>1. ~Transient'
        BY <1>1, <3>2 DEF Transient
      <4>2. error.code \in {"invalid_capability_request", "invalid_argument"} /\ error.status = 400
        BY <2>4, <3>2 DEF RaisedErrors, InvalidArgument
      <4>3. advice' = "stop"
        BY <2>4, <4>2 DEF Advise, Retryable
      <4> QED
        BY <4>1, <4>3 DEF RetryAdvised
    <3> QED
      BY <2>2, <3>1, <3>2
  <2> QED
    BY <1>1, <1>2, <1>3, <2>3, <2>5 DEF AdviceInv, InStep
<1>9. CASE Alone
  <2>1. CASE CheckArguments
    BY <2>1, <1>n, <1>s DEF CheckArguments, Passes, ReplyWith, Doing
  <2>2. CASE MatchOne
    BY <2>2, <1>n, <1>s DEF MatchOne, Passes, ReplyWith, Doing
  <2>3. CASE OnlyOne
    BY <2>3, <1>n, <1>s DEF OnlyOne, Passes, ReplyWith, Doing
  <2>4. CASE RowsDone
    BY <2>4, <1>n, <1>s DEF RowsDone, Passes, Doing
  <2>5. CASE Answer
    BY <2>5, <1>s DEF Answer, Doing
  <2>6. CASE LookUpRow
    <3>1. Doing("each") /\ op' = op /\ at' = at /\ reply' = "none"
      BY <2>6 DEF LookUpRow, Doing
    <3> QED
      BY <3>1, <1>n, <1>s
  <2>7. CASE ResolveNames
    <3>1. Doing("resolve") /\ op' = op /\ at' \in {at, at + 1} /\ reply' # "error"
      BY <2>7 DEF ResolveNames, Passes, ReplyWith, Doing
    <3> QED
      BY <3>1, <1>n, <1>s
  <2>8. CASE /\ GuardData
             /\ IF data.error THEN Advise(UpstreamError(outcome.status)) ELSE NoAdvice
    <3>1. CASE data.error
      <4>1. reply' = "error" /\ outcome.class = "error"
            /\ advice' = IF Retryable(UpstreamError(outcome.status)) THEN "retry" ELSE "stop"
        BY <2>8, <3>1 DEF GuardData, ReplyWith, Advise, InStep
      <4>2. ~Doing("guard")'
        BY <4>1 DEF Doing
      <4>3. Retryable(UpstreamError(outcome.status)) <=> outcome.status \in {429, 503}
        BY <4>1 DEF Retryable, UpstreamError, Faithful
      <4>4. RetryAdvised'
        BY <1>1, <4>1, <4>3 DEF RetryAdvised, Transient, Faithful, ForAWhile
      <4> QED
        BY <1>1, <1>2, <1>3, <4>2, <4>4 DEF AdviceInv, InStep
    <3>2. CASE ~data.error
      <4>1. reply' = "none" /\ data' = data
        BY <2>8, <3>2 DEF GuardData, Passes, Doing
      <4> QED
        BY <1>1, <1>2, <1>3, <3>2, <4>1 DEF AdviceInv, InStep, RetryAdvised
    <3> QED
      BY <3>1, <3>2
  <2>9. CASE HandlerRaises
    BY <2>9, <1>s DEF HandlerRaises, ReplyWith, Doing
  <2> QED
    BY <1>9, <2>1, <2>2, <2>3, <2>4, <2>5, <2>6, <2>7, <2>8, <2>9 DEF Alone
<1> QED
  BY <1>4, <1>5, <1>6, <1>7, <1>8, <1>9 DEF Take

LEMMA AdviceInductive == TypeOK /\ AdviceInv /\ [ToolNext]_toolVars => AdviceInv'
<1> SUFFICES ASSUME TypeOK, Faithful, InStep, RetryAdvised, [ToolNext]_toolVars
             PROVE  AdviceInv'
  BY DEF AdviceInv
<1>1. CASE Ask
  <2>1. Asks /\ vars' = vars /\ running = "idle"
    BY <1>1 DEF Ask, X!Refuse, X!Bind, X!UnknownCapability
  <2>2. reply' = "none" /\ ~Doing("guard")' /\ Asks'
    BY <2>1, Waiting DEF vars, Asks, Doing, Plan, Cut
  <2>3. CASE running' = "done" /\ outcome'.class \in {"capability", "registry"}
             /\ UNCHANGED X!contract
    BY <2>1, <2>2, <2>3 DEF X!contract, AdviceInv, Faithful, InStep, RetryAdvised
  <2>4. CASE running' = "trying" /\ outcome' = X!NoOutcome
    <3>1. outcome'.class = "none"
      BY <2>4 DEF X!NoOutcome, X!Outcome
    <3> QED
      BY <2>2, <2>4, <3>1 DEF AdviceInv, Faithful, InStep, RetryAdvised
  <2>5. \/ running' = "done" /\ outcome'.class \in {"capability", "registry"} /\ UNCHANGED X!contract
        \/ running' = "trying" /\ outcome' = X!NoOutcome
    BY <1>1 DEF Ask, X!Refuse, X!Bind, X!UnknownCapability, X!Ends, X!Outcome
  <2> QED
    BY <2>3, <2>4, <2>5
<1>2. CASE Invoke
  BY <1>2, InvokeAdvised DEF AdviceInv
<1>3. CASE Take \/ Alone
  BY <1>3, HandlerAdvised DEF AdviceInv
<1>4. CASE UNCHANGED toolVars
  BY <1>4 DEF toolVars, vars, client, execution, AdviceInv, Faithful, ForAWhile, InStep,
              RetryAdvised, Transient, ValueErrorRefused, Asks, Doing, Plan, Cut
<1> QED
  BY <1>1, <1>2, <1>3, <1>4 DEF ToolNext

\* The reply to a lookup that failed advises a retry exactly if the last call of the
\* client ended on a rate limit, an error of the controller or a failed login, but
\* for a login that get_monitoring may take for a bad argument.
THEOREM AdviceIsRight == ToolSpec => []RetryAdvised
<1>1. ToolInit => AdviceInv
  BY
     DEF ToolInit, Init, X!ExecutorInit, X!Idle, X!NoOutcome, X!Outcome, NoList, AdviceInv,
         Faithful, InStep, RetryAdvised
<1>2. AdviceInv => RetryAdvised
  BY DEF AdviceInv
<1> QED
  BY <1>1, <1>2, AdviceInductive, CallIsAHandler, TypeCorrect, PTL DEF ToolSpec

-----------------------------------------------------------------------------
(* Arguments: what of them reaches the SDK *)

\* What Among takes of a sequence: all of its elements that are in S, and the
\* whole sequence when they all are.
LEMMA AmongTakes ==
  ASSUME NEW D, NEW s \in Seq(D), NEW S, NEW t, t = X!Among(S, s)
  PROVE  /\ t \in Seq(D) /\ {t[i] : i \in DOMAIN t} = S \cap {s[i] : i \in DOMAIN s}
         /\ {s[i] : i \in DOMAIN s} \subseteq S => t = s
<1> DEFINE L == Len(s)
           value(g, i) == IF i = 0 THEN <<>>
                          ELSE IF s[i] \in S THEN Append(g[i - 1], s[i]) ELSE g[i - 1]
           range(u) == {u[j] : j \in DOMAIN u}
           upTo(i) == S \cap {s[j] : j \in 1..i}
           Right(u, i) == /\ u \in Seq(D) /\ range(u) = upTo(i)
                          /\ {s[j] : j \in 1..i} \subseteq S => u = SubSeq(s, 1, i)
           Part(g, n) == \A i \in 0..L : i <= n => g[i] \in Seq(D) /\ g[i] = value(g, i)
           T == {n \in Nat : n <= L /\ ~ \E g \in [0..L -> Seq(D)] : Part(g, n)}
<1>1. L \in Nat /\ DOMAIN s = 1..L /\ \A j \in 1..L : s[j] \in D
  BY LenProperties, ElementOfSeq
<1> HIDE DEF L
<1>2. <<>> \in Seq(D)
  BY EmptySeq
<1>3. T = {}
  <2> SUFFICES ASSUME T # {} PROVE FALSE
    OBVIOUS
  <2>1. PICK n \in T : \A m \in T : n <= m
    <3>1. T \subseteq Nat
      OBVIOUS
    <3> HIDE DEF T
    <3> QED
      BY <3>1, LeastNumber
  <2>2. n \in Nat /\ n <= L /\ ~ \E g \in [0..L -> Seq(D)] : Part(g, n)
    BY <2>1
  <2>3. CASE n = 0
    <3> DEFINE g == [i \in 0..L |-> <<>>]
    <3>1. Part(g, 0)
      BY <1>2
    <3>2. g \in [0..L -> Seq(D)]
      BY <1>2
    <3> QED
      BY <2>2, <2>3, <3>1, <3>2
  <2>4. CASE n # 0
    <3>1. PICK m \in Nat : n = m + 1
      BY <2>2, <2>4
    <3>2. m \notin T
      <4>1. ~(n <= m)
        BY <3>1
      <4> HIDE DEF T
      <4> QED
        BY <2>1, <4>1
    <3>3. m <= L
      BY <1>1, <2>2, <3>1
    <3>4. PICK g \in [0..L -> Seq(D)] : Part(g, m)
      BY <3>2, <3>3
    <3> DEFINE h == [i \in 0..L |-> value(g, i)]
    <3>5. \A i \in 0..L : value(g, i) \in Seq(D)
      <4> SUFFICES ASSUME NEW i \in 0..L PROVE value(g, i) \in Seq(D)
        OBVIOUS
      <4>1. CASE i = 0
        BY <1>2, <4>1
      <4>2. CASE i # 0
        <5>1. i - 1 \in 0..L /\ i \in 1..L
          BY <1>1, <4>2
        <5>2. g[i - 1] \in Seq(D) /\ s[i] \in D
          BY <1>1, <5>1
        <5> QED
          BY <4>2, <5>2, AppendProperties
      <4> QED
        BY <4>1, <4>2
    <3>6. h \in [0..L -> Seq(D)]
      BY <3>5
    <3>7. Part(h, n)
      <4> SUFFICES ASSUME NEW i \in 0..L, i <= n
                   PROVE  h[i] \in Seq(D) /\ h[i] = value(h, i)
        OBVIOUS
      <4>1. h[i] \in Seq(D) /\ h[i] = value(g, i)
        BY <3>5
      <4>2. CASE i = 0
        BY <4>1, <4>2
      <4>3. CASE i # 0
        <5>1. i - 1 \in 0..L /\ i - 1 <= m
          BY <1>1, <3>1, <4>3
        <5>2. h[i - 1] = g[i - 1]
          BY <3>4, <5>1
        <5> QED
          BY <4>1, <4>3, <5>2
      <4> QED
        BY <4>2, <4>3
    <3> QED
      BY <2>2, <3>6, <3>7
  <2> QED
    BY <2>3, <2>4
<1>4. PICK G \in [0..L -> Seq(D)] : \A i \in 0..L : G[i] = value(G, i)
  <2>0. L \notin T /\ L <= L
    <3>1. L <= L
      BY <1>1
    <3> HIDE DEF T
    <3> QED
      BY <1>3, <3>1
  <2>1. PICK g \in [0..L -> Seq(D)] : Part(g, L)
    <3> HIDE DEF Part
    <3> QED
      BY <1>1, <2>0
  <2>2. \A i \in 0..L : i <= L
    BY <1>1
  <2> QED
    BY <2>1, <2>2
<1>5. PICK F : F = [i \in 0..L |-> value(F, i)] /\ t = F[L]
  <2> DEFINE F == CHOOSE f : f = [i \in 0..L |-> value(f, i)]
  <2>1. G = [i \in 0..L |-> value(G, i)]
    BY <1>4
  <2>2. F = [i \in 0..L |-> value(F, i)]
    BY <2>1
  <2>3. t = F[L]
    BY DEF X!Among, L
  <2> QED
    BY <2>2, <2>3
<1> DEFINE U == {i \in 0..L : ~Right(F[i], i)}
<1>6. U = {}
  <2> SUFFICES ASSUME U # {} PROVE FALSE
    OBVIOUS
  <2>1. PICK n \in U : \A m \in U : n <= m
    <3>1. U \subseteq Nat
      BY <1>1
    <3> HIDE DEF U
    <3> QED
      BY <3>1, LeastNumber
  <2>2. n \in 0..L /\ ~Right(F[n], n) /\ F[n] = value(F, n)
    BY <1>5, <2>1
  <2>3. CASE n = 0
    <3>1. F[n] = <<>>
      BY <2>2, <2>3
    <3>2. 1..n = {} /\ DOMAIN F[n] = {}
      BY <2>3, <3>1
    <3>3. SubSeq(s, 1, n) = <<>>
      BY <2>3, SubSeqEmpty
    <3>4. range(F[n]) = {} /\ upTo(n) = {}
      BY <3>2
    <3> QED
      BY <1>2, <2>2, <3>1, <3>3, <3>4
  <2>4. CASE n # 0
    <3>1. PICK m \in Nat : n = m + 1 /\ m \in 0..L /\ n \in 1..L /\ n - 1 = m
      BY <1>1, <2>2, <2>4
    <3>2. m \notin U
      <4>1. ~(n <= m)
        BY <3>1
      <4> HIDE DEF U
      <4> QED
        BY <2>1, <4>1
    <3>3. Right(F[m], m)
      BY <3>1, <3>2
    <3>4. 1..n = 1..m \cup {n} /\ s[n] \in D
      BY <1>1, <3>1
    <3>5. {s[j] : j \in 1..n} = {s[j] : j \in 1..m} \cup {s[n]}
      BY <3>4
    <3>6. F[n] = IF s[n] \in S THEN Append(F[m], s[n]) ELSE F[m]
      BY <2>2, <2>4, <3>1
    <3>7. CASE s[n] \in S
      <4>1. PICK u, v : u = F[m] /\ v = F[n] /\ u \in Seq(D) /\ v = Append(u, s[n])
        BY <3>3, <3>6, <3>7
      <4>2. v \in Seq(D) /\ range(v) = range(u) \cup {s[n]}
        <5>1. /\ v \in Seq(D) /\ Len(v) = Len(u) + 1
              /\ \A j \in 1..Len(u) : v[j] = u[j]
              /\ v[Len(u) + 1] = s[n]
          BY <3>4, <4>1, AppendProperties
        <5>2. /\ Len(u) \in Nat /\ DOMAIN u = 1..Len(u) /\ DOMAIN v = 1..(Len(u) + 1)
          BY <4>1, <5>1, LenProperties
        <5>3. 1..(Len(u) + 1) = 1..Len(u) \cup {Len(u) + 1}
          BY <5>2
        <5>4. range(v) \subseteq range(u) \cup {s[n]}
          BY <5>1, <5>2, <5>3
        <5>5. range(u) \subseteq range(v)
          BY <5>1, <5>2, <5>3
        <5>6. s[n] \in range(v)
          BY <5>1, <5>2, <5>3
        <5> HIDE DEF range
        <5> QED
          BY <5>1, <5>4, <5>5, <5>6
      <4>3. range(v) = upTo(n)
        <5>1. range(u) = upTo(m)
          BY <3>3, <4>1
        <5>2. upTo(n) = upTo(m) \cup {s[n]}
          BY <3>5, <3>7
        <5> HIDE DEF range, upTo
        <5> QED
          BY <4>2, <5>1, <5>2
      <4>4. {s[j] : j \in 1..n} \subseteq S => v = SubSeq(s, 1, n)
        <5> SUFFICES ASSUME {s[j] : j \in 1..n} \subseteq S PROVE v = SubSeq(s, 1, n)
          OBVIOUS
        <5>1. u = SubSeq(s, 1, m)
          BY <3>3, <3>5, <4>1
        <5>2. SubSeq(s, 1, n) = Append(SubSeq(s, 1, n - 1), s[n])
          BY SMTT(30), <3>1, SubSeqRecursiveSecond DEF L
        <5> QED
          BY <3>1, <4>1, <5>1, <5>2
      <4> QED
        BY ZenonT(30), <2>2, <4>1, <4>2, <4>3, <4>4
    <3>8. CASE s[n] \notin S
      <4>1. upTo(n) = upTo(m) /\ ~({s[j] : j \in 1..n} \subseteq S)
        BY <3>5, <3>8
      <4> QED
        BY <2>2, <3>3, <3>6, <3>8, <4>1
    <3> QED
      BY <3>7, <3>8
  <2> QED
    BY <2>3, <2>4
<1>7. Right(t, L)
  <2>1. L \in 0..L /\ L \notin U
    <3>1. L \in 0..L
      BY <1>1
    <3> HIDE DEF U
    <3> QED
      BY <1>6, <3>1
  <2> HIDE DEF Right
  <2> QED
    BY <1>5, <2>1
<1>8. SubSeq(s, 1, L) = s
  BY SubSeqFull DEF L
<1> QED
  BY <1>1, <1>7, <1>8

\* What the checks let through: paths of the catalog, all that are required.
Accepted(c, given) == given \subseteq X!ToSet(c.paths) /\ c.required \subseteq given

\* *args and **kwargs come behind the parameters with a name.
LEMMA ParamsAre ==
  ASSUME NEW c \in Capabilities
  PROVE  /\ Len(c.named) \in Nat /\ DOMAIN c.named = 1..Len(c.named)
         /\ \E n \in Nat : DOMAIN X!Params(c) = 1..n /\ Len(c.named) <= n
         /\ \A i \in DOMAIN c.named : X!Params(c)[i] = c.named[i]
         /\ \A i \in DOMAIN X!Params(c) \ DOMAIN c.named :
              X!Params(c)[i].name \in {"args", "kwargs"}
<1> DEFINE none == {[name |-> n, default |-> FALSE] : n \in {"args", "kwargs"}}
           D == X!ToSet(c.named) \cup none
<1>1. c.named \in Seq(D)
  <2>1. c.named \in Seq(X!ToSet(c.named))
    BY SignatureAssumption DEF X!WellSigned
  <2>2. Len(c.named) \in Nat /\ DOMAIN c.named = 1..Len(c.named)
    BY <2>1, LenProperties
  <2>3. \A i \in 1..Len(c.named) : c.named[i] \in D
    BY <2>1, ElementOfSeq
  <2>4. c.named \in [1..Len(c.named) -> D]
    <3>1. c.named = [i \in 1..Len(c.named) |-> c.named[i]]
      BY <2>1, <2>2, LenProperties
    <3> HIDE DEF D
    <3> QED
      BY <2>3, <3>1
  <2> HIDE DEF D
  <2> QED
    BY <2>2, <2>4, FunctionIsSeq
<1>2. ASSUME NEW name \in {"args", "kwargs"}
      PROVE  X!Hiding(c, name) \in Seq(none)
  <2>1. [name |-> name, default |-> FALSE] \in none
    OBVIOUS
  <2>2. <<>> \in Seq(none) /\ <<[name |-> name, default |-> FALSE]>> \in Seq(none)
    <3> HIDE DEF none
    <3> QED
      BY <2>1
  <2> QED
    BY <2>2 DEF X!Hiding
<1>3. PICK a, b : /\ a = X!Hiding(c, "args") /\ b = X!Hiding(c, "kwargs")
                  /\ a \in Seq(none) /\ b \in Seq(none)
  BY <1>2
<1>4. X!Params(c) = (c.named \o a) \o b
  BY <1>3 DEF X!Params
<1> HIDE DEF none
<1>5. a \in Seq(D) /\ b \in Seq(D)
  <2>1. /\ DOMAIN a = 1..Len(a) /\ Len(a) \in Nat /\ a \in [1..Len(a) -> none]
        /\ DOMAIN b = 1..Len(b) /\ Len(b) \in Nat /\ b \in [1..Len(b) -> none]
    BY <1>3, LenProperties
  <2>2. a \in [1..Len(a) -> D] /\ b \in [1..Len(b) -> D]
    BY <2>1
  <2> HIDE DEF D
  <2> QED
    BY <2>1, <2>2, FunctionIsSeq
<1> HIDE DEF D
<1>6. PICK m, j, k : m = c.named /\ j = m \o a /\ k = j \o b /\ m \in Seq(D)
  BY <1>1
<1>7. /\ j \in Seq(D) /\ Len(j) = Len(m) + Len(a)
      /\ \A i \in 1..(Len(m) + Len(a)) : j[i] = IF i <= Len(m) THEN m[i] ELSE a[i - Len(m)]
  BY <1>5, <1>6, ConcatProperties
<1>8. /\ k \in Seq(D) /\ Len(k) = Len(j) + Len(b)
      /\ \A i \in 1..(Len(j) + Len(b)) : k[i] = IF i <= Len(j) THEN j[i] ELSE b[i - Len(j)]
  BY <1>5, <1>6, <1>7, ConcatProperties
<1>9. /\ Len(m) \in Nat /\ DOMAIN m = 1..Len(m) /\ Len(a) \in Nat /\ Len(b) \in Nat
      /\ DOMAIN k = 1..Len(k)
  BY <1>5, <1>6, <1>8, LenProperties
<1>10. /\ \A i \in 1..Len(a) : a[i] \in none
       /\ \A i \in 1..Len(b) : b[i] \in none
  BY <1>3, ElementOfSeq
<1>11. \A i \in 1..Len(m) : k[i] = m[i]
  BY <1>7, <1>8, <1>9
<1>12. \A i \in 1..Len(k) : i \notin 1..Len(m) => k[i] \in none
  <2> SUFFICES ASSUME NEW i \in 1..Len(k), i \notin 1..Len(m) PROVE k[i] \in none
    OBVIOUS
  <2>1. CASE i <= Len(j)
    <3>1. k[i] = a[i - Len(m)] /\ i - Len(m) \in 1..Len(a)
      BY SMTT(30), <1>7, <1>8, <1>9, <2>1
    <3> QED
      BY <1>10, <3>1
  <2>2. CASE ~(i <= Len(j))
    <3>1. k[i] = b[i - Len(j)] /\ i - Len(j) \in 1..Len(b)
      BY <1>7, <1>8, <1>9, <2>2
    <3> QED
      BY <1>10, <3>1
  <2> QED
    BY <2>1, <2>2
<1>13. \A p \in none : p.name \in {"args", "kwargs"}
  BY DEF none
<1>14. Len(k) \in Nat /\ Len(m) <= Len(k) /\ X!Params(c) = k
  BY <1>4, <1>6, <1>7, <1>8, <1>9
<1> QED
  BY <1>6, <1>9, <1>11, <1>12, <1>13, <1>14

\* A call by name gives every parameter what is its own, if a parameter that takes
\* the body is named after it, and a method with a body names it.
LEMMA NamedCallKeeps ==
  ASSUME NEW c \in Capabilities, NEW given, Accepted(c, given), X!Bindable(c, given),
         X!HasBody(c) => \E i \in DOMAIN c.named : c.named[i].name \in BODY_NAMES,
         \A i \in DOMAIN c.named :
           X!MayTakeBody(c, given, c.named[i]) => c.named[i].name \in BODY_NAMES,
         NEW call, call = [args |-> <<>>, kwargs |-> X!Keywords(c, given)]
  PROVE  X!Fits(c, call) /\ X!Keeps(c, given, call)
<1> DEFINE P == X!Params(c)
           Bound == {i \in DOMAIN P : \/ P[i].name \in given
                                      \/ X!IsVersion(c, P[i])
                                      \/ X!TakesBody(c, given, i)}
           names == {P[i].name : i \in Bound}
           ValueOf(n) == IF n \in given THEN n
                         ELSE IF c.versioned /\ n = "api_version" THEN "version" ELSE "body"
           K == call.kwargs
<1>1. call.args = <<>> /\ Len(call.args) = 0 /\ DOMAIN call.args = {}
  OBVIOUS
<1>2. K = [n \in names |-> ValueOf(n)]
  BY DEF X!Keywords
<1>3. /\ Len(c.named) \in Nat /\ DOMAIN c.named = 1..Len(c.named)
      /\ DOMAIN c.named \subseteq DOMAIN P
      /\ \A i \in DOMAIN c.named : P[i] = c.named[i]
      /\ \A i \in DOMAIN P \ DOMAIN c.named : P[i].name \in {"args", "kwargs"}
  BY ParamsAre
<1>4. /\ X!ToSet(c.paths) \cap (BODY_NAMES \cup {"api_version", "version"}) = {}
      /\ X!ToSet(c.paths) \cap {"args", "kwargs"} = {}
      /\ BODY_NAMES \cap {"api_version", "version", "args", "kwargs"} = {} /\ "body" \in BODY_NAMES
  BY SignatureAssumption DEF X!WellSigned
<1>5. X!NamesOf(c) = {c.named[i].name : i \in DOMAIN c.named}
  BY DEF X!NamesOf, X!ToSet
<1>6. /\ \A i \in DOMAIN c.named : c.named[i].default \/ c.named[i].name \in DOMAIN K
      /\ given \subseteq DOMAIN K
      /\ X!HasBody(c) => \E i \in DOMAIN P : X!TakesBody(c, given, i)
  BY DEF X!Bindable, X!ToSet
<1>7. given \subseteq X!ToSet(c.paths)
  BY DEF Accepted
<1> HIDE DEF P, K
<1>8. \A i \in Bound : i \in DOMAIN c.named
  <2> SUFFICES ASSUME NEW i \in Bound, i \notin DOMAIN c.named PROVE FALSE
    OBVIOUS
  <2>1. i \in DOMAIN P /\ P[i].name \in {"args", "kwargs"}
    BY <1>3
  <2>2. P[i].name \notin given /\ ~X!IsVersion(c, P[i]) /\ P[i].name \notin BODY_NAMES
    BY <1>4, <1>7, <2>1 DEF X!IsVersion
  <2>3. X!TakesBody(c, given, i)
    BY <2>2
  <2>4. X!HasBody(c) /\ \A j \in 1..(i - 1) : ~X!MayTakeBody(c, given, P[j])
    BY <2>2, <2>3 DEF X!TakesBody, X!MayTakeBody, P
  <2>5. PICK j \in DOMAIN c.named : c.named[j].name \in BODY_NAMES
    BY <2>4
  <2>6. X!MayTakeBody(c, given, P[j])
    BY <1>3, <1>4, <1>7, <2>4, <2>5 DEF X!MayTakeBody, X!IsVersion
  <2>7. j \in 1..(i - 1)
    <3>1. PICK n \in Nat : DOMAIN P = 1..n
      BY ParamsAre DEF P
    <3> QED
      BY <1>3, <2>1, <2>5, <3>1
  <2> QED
    BY <2>4, <2>6, <2>7
<1>9. DOMAIN K = names /\ names \subseteq X!NamesOf(c)
  BY <1>2, <1>3, <1>5, <1>8
<1>10. X!Fits(c, call)
  <2>1. \A n \in DOMAIN call.kwargs : n \in X!NamesOf(c)
    BY <1>9 DEF K
  <2>2. \A i \in DOMAIN c.named : ~(i <= Len(call.args))
    BY <1>1, <1>3
  <2>3. Len(call.args) <= Len(c.named)
    BY <1>1, <1>3
  <2>4. \A i \in DOMAIN c.named : c.named[i].default \/ c.named[i].name \in DOMAIN call.kwargs
    BY <1>6 DEF K
  <2> QED
    BY <2>1, <2>2, <2>3, <2>4 DEF X!Fits
<1>11. X!Received(c, call) = {<<n, K[n]>> : n \in names}
  <2>1. X!ByPosition(c, call) = {}
    BY <1>1 DEF X!ByPosition
  <2>2. DOMAIN call.kwargs \cap X!NamesOf(c) = names
    BY <1>9 DEF K
  <2>3. {<<c.named[i].name, call.args[i]>> : i \in X!ByPosition(c, call)} = {}
    BY <2>1
  <2> QED
    BY <2>2, <2>3 DEF X!Received, K
<1>12. \A n \in given : n \in names /\ K[n] = n
  BY <1>2, <1>6, <1>9
<1>13. X!HasBody(c) => \E n \in names : K[n] = "body"
  <2> SUFFICES ASSUME X!HasBody(c) PROVE \E n \in names : K[n] = "body"
    OBVIOUS
  <2>1. PICK i \in DOMAIN P : X!TakesBody(c, given, i)
    BY <1>6
  <2>2. i \in Bound /\ P[i].name \in names
    BY <2>1
  <2>3. P[i].name \notin given /\ ~(c.versioned /\ P[i].name = "api_version")
    BY <2>1 DEF X!TakesBody, X!MayTakeBody, X!IsVersion, P
  <2> QED
    BY <1>2, <2>2, <2>3
<1>14. \A n \in names : /\ n \in BODY_NAMES <=> K[n] = "body"
                        /\ n = "api_version" <=> K[n] = "version"
                        /\ n \in X!ToSet(c.paths) => K[n] = n
  <2> SUFFICES ASSUME NEW n \in names
               PROVE  /\ n \in BODY_NAMES <=> K[n] = "body"
                      /\ n = "api_version" <=> K[n] = "version"
                      /\ n \in X!ToSet(c.paths) => K[n] = n
    OBVIOUS
  <2>1. K[n] = ValueOf(n)
    BY <1>2
  <2>2. CASE n \in given
    BY <1>4, <1>7, <2>1, <2>2
  <2>3. CASE n \notin given /\ c.versioned /\ n = "api_version"
    BY <1>4, <2>1, <2>3
  <2>4. CASE n \notin given /\ ~(c.versioned /\ n = "api_version")
    <3>1. PICK i \in Bound : n = P[i].name
      OBVIOUS
    <3>2. X!TakesBody(c, given, i)
      BY <2>4, <3>1 DEF X!IsVersion
    <3>3. X!MayTakeBody(c, given, P[i])
      BY <3>2 DEF X!TakesBody, P
    <3>4. n \in BODY_NAMES
      BY <1>3, <1>8, <3>1, <3>3
    <3> QED
      BY <1>4, <2>1, <2>4, <3>4
  <2> QED
    BY <2>2, <2>3, <2>4
<1>15. X!Keeps(c, given, call)
  <2> DEFINE R == X!Received(c, call)
             H == X!Hidden(c, call)
  <2>1. given \cup (IF X!HasBody(c) THEN {"body"} ELSE {}) \subseteq {r[2] : r \in R} \cup H
    <3>1. ASSUME NEW n \in names PROVE K[n] \in {r[2] : r \in R}
      <4>1. PICK r : r = <<n, K[n]>>
        OBVIOUS
      <4>2. r \in R /\ r[2] = K[n]
        BY <1>11, <4>1
      <4> HIDE DEF R
      <4> QED
        BY <4>2
    <3> HIDE DEF R, H, names
    <3> QED
      BY <1>12, <1>13, <3>1
  <2>2. \A r \in R : /\ r[1] \in BODY_NAMES <=> r[2] = "body"
                     /\ r[1] = "api_version" <=> r[2] = "version"
                     /\ r[1] \in X!ToSet(c.paths) => r[2] = r[1]
    BY <1>11, <1>14
  <2> QED
    BY <2>1, <2>2 DEF X!Keeps
<1> QED
  BY <1>10, <1>15

\* What a pair holds, by the name it has.
LEMMA PairIs ==
  ASSUME NEW a, NEW b, NEW t, t = <<a, b>>
  PROVE  2 \in DOMAIN t /\ t[1] = a /\ t[2] = b
OBVIOUS

\* And a triple.
LEMMA TripleIs ==
  ASSUME NEW a, NEW b, NEW d, NEW t, t = <<a, b, d>>
  PROVE  3 \in DOMAIN t /\ t[1] = a /\ t[2] = b /\ t[3] = d
OBVIOUS

\* A call, and one or none behind it.
LEMMA PairJoined ==
  ASSUME NEW a, NEW b
  PROVE  <<a>> \o <<b>> = <<a, b>> /\ <<a>> \o <<>> = <<a>>
<1>1. <<a>> \in Seq({a, b}) /\ <<b>> \in Seq({a, b}) /\ <<a, b>> \in Seq({a, b})
  OBVIOUS
<1>2. Len(<<a>>) = 1 /\ Len(<<b>>) = 1 /\ Len(<<a, b>>) = 2
  OBVIOUS
<1>3. <<a, b>>[1] = a /\ <<a, b>>[2] = b /\ <<a>>[1] = a /\ <<b>>[1] = b
  OBVIOUS
<1>4. PICK t : t = <<a>> \o <<b>>
  OBVIOUS
<1>5. t \in Seq({a, b}) /\ Len(t) = 2 /\ t[1] = a /\ t[2] = b
  BY <1>1, <1>2, <1>3, <1>4, ConcatProperties
<1>6. \A i \in 1..2 : t[i] = <<a, b>>[i]
  BY <1>3, <1>5
<1>7. t = <<a, b>>
  BY <1>1, <1>2, <1>5, <1>6, SeqEqual
<1> QED
  BY <1>1, <1>4, <1>7, ConcatEmptySeq

\* Two calls, and one or none behind them.
LEMMA TripleJoined ==
  ASSUME NEW a, NEW b, NEW d
  PROVE  <<a, b>> \o <<d>> = <<a, b, d>> /\ <<a, b>> \o <<>> = <<a, b>>
<1> DEFINE S == {a, b, d}
<1>1. <<a, b>> \in Seq(S) /\ <<d>> \in Seq(S) /\ <<a, b, d>> \in Seq(S)
  OBVIOUS
<1>2. Len(<<a, b>>) = 2 /\ Len(<<d>>) = 1 /\ Len(<<a, b, d>>) = 3
  OBVIOUS
<1>3. /\ <<a, b>>[1] = a /\ <<a, b>>[2] = b /\ <<d>>[1] = d
      /\ <<a, b, d>>[1] = a /\ <<a, b, d>>[2] = b /\ <<a, b, d>>[3] = d
  OBVIOUS
<1>4. PICK t : t = <<a, b>> \o <<d>>
  OBVIOUS
<1> HIDE DEF S
<1>5. t \in Seq(S) /\ Len(t) = 3 /\ t[1] = a /\ t[2] = b /\ t[3] = d
  BY <1>1, <1>2, <1>3, <1>4, ConcatProperties
<1>6. \A i \in 1..3 : t[i] = <<a, b, d>>[i]
  BY <1>3, <1>5
<1>7. t = <<a, b, d>>
  BY <1>1, <1>2, <1>5, <1>6, SeqEqual
<1> QED
  BY <1>1, <1>4, <1>7, ConcatEmptySeq

\* Candidates without those that repeat one.
Listed(a, b, d) == <<a>> \o X!Unless(b, {a}) \o X!Unless(d, {a, b})

\* What a list of candidates holds.
LEMMA ListedIs ==
  ASSUME NEW a, NEW b, NEW d, NEW t, t = Listed(a, b, d)
  PROVE  /\ \E n \in Nat \ {0} : DOMAIN t = 1..n
         /\ \A k \in DOMAIN t : \A j \in 1..(k - 1) : t[j] \in {a, b, d}
<1>1. PICK u, v : u = X!Unless(b, {a}) /\ v = X!Unless(d, {a, b})
  OBVIOUS
<1>2. u = (IF b = a THEN <<>> ELSE <<b>>) /\ v = (IF d \in {a, b} THEN <<>> ELSE <<d>>)
  BY <1>1 DEF X!Unless
<1>3. PICK x : x = <<a>> \o u
  OBVIOUS
<1>4. t = x \o v
  BY <1>1, <1>3 DEF Listed
<1>5. x = IF b = a THEN <<a>> ELSE <<a, b>>
  BY <1>2, <1>3, PairJoined
<1>6. t = <<a>> \/ t = <<a, d>> \/ t = <<a, b>> \/ t = <<a, b, d>>
  BY <1>2, <1>4, <1>5, PairJoined, TripleJoined
<1>7. CASE t = <<a>>
  <2>1. DOMAIN t = 1..1 /\ t[1] = a
    BY <1>7
  <2> QED
    BY <2>1
<1>8. ASSUME NEW e \in {b, d}, t = <<a, e>>
      PROVE  DOMAIN t = 1..2 /\ t[1] = a /\ t[2] = e
  BY <1>8
<1>9. CASE t = <<a, b, d>>
  <2>1. DOMAIN t = 1..3 /\ t[1] = a /\ t[2] = b /\ t[3] = d
    BY <1>9
  <2> QED
    BY <2>1
<1>10. CASE t = <<a, b>> \/ t = <<a, d>>
  <2>1. DOMAIN t = 1..2 /\ t[1] \in {a, b, d} /\ t[2] \in {a, b, d}
    BY <1>8, <1>10
  <2> QED
    BY <2>1
<1> QED
  BY <1>6, <1>7, <1>9, <1>10

\* A list of candidates without those that repeat one: the first that fits is at
\* the head, or it is the last and no other fits.
LEMMA FirstThatFits ==
  ASSUME NEW a, NEW b, NEW d, NEW F, NEW t,
         t = Listed(a, b, d),
         NEW w, (w = a /\ a \in F) \/ (w = d /\ a \notin F /\ b \notin F /\ d \in F)
  PROVE  \E k \in DOMAIN t : t[k] = w /\ w \in F /\ \A j \in 1..(k - 1) : t[j] \notin F
<1>1. PICK u, v : u = X!Unless(b, {a}) /\ v = X!Unless(d, {a, b})
  OBVIOUS
<1>2. u = (IF b = a THEN <<>> ELSE <<b>>) /\ v = (IF d \in {a, b} THEN <<>> ELSE <<d>>)
  BY <1>1 DEF X!Unless
<1>3. t = (<<a>> \o u) \o v
  BY <1>1 DEF Listed
<1>4. <<a>> \o u = IF b = a THEN <<a>> ELSE <<a, b>>
  BY <1>2, PairJoined
<1>5. t = IF b = a THEN (IF d \in {a, b} THEN <<a>> ELSE <<a, d>>)
                   ELSE (IF d \in {a, b} THEN <<a, b>> ELSE <<a, b, d>>)
  <2>1. PICK x : x = <<a>> \o u
    OBVIOUS
  <2>2. t = x \o v /\ x = IF b = a THEN <<a>> ELSE <<a, b>>
    BY <1>3, <1>4, <2>1
  <2> QED
    BY <1>2, <2>2, PairJoined, TripleJoined
<1>6. CASE w = a /\ a \in F
  <2>1. 1 \in DOMAIN t /\ t[1] = a
    BY <1>5
  <2>2. 1..(1 - 1) = {}
    OBVIOUS
  <2> QED
    BY <1>6, <2>1, <2>2
<1>7. CASE w = d /\ a \notin F /\ b \notin F /\ d \in F
  <2>1. t = IF b = a THEN <<a, d>> ELSE <<a, b, d>>
    BY <1>5, <1>7
  <2>2. CASE b = a
    <3>1. t = <<a, d>>
      BY <2>1, <2>2
    <3>2. 2 \in DOMAIN t /\ t[2] = d /\ t[1] = a
      BY ONLY <3>1, PairIs, TripleIs
    <3>3. \A j \in 1..(2 - 1) : j = 1
      OBVIOUS
    <3> QED
      BY <1>7, <3>2, <3>3
  <2>3. CASE b # a
    <3>1. t = <<a, b, d>>
      BY <2>1, <2>3
    <3>2. 3 \in DOMAIN t /\ t[3] = d /\ t[2] = b /\ t[1] = a
      BY ONLY <3>1, PairIs, TripleIs
    <3>3. \A j \in 1..(3 - 1) : j = 1 \/ j = 2
      OBVIOUS
    <3> QED
      BY <1>7, <3>2, <3>3
  <2> QED
    BY <2>2, <2>3
<1> QED
  BY <1>6, <1>7

\* Two candidates are three of which the second repeats the first.
LEMMA TwoListed ==
  ASSUME NEW a, NEW d
  PROVE  <<a>> \o X!Unless(d, {a}) = Listed(a, a, d)
<1>1. X!Unless(a, {a}) = <<>> /\ {a, a} = {a}
  BY DEF X!Unless
<1>2. <<a>> \o <<>> = <<a>>
  BY PairJoined
<1> QED
  BY <1>1, <1>2 DEF Listed

-----------------------------------------------------------------------------
(* Calls by position *)

\* What WellSigned says of every method.
LEMMA Signed ==
  ASSUME NEW c \in Capabilities
  PROVE  /\ c.paths \in Seq(X!ToSet(c.paths)) /\ c.named \in Seq(X!ToSet(c.named))
         /\ X!ToSet(c.paths) \cap (BODY_NAMES \cup {"api_version", "version"}) = {}
         /\ BODY_NAMES \cap {"api_version", "version", "args", "kwargs"} = {}
         /\ "body" \in BODY_NAMES /\ "data" \in BODY_NAMES
         /\ X!NamesAll(c) \/ X!HidesPaths(c) \/ X!TakesInOrder(c)
BY SignatureAssumption DEF X!WellSigned

Api(c) == IF c.versioned /\ c.curated THEN {"api_version"} ELSE {}
KwargsFor(c, names) ==
  [n \in names \cup Api(c) |-> IF n \in Api(c) THEN "version"
                               ELSE IF X!HasBody(c) /\ n = "data" THEN "body" ELSE n]
BodyFirst(ordered) == <<"body">> \o ordered
BodyLast(ordered) == ordered \o <<"body">>
CallWith(c, args, names) == [args |-> args, kwargs |-> KwargsFor(c, names)]

\* The candidates, by the names the proofs have for them.
LEMMA FallbackIs ==
  ASSUME NEW c, NEW given, NEW ordered, ordered = X!Among(given, c.paths)
  PROVE  X!FallbackCalls(c, given) =
           IF X!HasBody(c)
             THEN Listed(CallWith(c, BodyFirst(ordered), {}),
                         CallWith(c, BodyLast(ordered), {}),
                         CallWith(c, <<>>, given \cup {"data"}))
             ELSE Listed(CallWith(c, ordered, {}), CallWith(c, ordered, {}),
                         CallWith(c, <<>>, given))
<1>1. PICK first, second, third, plain, byName :
        /\ first = CallWith(c, BodyFirst(ordered), {})
        /\ second = CallWith(c, BodyLast(ordered), {})
        /\ third = CallWith(c, <<>>, given \cup {"data"})
        /\ plain = CallWith(c, ordered, {}) /\ byName = CallWith(c, <<>>, given)
  OBVIOUS
<1>2. X!FallbackCalls(c, given) =
        IF X!HasBody(c)
          THEN <<first>> \o X!Unless(second, {first}) \o X!Unless(third, {first, second})
          ELSE <<plain>> \o X!Unless(byName, {plain})
  BY <1>1 DEF X!FallbackCalls, CallWith, KwargsFor, Api, BodyFirst, BodyLast
<1>3. <<plain>> \o X!Unless(byName, {plain}) = Listed(plain, plain, byName)
  BY TwoListed
<1> QED
  BY <1>1, <1>2, <1>3 DEF Listed

\* A method that takes its paths in order gets them in order.
LEMMA PlainKeeps ==
  ASSUME NEW c \in Capabilities, NEW given, Accepted(c, given), X!TakesInOrder(c),
         NEW call, call = CallWith(c, X!Among(given, c.paths), {})
  PROVE  X!Fits(c, call) /\ X!Keeps(c, given, call)
<1>1. /\ c.paths \in Seq(X!ToSet(c.paths)) /\ c.named \in Seq(X!ToSet(c.named))
      /\ X!ToSet(c.paths) \cap (BODY_NAMES \cup {"api_version", "version"}) = {}
      /\ BODY_NAMES \cap {"api_version", "version", "args", "kwargs"} = {}
      /\ "body" \in BODY_NAMES
  BY Signed
<1>2. /\ ~X!HasBody(c) /\ c.required = X!ToSet(c.paths) /\ Len(c.paths) <= Len(c.named)
      /\ c.versioned /\ c.curated => "api_version" \in X!NamesOf(c)
      /\ \A i \in DOMAIN c.named :
           IF i <= Len(c.paths)
             THEN /\ c.named[i].name \in X!ToSet(c.paths) => c.named[i].name = c.paths[i]
                  /\ c.named[i].name \notin BODY_NAMES \cup {"api_version"}
             ELSE c.named[i].default
  BY DEF X!TakesInOrder
<1>3. X!Among(given, c.paths) = c.paths
  <2>1. {c.paths[i] : i \in DOMAIN c.paths} \subseteq given
    BY <1>2 DEF Accepted, X!ToSet
  <2> QED
    BY <1>1, <2>1, AmongTakes
<1>4. call.args = c.paths /\ call.kwargs = [n \in Api(c) |-> "version"]
  BY <1>3 DEF CallWith, KwargsFor
<1>5. /\ DOMAIN c.paths = 1..Len(c.paths) /\ Len(c.paths) \in Nat
      /\ DOMAIN c.named = 1..Len(c.named) /\ Len(c.named) \in Nat
  BY <1>1, LenProperties
<1>6. Api(c) \subseteq X!NamesOf(c) /\ Api(c) \subseteq {"api_version"}
  BY <1>2 DEF Api
<1>7. X!Fits(c, call)
  <2>1. Len(call.args) <= Len(c.named)
    BY <1>2, <1>4
  <2>2. \A n \in DOMAIN call.kwargs : n \in X!NamesOf(c)
    BY <1>4, <1>6
  <2>3. \A i \in DOMAIN c.named :
          IF i <= Len(call.args) THEN c.named[i].name \notin DOMAIN call.kwargs
                                 ELSE c.named[i].default
    BY <1>2, <1>4, <1>6
  <2> QED
    BY <2>1, <2>2, <2>3 DEF X!Fits
<1>8. X!Received(c, call) = {<<c.named[i].name, c.paths[i]>> : i \in DOMAIN c.paths}
                              \cup {<<n, "version">> : n \in Api(c)}
  <2>1. X!ByPosition(c, call) = DOMAIN c.paths
    BY <1>2, <1>4, <1>5 DEF X!ByPosition
  <2>2. DOMAIN call.kwargs \cap X!NamesOf(c) = Api(c)
    BY <1>4, <1>6
  <2>3. \A n \in Api(c) : call.kwargs[n] = "version"
    BY <1>4
  <2> QED
    BY <1>4, <2>1, <2>2, <2>3 DEF X!Received
<1>9. X!Keeps(c, given, call)
  <2> DEFINE R == X!Received(c, call)
             H == X!Hidden(c, call)
  <2>1. given \cup (IF X!HasBody(c) THEN {"body"} ELSE {}) \subseteq {r[2] : r \in R} \cup H
    <3>1. ASSUME NEW g \in given PROVE g \in {r[2] : r \in R}
      <4>1. PICK i \in DOMAIN c.paths : g = c.paths[i]
        BY DEF Accepted, X!ToSet
      <4>2. PICK r : r = <<c.named[i].name, c.paths[i]>>
        OBVIOUS
      <4>3. r \in R /\ r[2] = g
        BY <1>8, <4>1, <4>2
      <4> HIDE DEF R
      <4> QED
        BY <4>3
    <3> HIDE DEF R, H
    <3> QED
      BY <1>2, <3>1
  <2>2. ASSUME NEW r \in R
        PROVE  /\ r[1] \in BODY_NAMES <=> r[2] = "body"
               /\ r[1] = "api_version" <=> r[2] = "version"
               /\ r[1] \in X!ToSet(c.paths) => r[2] = r[1]
    <3>1. CASE r \in {<<n, "version">> : n \in Api(c)}
      <4>1. r[1] = "api_version" /\ r[2] = "version"
        BY <1>6, <3>1
      <4> QED
        BY <1>1, <4>1
    <3>2. CASE r \in {<<c.named[i].name, c.paths[i]>> : i \in DOMAIN c.paths}
      <4>1. PICK i \in DOMAIN c.paths : r[1] = c.named[i].name /\ r[2] = c.paths[i]
        BY <3>2
      <4>2. /\ r[1] \in X!ToSet(c.paths) => r[1] = r[2]
            /\ r[1] \notin BODY_NAMES /\ r[1] # "api_version"
        BY <1>2, <1>5, <4>1
      <4>3. r[2] \in X!ToSet(c.paths)
        BY <4>1 DEF X!ToSet
      <4> QED
        BY <1>1, <4>2, <4>3
    <3> QED
      BY <1>8, <3>1, <3>2
  <2> QED
    BY <2>1, <2>2 DEF X!Keeps
<1> QED
  BY <1>7, <1>9

\* The body before or behind the paths.
LEMMA BodyPut ==
  ASSUME NEW D, NEW ordered \in Seq(D), NEW u,
         u = BodyFirst(ordered) \/ u = BodyLast(ordered)
  PROVE  /\ Len(u) \in Nat \ {0} /\ DOMAIN u = 1..Len(u)
         /\ \E i \in DOMAIN u : u[i] = "body"
         /\ \A k \in DOMAIN ordered : \E i \in DOMAIN u : u[i] = ordered[k]
         /\ u = BodyFirst(ordered) =>
              /\ u[1] = "body"
              /\ \A k \in DOMAIN ordered : \E i \in DOMAIN u \ {1} : u[i] = ordered[k]
<1> DEFINE E == D \cup {"body"}
<1>1. ordered \in Seq(E)
  <2>1. Len(ordered) \in Nat /\ ordered \in [1..Len(ordered) -> D]
    BY LenProperties
  <2>2. ordered \in [1..Len(ordered) -> E]
    BY <2>1
  <2> HIDE DEF E
  <2> QED
    BY <2>1, <2>2, FunctionIsSeq
<1>2. PICK b : b = <<"body">> /\ b \in Seq(E) /\ Len(b) = 1 /\ b[1] = "body"
  <2>1. "body" \in E
    OBVIOUS
  <2> HIDE DEF E
  <2>2. <<"body">> \in Seq(E)
    BY <2>1
  <2>3. Len(<<"body">>) = 1 /\ <<"body">>[1] = "body"
    OBVIOUS
  <2> QED
    BY <2>2, <2>3
<1> HIDE DEF E
<1>3. Len(ordered) \in Nat /\ DOMAIN ordered = 1..Len(ordered)
  BY <1>1, LenProperties
<1>4. CASE u = BodyFirst(ordered)
  <2>1. u = b \o ordered
    BY <1>2, <1>4 DEF BodyFirst
  <2>2. /\ u \in Seq(E) /\ Len(u) = 1 + Len(ordered)
        /\ \A i \in 1..(1 + Len(ordered)) : u[i] = IF i <= 1 THEN b[i] ELSE ordered[i - 1]
    BY <1>1, <1>2, <2>1, ConcatProperties
  <2>3. DOMAIN u = 1..Len(u)
    BY <2>2, LenProperties
  <2>4. u[1] = "body" /\ 1 \in DOMAIN u
    BY <1>2, <1>3, <2>2, <2>3
  <2>5. \A i \in DOMAIN ordered : i + 1 \in DOMAIN u \ {1} /\ u[i + 1] = ordered[i]
    <3> SUFFICES ASSUME NEW i \in DOMAIN ordered
                 PROVE  i + 1 \in DOMAIN u \ {1} /\ u[i + 1] = ordered[i]
      OBVIOUS
    <3>1. i + 1 \in 1..(1 + Len(ordered)) /\ ~(i + 1 <= 1) /\ (i + 1) - 1 = i
      BY <1>3
    <3> QED
      BY <2>2, <2>3, <3>1
  <2> QED
    BY <1>3, <2>2, <2>3, <2>4, <2>5
<1>5. CASE u = BodyLast(ordered) /\ u # BodyFirst(ordered)
  <2>1. u = ordered \o b
    BY <1>2, <1>5 DEF BodyLast
  <2>2. /\ u \in Seq(E) /\ Len(u) = Len(ordered) + 1
        /\ \A i \in 1..(Len(ordered) + 1) :
             u[i] = IF i <= Len(ordered) THEN ordered[i] ELSE b[i - Len(ordered)]
    BY <1>1, <1>2, <2>1, ConcatProperties
  <2>3. DOMAIN u = 1..Len(u)
    BY <2>2, LenProperties
  <2>4. Len(ordered) + 1 \in DOMAIN u /\ u[Len(ordered) + 1] = "body"
    <3>1. Len(ordered) + 1 \in 1..(Len(ordered) + 1) /\ ~(Len(ordered) + 1 <= Len(ordered))
          /\ (Len(ordered) + 1) - Len(ordered) = 1
      BY <1>3
    <3> QED
      BY <1>2, <2>2, <2>3, <3>1
  <2>5. \A i \in DOMAIN ordered : i \in DOMAIN u /\ u[i] = ordered[i]
    BY <1>3, <2>2, <2>3
  <2> QED
    BY <1>3, <1>5, <2>2, <2>3, <2>4, <2>5
<1> QED
  BY <1>4, <1>5

\* A method that names nothing keeps what it is given, if it takes the call at all.
LEMMA HiddenKeeps ==
  ASSUME NEW c \in Capabilities, NEW given, c.named = <<>>, "kwargs" \in c.hides,
         NEW call, Len(call.args) \in Nat, DOMAIN call.args = 1..Len(call.args)
  PROVE  /\ X!Fits(c, call) <=> Len(call.args) = 0 \/ "args" \in c.hides
         /\ (\A x \in given \cup (IF X!HasBody(c) THEN {"body"} ELSE {}) :
               \/ \E i \in DOMAIN call.args : call.args[i] = x
               \/ \E n \in DOMAIN call.kwargs : call.kwargs[n] = x)
              => X!Keeps(c, given, call)
<1>1. DOMAIN c.named = {} /\ Len(c.named) = 0 /\ X!NamesOf(c) = {}
  BY DEF X!NamesOf, X!ToSet
<1>2. X!ByPosition(c, call) = {}
  BY <1>1 DEF X!ByPosition
<1>3. X!Received(c, call) = {}
  <2>1. {<<c.named[i].name, call.args[i]>> : i \in X!ByPosition(c, call)} = {}
    BY <1>2
  <2>2. {<<n, call.kwargs[n]>> : n \in DOMAIN call.kwargs \cap X!NamesOf(c)} = {}
    BY <1>1
  <2> QED
    BY <2>1, <2>2 DEF X!Received
<1>4. X!Hidden(c, call) = {call.args[i] : i \in DOMAIN call.args}
                            \cup {call.kwargs[n] : n \in DOMAIN call.kwargs}
  BY <1>1, <1>2 DEF X!Hidden
<1>5. X!Fits(c, call) <=> Len(call.args) = 0 \/ "args" \in c.hides
  BY <1>1 DEF X!Fits
<1>6. ASSUME \A x \in given \cup (IF X!HasBody(c) THEN {"body"} ELSE {}) :
               \/ \E i \in DOMAIN call.args : call.args[i] = x
               \/ \E n \in DOMAIN call.kwargs : call.kwargs[n] = x
      PROVE  X!Keeps(c, given, call)
  <2>1. given \cup (IF X!HasBody(c) THEN {"body"} ELSE {}) \subseteq X!Hidden(c, call)
    BY <1>4, <1>6
  <2> QED
    BY <1>3, <2>1 DEF X!Keeps
<1> QED
  BY <1>5, <1>6

\* A method that names its body alone gets it first, and the paths behind it.
LEMMA BodyFirstKeeps ==
  ASSUME NEW c \in Capabilities, NEW given, Accepted(c, given), X!HasBody(c),
         "args" \in c.hides, "kwargs" \in c.hides,
         Len(c.named) = 1, c.named[1].name \in BODY_NAMES,
         NEW call, call = CallWith(c, BodyFirst(X!Among(given, c.paths)), {})
  PROVE  X!Fits(c, call) /\ X!Keeps(c, given, call)
<1>1. /\ c.paths \in Seq(X!ToSet(c.paths)) /\ c.named \in Seq(X!ToSet(c.named))
      /\ X!ToSet(c.paths) \cap (BODY_NAMES \cup {"api_version", "version"}) = {}
      /\ BODY_NAMES \cap {"api_version", "version", "args", "kwargs"} = {}
  BY Signed
<1>2. PICK ordered, u : /\ ordered = X!Among(given, c.paths) /\ u = BodyFirst(ordered)
  OBVIOUS
<1>3. /\ ordered \in Seq(X!ToSet(c.paths))
      /\ {ordered[i] : i \in DOMAIN ordered} = given
  <2>1. /\ ordered \in Seq(X!ToSet(c.paths))
        /\ {ordered[i] : i \in DOMAIN ordered} = given \cap {c.paths[i] : i \in DOMAIN c.paths}
    BY <1>1, <1>2, AmongTakes
  <2> QED
    BY <2>1 DEF Accepted, X!ToSet
<1>4. /\ Len(u) \in Nat \ {0} /\ DOMAIN u = 1..Len(u) /\ u[1] = "body"
      /\ \A x \in given : \E i \in DOMAIN u \ {1} : u[i] = x
  <2>1. /\ Len(u) \in Nat \ {0} /\ DOMAIN u = 1..Len(u) /\ u[1] = "body"
        /\ \A k \in DOMAIN ordered : \E i \in DOMAIN u \ {1} : u[i] = ordered[k]
    BY <1>2, <1>3, BodyPut
  <2> QED
    BY <1>3, <2>1
<1>5. call.args = u /\ call.kwargs = [n \in Api(c) |-> "version"]
  BY <1>2 DEF CallWith, KwargsFor
<1>6. DOMAIN c.named = {1}
  BY <1>1, LenProperties
<1>7. X!NamesOf(c) = {c.named[1].name}
  BY <1>6 DEF X!NamesOf, X!ToSet
<1>8. Api(c) \subseteq {"api_version"} /\ Api(c) \cap X!NamesOf(c) = {}
  BY <1>1, <1>7 DEF Api
<1>9. X!Fits(c, call)
  <2>1. \A i \in DOMAIN c.named : i <= Len(call.args) /\ c.named[i].name \notin DOMAIN call.kwargs
    BY <1>4, <1>5, <1>6, <1>7, <1>8
  <2> QED
    BY <2>1 DEF X!Fits
<1>10. X!ByPosition(c, call) = {1}
  BY <1>4, <1>5 DEF X!ByPosition
<1>11. X!Received(c, call) = {<<c.named[1].name, "body">>}
  <2>1. {<<n, call.kwargs[n]>> : n \in DOMAIN call.kwargs \cap X!NamesOf(c)} = {}
    BY <1>5, <1>8
  <2>2. {<<c.named[i].name, call.args[i]>> : i \in X!ByPosition(c, call)}
          = {<<c.named[1].name, "body">>}
    BY <1>4, <1>5, <1>10
  <2> QED
    BY <2>1, <2>2 DEF X!Received
<1>12. given \subseteq X!Hidden(c, call)
  <2>1. {call.args[i] : i \in DOMAIN call.args \ {1}} \subseteq X!Hidden(c, call)
    BY <1>10 DEF X!Hidden
  <2> QED
    BY <1>4, <1>5, <2>1
<1>13. X!Keeps(c, given, call)
  <2> DEFINE R == X!Received(c, call)
             H == X!Hidden(c, call)
  <2>1. "body" \in {r[2] : r \in R}
    <3>1. PICK r : r = <<c.named[1].name, "body">>
      OBVIOUS
    <3>2. r \in R /\ r[2] = "body"
      BY <1>11, <3>1
    <3> HIDE DEF R
    <3> QED
      BY <3>2
  <2>2. given \cup (IF X!HasBody(c) THEN {"body"} ELSE {}) \subseteq {r[2] : r \in R} \cup H
    <3> HIDE DEF R
    <3> QED
      BY <1>12, <2>1
  <2>3. \A r \in R : /\ r[1] \in BODY_NAMES <=> r[2] = "body"
                     /\ r[1] = "api_version" <=> r[2] = "version"
                     /\ r[1] \in X!ToSet(c.paths) => r[2] = r[1]
    BY <1>1, <1>11
  <2> QED
    BY <2>2, <2>3 DEF X!Keeps
<1> QED
  BY <1>9, <1>13

\* A method that names all it asks for can be called by name.
LEMMA NamesAllBinds ==
  ASSUME NEW c \in Capabilities, NEW given, Accepted(c, given), X!NamesAll(c)
  PROVE  /\ c.named # <<>> /\ X!Bindable(c, given)
         /\ X!HasBody(c) => \E i \in DOMAIN c.named : c.named[i].name \in BODY_NAMES
         /\ \A i \in DOMAIN c.named :
              X!MayTakeBody(c, given, c.named[i]) => c.named[i].name \in BODY_NAMES
<1> DEFINE P == X!Params(c)
           Bound == {i \in DOMAIN P : \/ P[i].name \in given
                                      \/ X!IsVersion(c, P[i])
                                      \/ X!TakesBody(c, given, i)}
<1>1. /\ X!ToSet(c.paths) \cap (BODY_NAMES \cup {"api_version", "version"}) = {}
      /\ BODY_NAMES \cap {"api_version", "version", "args", "kwargs"} = {}
  BY Signed
<1>2. /\ c.named # <<>> /\ X!ToSet(c.paths) \subseteq X!NamesOf(c)
      /\ X!HasBody(c) => X!NamesOf(c) \cap BODY_NAMES # {}
      /\ \A i \in DOMAIN c.named :
           \/ c.named[i].default \/ X!IsVersion(c, c.named[i])
           \/ c.named[i].name \in c.required
           \/ X!HasBody(c) /\ c.named[i].name \in BODY_NAMES
  BY DEF X!NamesAll, X!ToSet
<1>3. /\ DOMAIN c.named \subseteq DOMAIN P
      /\ \A i \in DOMAIN c.named : P[i] = c.named[i]
  BY ParamsAre
<1>4. DOMAIN X!Keywords(c, given) = {P[i].name : i \in Bound}
  BY DEF X!Keywords
<1>5. given \subseteq X!ToSet(c.paths) /\ c.required \subseteq given
  BY DEF Accepted
<1>6. X!NamesOf(c) = {c.named[i].name : i \in DOMAIN c.named}
  BY DEF X!NamesOf, X!ToSet
<1> HIDE DEF P
<1>7. ASSUME NEW i \in DOMAIN c.named, X!HasBody(c), c.named[i].name \in BODY_NAMES
      PROVE  X!TakesBody(c, given, i) /\ i \in DOMAIN P
  <2>1. X!MayTakeBody(c, given, c.named[i])
    BY <1>1, <1>5, <1>7 DEF X!MayTakeBody, X!IsVersion
  <2> QED
    BY <1>3, <1>7, <2>1 DEF X!TakesBody, P
<1>8. ASSUME NEW i \in DOMAIN c.named, ~c.named[i].default
      PROVE  c.named[i].name \in DOMAIN X!Keywords(c, given)
  <2>1. i \in Bound
    BY <1>2, <1>3, <1>5, <1>7, <1>8
  <2> QED
    BY <1>3, <1>4, <2>1
<1>9. given \subseteq DOMAIN X!Keywords(c, given)
  <2> SUFFICES ASSUME NEW g \in given PROVE g \in DOMAIN X!Keywords(c, given)
    OBVIOUS
  <2>1. PICK i \in DOMAIN c.named : g = c.named[i].name
    BY <1>2, <1>5, <1>6
  <2>2. i \in Bound
    BY <1>3, <2>1
  <2> QED
    BY <1>3, <1>4, <2>1, <2>2
<1>10. X!HasBody(c) => \E i \in DOMAIN c.named : c.named[i].name \in BODY_NAMES
  BY <1>2, <1>6
<1>11. X!HasBody(c) => \E i \in DOMAIN P : X!TakesBody(c, given, i)
  BY <1>7, <1>10
<1>12. X!Bindable(c, given)
  <2>1. \A p \in X!ToSet(c.named) : p.default \/ p.name \in DOMAIN X!Keywords(c, given)
    BY <1>8 DEF X!ToSet
  <2> QED
    BY <1>9, <1>11, <2>1 DEF X!Bindable, P
<1>13. \A i \in DOMAIN c.named :
         X!MayTakeBody(c, given, c.named[i]) => c.named[i].name \in BODY_NAMES
  BY <1>2, <1>5 DEF X!MayTakeBody
<1> QED
  BY <1>2, <1>10, <1>12, <1>13

\* The calls execute tries: by name if the signature says how, else by position.
CallsOf(c, given) ==
  IF X!NamedCalls(c, given) # <<>> THEN X!NamedCalls(c, given) ELSE X!FallbackCalls(c, given)

\* They are finitely many, and there is one.
LEMMA CallsListed ==
  ASSUME NEW c, NEW given
  PROVE  \E n \in Nat \ {0} : DOMAIN CallsOf(c, given) = 1..n
<1>1. CASE X!NamedCalls(c, given) # <<>>
  <2>1. PICK x : X!NamedCalls(c, given) = <<x>>
    BY <1>1 DEF X!NamedCalls
  <2>2. DOMAIN <<x>> = 1..1
    OBVIOUS
  <2> QED
    BY <1>1, <2>1, <2>2 DEF CallsOf
<1>2. CASE X!NamedCalls(c, given) = <<>>
  <2>1. PICK ordered : ordered = X!Among(given, c.paths)
    OBVIOUS
  <2>2. PICK a, b, d : X!FallbackCalls(c, given) = Listed(a, b, d)
    <3>1. X!HasBody(c) => X!FallbackCalls(c, given) =
                            Listed(CallWith(c, BodyFirst(ordered), {}),
                                   CallWith(c, BodyLast(ordered), {}),
                                   CallWith(c, <<>>, given \cup {"data"}))
      BY <2>1, FallbackIs
    <3>2. ~X!HasBody(c) => X!FallbackCalls(c, given) =
                             Listed(CallWith(c, ordered, {}), CallWith(c, ordered, {}),
                                    CallWith(c, <<>>, given))
      BY <2>1, FallbackIs
    <3> QED
      BY <3>1, <3>2
  <2>3. \E n \in Nat \ {0} : DOMAIN Listed(a, b, d) = 1..n
    BY ListedIs
  <2> QED
    BY <1>2, <2>2, <2>3 DEF CallsOf
<1> QED
  BY <1>1, <1>2

\* The first call that a method takes keeps its arguments.
FirstKeeps(c, given, list) ==
  \E k \in DOMAIN list :
    /\ X!Fits(c, list[k]) /\ X!Keeps(c, given, list[k])
    /\ \A j \in 1..(k - 1) : ~X!Fits(c, list[j])

\* So it does when it is the first of the list, or the last and the others do not fit.
LEMMA FirstOfListed ==
  ASSUME NEW c, NEW given, NEW a, NEW b, NEW d,
         \/ X!Fits(c, a) /\ X!Keeps(c, given, a)
         \/ ~X!Fits(c, a) /\ ~X!Fits(c, b) /\ X!Fits(c, d) /\ X!Keeps(c, given, d)
  PROVE  FirstKeeps(c, given, Listed(a, b, d))
<1> DEFINE F == {x \in {a, b, d} : X!Fits(c, x)}
<1>1. PICK t : t = Listed(a, b, d)
  OBVIOUS
<1>2. PICK w : /\ (w = a /\ a \in F) \/ (w = d /\ a \notin F /\ b \notin F /\ d \in F)
               /\ X!Fits(c, w) /\ X!Keeps(c, given, w)
  OBVIOUS
<1>3. \A x : x \in {a, b, d} /\ x \notin F => ~X!Fits(c, x)
  OBVIOUS
<1> HIDE DEF F
<1>4. PICK k \in DOMAIN t : t[k] = w /\ \A j \in 1..(k - 1) : t[j] \notin F
  BY <1>1, <1>2, FirstThatFits
<1>5. \A j \in 1..(k - 1) : t[j] \in {a, b, d}
  BY <1>1, <1>4, ListedIs
<1> QED
  BY <1>1, <1>2, <1>3, <1>4, <1>5 DEF FirstKeeps

\* A method of the catalog gets its arguments whole, whatever a caller leaves out.
LEMMA SomeCallKeeps ==
  ASSUME NEW c \in Capabilities, NEW given, Accepted(c, given)
  PROVE  FirstKeeps(c, given, CallsOf(c, given))
<1>1. /\ c.paths \in Seq(X!ToSet(c.paths)) /\ c.named \in Seq(X!ToSet(c.named))
      /\ X!ToSet(c.paths) \cap (BODY_NAMES \cup {"api_version", "version"}) = {}
      /\ BODY_NAMES \cap {"api_version", "version", "args", "kwargs"} = {}
      /\ "body" \in BODY_NAMES /\ "data" \in BODY_NAMES
      /\ X!NamesAll(c) \/ X!HidesPaths(c) \/ X!TakesInOrder(c)
  BY Signed
<1>2. PICK ordered : ordered = X!Among(given, c.paths)
  OBVIOUS
<1>3. /\ ordered \in Seq(X!ToSet(c.paths))
      /\ {ordered[i] : i \in DOMAIN ordered} = given
  <2>1. /\ ordered \in Seq(X!ToSet(c.paths))
        /\ {ordered[i] : i \in DOMAIN ordered} = given \cap {c.paths[i] : i \in DOMAIN c.paths}
    <3>1. c.paths \in Seq(X!ToSet(c.paths))
      BY <1>1
    <3> QED
      BY ONLY <1>2, <3>1, AmongTakes
  <2> QED
    BY <2>1 DEF Accepted, X!ToSet
<1>4. Len(ordered) \in Nat /\ DOMAIN ordered = 1..Len(ordered)
  BY <1>3, LenProperties
<1>5. ASSUME c.named # <<>>, X!Bindable(c, given)
      PROVE  FirstKeeps(c, given, CallsOf(c, given))
  <2>1. /\ X!HasBody(c) => \E i \in DOMAIN c.named : c.named[i].name \in BODY_NAMES
        /\ \A i \in DOMAIN c.named :
             X!MayTakeBody(c, given, c.named[i]) => c.named[i].name \in BODY_NAMES
    <3>1. CASE X!NamesAll(c)
      BY <3>1, NamesAllBinds
    <3>2. CASE X!HidesPaths(c)
      <4>1. Len(c.named) = 1 /\ c.named[1].name \in BODY_NAMES
        BY <1>5, <3>2 DEF X!HidesPaths
      <4>2. DOMAIN c.named = {1}
        BY <1>1, <4>1, LenProperties
      <4> QED
        BY <4>1, <4>2
    <3>3. CASE X!TakesInOrder(c)
      BY <3>3 DEF X!TakesInOrder, X!MayTakeBody
    <3> QED
      BY <1>1, <3>1, <3>2, <3>3
  <2>2. PICK call : call = [args |-> <<>>, kwargs |-> X!Keywords(c, given)]
    OBVIOUS
  <2>3. X!Fits(c, call) /\ X!Keeps(c, given, call)
    BY <1>5, <2>1, <2>2, NamedCallKeeps
  <2>4. CallsOf(c, given) = <<call>>
    BY <1>5, <2>2 DEF CallsOf, X!NamedCalls
  <2>5. 1 \in DOMAIN <<call>> /\ <<call>>[1] = call /\ 1..(1 - 1) = {}
    OBVIOUS
  <2> QED
    BY <2>3, <2>4, <2>5 DEF FirstKeeps
<1>6. ASSUME ~(c.named # <<>> /\ X!Bindable(c, given))
      PROVE  FirstKeeps(c, given, CallsOf(c, given))
  <2>1. CallsOf(c, given) = X!FallbackCalls(c, given)
    BY <1>6 DEF CallsOf, X!NamedCalls
  <2> DEFINE first == CallWith(c, BodyFirst(ordered), {})
             second == CallWith(c, BodyLast(ordered), {})
             third == CallWith(c, <<>>, given \cup {"data"})
             plain == CallWith(c, ordered, {})
             byName == CallWith(c, <<>>, given)
  <2>2. X!HasBody(c) => CallsOf(c, given) = Listed(first, second, third)
    BY <1>2, <2>1, FallbackIs
  <2>3. ~X!HasBody(c) => CallsOf(c, given) = Listed(plain, plain, byName)
    BY <1>2, <2>1, FallbackIs
  <2>4. CASE X!NamesAll(c)
    BY <1>6, <2>4, NamesAllBinds
  <2>5. CASE X!TakesInOrder(c)
    <3>1. X!Fits(c, plain) /\ X!Keeps(c, given, plain)
      BY <1>2, <2>5, PlainKeeps
    <3>2. ~X!HasBody(c)
      BY <2>5 DEF X!TakesInOrder
    <3> HIDE DEF plain, byName
    <3> QED
      BY <2>3, <3>1, <3>2, FirstOfListed
  <2>6. CASE X!HidesPaths(c) /\ c.named # <<>>
    <3>1. /\ X!HasBody(c) /\ "args" \in c.hides /\ "kwargs" \in c.hides
          /\ Len(c.named) = 1 /\ c.named[1].name \in BODY_NAMES
      BY <2>6 DEF X!HidesPaths
    <3>2. X!Fits(c, first) /\ X!Keeps(c, given, first)
      BY <1>2, <3>1, BodyFirstKeeps
    <3> HIDE DEF first, second, third
    <3> QED
      BY <2>2, <3>1, <3>2, FirstOfListed
  <2>7. CASE X!HidesPaths(c) /\ c.named = <<>> /\ ~X!HasBody(c)
    <3>1. "kwargs" \in c.hides
      BY <2>7 DEF X!HidesPaths
    <3>2. /\ X!Fits(c, plain) <=> Len(ordered) = 0 \/ "args" \in c.hides
          /\ X!Keeps(c, given, plain)
      <4>1. plain.args = ordered
        BY DEF CallWith
      <4>2. \A x \in given : \E i \in DOMAIN plain.args : plain.args[i] = x
        BY <1>3, <4>1
      <4> HIDE DEF plain
      <4> QED
        BY <1>4, <2>7, <3>1, <4>1, <4>2, HiddenKeeps
    <3>3. X!Fits(c, byName) /\ X!Keeps(c, given, byName)
      <4>1. byName.args = <<>> /\ byName.kwargs = KwargsFor(c, given)
        BY DEF CallWith
      <4>2. \A x \in given : x \in DOMAIN byName.kwargs /\ byName.kwargs[x] = x
        BY <1>1, <2>7, <4>1 DEF KwargsFor, Api, Accepted
      <4>3. Len(<<>>) = 0 /\ DOMAIN <<>> = 1..0
        OBVIOUS
      <4> HIDE DEF byName
      <4> QED
        BY <2>7, <3>1, <4>1, <4>2, <4>3, HiddenKeeps
    <3> HIDE DEF plain, byName
    <3> QED
      BY <2>3, <2>7, <3>2, <3>3, FirstOfListed
  <2>8. CASE X!HidesPaths(c) /\ c.named = <<>> /\ X!HasBody(c)
    <3>1. "kwargs" \in c.hides
      BY <2>8 DEF X!HidesPaths
    <3>2. PICK u, v : u = BodyFirst(ordered) /\ v = BodyLast(ordered)
      OBVIOUS
    <3>3. /\ Len(u) \in Nat \ {0} /\ DOMAIN u = 1..Len(u)
          /\ \E i \in DOMAIN u : u[i] = "body"
          /\ \A k \in DOMAIN ordered : \E i \in DOMAIN u : u[i] = ordered[k]
      BY <1>3, <3>2, BodyPut
    <3>4. /\ Len(v) \in Nat \ {0} /\ DOMAIN v = 1..Len(v)
      BY <1>3, <3>2, BodyPut
    <3>5. first.args = u /\ second.args = v
      BY <3>2 DEF CallWith
    <3>6. /\ X!Fits(c, first) <=> "args" \in c.hides
          /\ X!Keeps(c, given, first)
      <4>1. \A x \in given \cup {"body"} : \E i \in DOMAIN first.args : first.args[i] = x
        BY <1>3, <3>3, <3>5
      <4> HIDE DEF first
      <4> QED
        BY <2>8, <3>1, <3>3, <3>5, <4>1, HiddenKeeps
    <3>7. X!Fits(c, second) <=> "args" \in c.hides
      <4> HIDE DEF second
      <4> QED
        BY <2>8, <3>1, <3>4, <3>5, HiddenKeeps
    <3>8. X!Fits(c, third) /\ X!Keeps(c, given, third)
      <4>1. third.args = <<>> /\ third.kwargs = KwargsFor(c, given \cup {"data"})
        BY DEF CallWith
      <4>2. \A x \in given : x \in DOMAIN third.kwargs /\ third.kwargs[x] = x
        BY <1>1, <4>1 DEF KwargsFor, Api, Accepted
      <4>3. "data" \in DOMAIN third.kwargs /\ third.kwargs["data"] = "body"
        BY <1>1, <2>8, <4>1 DEF KwargsFor, Api
      <4>4. Len(<<>>) = 0 /\ DOMAIN <<>> = 1..0
        OBVIOUS
      <4> HIDE DEF third
      <4> QED
        BY <2>8, <3>1, <4>1, <4>2, <4>3, <4>4, HiddenKeeps
    <3> HIDE DEF first, second, third
    <3> QED
      BY <2>2, <2>8, <3>6, <3>7, <3>8, FirstOfListed
  <2> QED
    BY <1>1, <2>4, <2>5, <2>6, <2>7, <2>8
<1> QED
  BY <1>5, <1>6

\* A call that is bound has candidates, and of them the first that fits keeps what
\* it was given.
LEMMA BindKeeps ==
  ASSUME NEW c \in Capabilities, NEW given, NEW blank, NEW body,
         X!Bind(c, given, blank, body)
  PROVE  /\ Len(candidates') \in Nat \ {0}
         /\ ArgumentsKept'
<1>1. Accepted(c, given)
  BY DEF X!Bind, X!PathsAccepted, Accepted
<1>2. PICK list : list = CallsOf(c, given)
  OBVIOUS
<1>3. candidates' = [k \in DOMAIN list |->
                       [fits |-> X!Fits(c, list[k]), keeps |-> X!Keeps(c, given, list[k])]]
  BY <1>2 DEF X!Bind, CallsOf
<1>4. PICK n \in Nat \ {0} : DOMAIN list = 1..n
  BY <1>2, CallsListed
<1>5. Len(candidates') = n
  <2> DEFINE S == {candidates'[k] : k \in 1..n}
  <2>1. candidates' \in [1..n -> S]
    BY <1>3, <1>4
  <2> HIDE DEF S
  <2> QED
    BY <2>1, FunctionIsSeq
<1>6. PICK k \in DOMAIN list :
        /\ X!Fits(c, list[k]) /\ X!Keeps(c, given, list[k])
        /\ \A j \in 1..(k - 1) : ~X!Fits(c, list[j])
  BY <1>1, <1>2, SomeCallKeeps DEF FirstKeeps
<1>7. k \in DOMAIN candidates' /\ candidates'[k].fits /\ candidates'[k].keeps
  BY <1>3, <1>6
<1>8. \A j \in 1..(k - 1) : ~candidates'[j].fits
  <2> SUFFICES ASSUME NEW j \in 1..(k - 1) PROVE ~candidates'[j].fits
    OBVIOUS
  <2>1. j \in DOMAIN list
    BY <1>4
  <2>2. candidates'[j].fits = X!Fits(c, list[j])
    BY <1>3, <2>1
  <2> QED
    BY <1>6, <2>2
<1> QED
  BY <1>4, <1>5, <1>7, <1>8 DEF ArgumentsKept, X!ArgumentsKept

\* Valid arguments reach the SDK whole: some candidate is one that Python accepts,
\* and the first that it accepts gives every path and the body to the parameter
\* they are meant for, whatever capabilities a catalog has, if their signatures
\* are WellSigned.
THEOREM ArgumentsReachSdk == ToolSpec => []ArgumentsKept
<1>1. ToolInit => ArgumentsKept
  BY DEF ToolInit, X!ExecutorInit, ArgumentsKept, X!ArgumentsKept
<1>2. ArgumentsKept /\ [ToolNext]_toolVars => ArgumentsKept'
  <2> SUFFICES ASSUME ArgumentsKept, [ToolNext]_toolVars PROVE ArgumentsKept'
    OBVIOUS
  <2>n. running' # "trying" => ArgumentsKept'
    BY DEF ArgumentsKept, X!ArgumentsKept
  <2>u. running' = running /\ candidates' = candidates => ArgumentsKept'
    BY DEF ArgumentsKept, X!ArgumentsKept
  <2>e. \A o : X!Ends(o) => ArgumentsKept'
    BY <2>n DEF X!Ends
  <2>1. CASE Ask
    <3>1. CASE op = "capability" /\ X!UnknownCapability
      BY <2>e, <3>1 DEF X!UnknownCapability
    <3>2. ASSUME NEW c \in Capabilities, NEW a, X!Refuse(c, a.given, a.blank, a.body)
          PROVE  ArgumentsKept'
      BY <2>e, <3>2 DEF X!Refuse
    <3>3. ASSUME NEW c \in Capabilities, NEW a, X!Bind(c, a.given, a.blank, a.body)
          PROVE  ArgumentsKept'
      BY <3>3, BindKeeps
    <3> QED
      BY <2>1, <3>1, <3>2, <3>3 DEF Ask
  <2>2. CASE Invoke
    <3>1. ASSUME NEW r \in X!Results, NEW t \in BOOLEAN, X!InvokeReturned(r, t)
          PROVE  ArgumentsKept'
      <4>1. UNCHANGED X!executor \/ \E o : X!Ends(o)
        BY <3>1 DEF X!InvokeReturned
      <4> QED
        BY <2>e, <2>u, <4>1 DEF X!executor
    <3>2. CASE X!TryNext \/ UNCHANGED X!executor
      BY <2>u, <3>2 DEF X!TryNext, X!executor
    <3> QED
      BY <2>2, <3>1, <3>2 DEF Invoke, X!Invoking
  <2>3. CASE Take
    BY <2>3, <2>n DEF Take, TakeList, TakeNote, TakeRow, TakeName, TakeException, Taken
  <2>4. CASE Alone \/ UNCHANGED toolVars
    BY <2>4, <2>u DEF Alone, toolVars, execution
  <2> QED
    BY <2>1, <2>2, <2>3, <2>4 DEF ToolNext
<1> QED
  BY <1>1, <1>2, PTL DEF ToolSpec

-----------------------------------------------------------------------------
(* Types of a call down to the SDK *)

\* While the executor has no call out, it has a candidate left to try.
Running ==
  /\ X!ExecutorTypeOK
  /\ Len(candidates) \in Nat
  /\ running = "trying" /\ ~busy => tried < Len(candidates)

\* The executor ends with nothing in hand.
LEMMA EndsTyped ==
  ASSUME Running, NEW o, o.status \in X!Codes \cup {400, 500}, X!Ends(o),
         busy' = FALSE, sends' = sends, logins' = logins,
         result' \in X!Results \cup {X!NoResult}
  PROVE  Running'
<1>1. candidates' = <<>> /\ tried' = 0 /\ running' = "done" /\ outcome' = o
  BY DEF X!Ends
<1>2. Len(candidates') = 0 /\ tried' \in 0..Len(candidates') /\ ~(tried' > 0)
  BY <1>1
<1>3. sends' \in 0..MAX_ATTEMPTS /\ logins' \in 0..2
  BY DEF Running, X!ExecutorTypeOK
<1>4. outcome'.status \in X!Codes \cup {400, 500}
  BY <1>1
<1>5. X!ExecutorTypeOK'
  BY <1>1, <1>2, <1>3, <1>4
     DEF X!ExecutorTypeOK, X!Codes, X!Results, X!ResultOf, X!NoResult
<1> QED
  BY <1>1, <1>2, <1>5 DEF Running

\* What execute makes of a result has one of the status codes told apart.
LEMMA OutcomesTyped ==
  ASSUME NEW r, NEW o \in X!Outcomes(r)
  PROVE  o.status \in X!Codes \cup {400, 500}
BY DEF X!Outcomes, X!Outcome, X!Codes

\* Steps of the executor and its client.
LEMMA RunningInductive == Running /\ [ToolNext]_toolVars => Running'
<1> SUFFICES ASSUME Running, [ToolNext]_toolVars PROVE Running'
  OBVIOUS
<1>0. /\ busy \in BOOLEAN /\ (busy => running = "trying")
      /\ sends \in 0..MAX_ATTEMPTS /\ logins \in 0..2
      /\ result \in X!Results \cup {X!NoResult}
      /\ running \in {"idle", "trying", "done"}
      /\ tried \in 0..Len(candidates) /\ (running = "trying" <=> tried > 0)
      /\ outcome.status \in X!Codes \cup {400, 500}
      /\ Len(candidates) \in Nat
      /\ running = "trying" /\ ~busy => tried < Len(candidates)
  BY DEF Running, X!ExecutorTypeOK
<1> USE AttemptsAssumption
<1>i. running = "idle" => busy = FALSE
  BY <1>0
<1>s. 400 \in X!Codes \cup {400, 500} /\ 0 \in X!Codes
  BY DEF X!Codes
<1>1. CASE Ask
  <2>1. running = "idle"
    BY <1>1 DEF Ask, X!Refuse, X!Bind, X!UnknownCapability
  <2>2. ASSUME NEW o, o.status = 400, X!Ends(o), UNCHANGED X!contract
        PROVE  Running'
    BY ZenonT(30), <1>0, <1>i, <1>s, <2>1, <2>2, EndsTyped DEF X!contract
  <2>3. CASE op = "capability" /\ X!UnknownCapability
    BY <2>2, <2>3 DEF X!UnknownCapability, X!Outcome
  <2>4. ASSUME NEW c \in Capabilities, NEW a, X!Refuse(c, a.given, a.blank, a.body)
        PROVE  Running'
    BY <2>2, <2>4 DEF X!Refuse, X!Outcome
  <2>5. ASSUME NEW c \in Capabilities, NEW a, X!Bind(c, a.given, a.blank, a.body)
        PROVE  Running'
    <3>1. Len(candidates') \in Nat \ {0}
      BY <2>5, BindKeeps
    <3>2. /\ running' = "trying" /\ tried' = 1 /\ outcome'.status = 0
          /\ busy' = TRUE /\ sends' = 0 /\ logins' = 0 /\ result' = X!NoResult
      BY <2>5 DEF X!Bind, X!Called, X!NoOutcome, X!Outcome
    <3>3. sends' \in 0..MAX_ATTEMPTS /\ logins' \in 0..2 /\ tried' \in 0..Len(candidates')
      BY <3>1, <3>2
    <3> QED
      BY <1>s, <3>1, <3>2, <3>3
         DEF Running, X!ExecutorTypeOK, X!Codes, X!Results, X!NoResult, X!ResultOf
  <2> QED
    BY <1>1, <2>3, <2>4, <2>5 DEF Ask
<1>2. CASE Invoke
  <2>1. ASSUME NEW r \in X!Results, NEW t \in BOOLEAN, X!InvokeReturned(r, t)
        PROVE  Running'
    <3>1. /\ busy /\ busy' = FALSE /\ result' = r /\ sends' = sends /\ logins' = logins
      BY <2>1 DEF X!InvokeReturned, X!Returns
    <3>2. CASE UNCHANGED X!executor /\ tried < Len(candidates)
      <4>1. /\ running' = running /\ candidates' = candidates /\ tried' = tried
            /\ outcome' = outcome
        BY <3>2 DEF X!executor
      <4>2. /\ busy' \in BOOLEAN /\ ~busy'
            /\ sends' \in 0..MAX_ATTEMPTS /\ logins' \in 0..2
            /\ running' \in {"idle", "trying", "done"}
        BY <1>0, <3>1, <4>1
      <4>3. tried' \in 0..Len(candidates') /\ (running' = "trying" <=> tried' > 0)
        BY <1>0, <4>1
      <4>4. result' \in (X!Results \cup {X!NoResult})'
        BY <3>1 DEF X!Results, X!NoResult, X!ResultOf
      <4>5. outcome'.status \in X!Codes \cup {400, 500}
        BY <1>0, <4>1
      <4>6. X!ExecutorTypeOK'
        BY <4>2, <4>3, <4>4, <4>5 DEF X!ExecutorTypeOK, X!Codes
      <4> QED
        BY <1>0, <3>2, <4>1, <4>6 DEF Running
    <3>3. ASSUME NEW o \in X!Outcomes(r), X!Ends(o) PROVE Running'
      <4>1. o.status \in X!Codes \cup {400, 500}
        BY OutcomesTyped
      <4> QED
        BY <3>1, <3>3, <4>1, EndsTyped
    <3>4. CASE X!Ends(X!Outcome("capability", 400))
      <4>1. PICK o : o = X!Outcome("capability", 400)
        OBVIOUS
      <4>2. o.status = 400
        BY <4>1 DEF X!Outcome
      <4> QED
        BY ZenonT(30), <1>s, <3>1, <3>4, <4>1, <4>2, EndsTyped
    <3> QED
      BY <2>1, <3>2, <3>3, <3>4 DEF X!InvokeReturned
  <2>2. CASE X!LogsIn /\ UNCHANGED X!executor
    <3>1. /\ busy' = busy /\ sends' = sends /\ result' = result /\ logins' \in 0..2
      BY <1>0, <2>2 DEF X!LogsIn
    <3> QED
      BY <1>0, <2>2, <3>1 DEF Running, X!ExecutorTypeOK, X!executor, X!Codes, X!Results, X!NoResult, X!ResultOf
  <2>3. CASE X!Sends /\ UNCHANGED X!executor
    <3>1. /\ busy' = busy /\ logins' = logins /\ result' = result /\ sends' \in 0..MAX_ATTEMPTS
      BY <1>0, <2>3 DEF X!Sends
    <3> QED
      BY <1>0, <2>3, <3>1 DEF Running, X!ExecutorTypeOK, X!executor, X!Codes, X!Results, X!NoResult, X!ResultOf
  <2>4. CASE X!TryNext
    <3>1. /\ running = "trying" /\ ~busy /\ tried' = tried + 1
          /\ running' = running /\ candidates' = candidates /\ outcome' = outcome
          /\ busy' = TRUE /\ sends' = 0 /\ logins' = 0 /\ result' = X!NoResult
      BY <2>4 DEF X!TryNext, X!Called
    <3>2. sends' \in 0..MAX_ATTEMPTS /\ logins' \in 0..2
      BY <3>1
    <3>3. tried' \in 0..Len(candidates') /\ tried' > 0
      BY <1>0, <3>1
    <3> QED
      BY <1>0, <3>1, <3>2, <3>3
         DEF Running, X!ExecutorTypeOK, X!Codes, X!Results, X!NoResult, X!ResultOf
  <2> QED
    BY <1>2, <2>1, <2>2, <2>3, <2>4 DEF Invoke, X!Invoking
<1>3. CASE Take
  <2>1. /\ running' = "idle" /\ running = "done" /\ UNCHANGED <<client, candidates, tried, outcome>>
    BY <1>3
       DEF Take, TakeList, TakeNote, TakeRow, TakeName, TakeException, Taken, Answered
  <2> QED
    BY <1>0, <2>1
       DEF client, Running, X!ExecutorTypeOK, X!Codes, X!Results, X!NoResult, X!ResultOf
<1>4. CASE Alone \/ UNCHANGED toolVars
  <2>1. UNCHANGED <<client, execution>>
    BY <1>4 DEF Alone, toolVars
  <2> QED
    BY <1>0, <2>1
       DEF client, execution, Running, X!ExecutorTypeOK, X!Codes, X!Results, X!NoResult, X!ResultOf
<1> QED
  BY <1>1, <1>2, <1>3, <1>4 DEF ToolNext

\* There is advice of a retry in an error reply, and in no other.
Advised ==
  advice \in {"none", "retry", "stop"} /\ (advice # "none" <=> reply \in {"error", "raised"})

LEMMA AdvisedInductive == Advised /\ [ToolNext]_toolVars => Advised'
<1> SUFFICES ASSUME Advised, [ToolNext]_toolVars PROVE Advised'
  OBVIOUS
<1>0. advice \in {"none", "retry", "stop"} /\ (advice # "none" <=> reply \in {"error", "raised"})
  BY DEF Advised
<1>n. ASSUME reply = "none", reply' \notin {"error", "raised"}, NoAdvice PROVE Advised'
  BY <1>0, <1>n DEF NoAdvice, Advised
<1>r. ASSUME reply' \in {"error", "raised"}, NEW error, Advise(error) PROVE Advised'
  BY <1>r DEF Advise, Advised
<1>1. CASE Ask \/ Invoke \/ UNCHANGED toolVars
  <2>1. reply' = reply /\ advice' = advice
    BY <1>1 DEF Ask, Invoke, toolVars, vars
  <2> QED
    BY <1>0, <2>1 DEF Advised
<1>2. CASE TakeList
  BY <1>2, <1>n DEF TakeList, LookUp, Doing, Passes
<1>3. CASE TakeNote
  BY <1>3, <1>n DEF TakeNote, NoteError, Doing, Passes
<1>4. CASE TakeRow
  BY <1>4, <1>n DEF TakeRow, LookUpRow, Doing
<1>5. CASE TakeName
  BY <1>5, <1>n DEF TakeName, ResolveNames, Doing, Passes, ReplyWith
<1>6. CASE TakeException
  BY <1>6, <1>r DEF TakeException, LookupRaises, ReplyWith
<1>7. CASE Alone
  <2>1. CASE GuardData /\ data.error /\ Advise(UpstreamError(outcome.status))
    BY <1>r, <2>1 DEF GuardData, ReplyWith
  <2>2. CASE GuardData /\ ~data.error /\ NoAdvice
    BY <1>n, <2>2 DEF GuardData, Passes, Doing
  <2>3. CASE (CheckArguments \/ ResolveNames \/ MatchOne \/ OnlyOne) /\ NoAdvice
    BY <1>n, <2>3
       DEF CheckArguments, ResolveNames, MatchOne, OnlyOne, Doing, Passes, ReplyWith
  <2>4. CASE (LookUpRow \/ RowsDone \/ Answer) /\ NoAdvice
    BY <1>n, <2>4 DEF LookUpRow, RowsDone, Answer, Doing, Passes
  <2>5. CASE HandlerRaises /\ Advise(IF ValueErrorRefused THEN InvalidArgument ELSE InternalError)
    BY <1>r, <2>5 DEF HandlerRaises, ReplyWith
  <2> QED
    BY <1>7, <2>1, <2>2, <2>3, <2>4, <2>5 DEF Alone
<1> QED
  BY <1>1, <1>2, <1>3, <1>4, <1>5, <1>6, <1>7 DEF Take, ToolNext

\* The executor's part holds throughout a call.
LEMMA RunningAlways == ToolSpec => []Running
<1>1. ToolInit => Running
  <2> SUFFICES ASSUME ToolInit PROVE Running
    OBVIOUS
  <2>1. /\ busy = FALSE /\ sends = 0 /\ logins = 0 /\ result = X!NoResult
        /\ running = "idle" /\ candidates = <<>> /\ tried = 0 /\ outcome.status = 0
    BY DEF ToolInit, X!ExecutorInit, X!Idle, X!NoOutcome, X!Outcome
  <2>2. 0 \in 0..MAX_ATTEMPTS /\ 0 \in 0..2 /\ 0 \in X!Codes
    BY AttemptsAssumption DEF X!Codes
  <2>3. Len(candidates) = 0 /\ tried \in 0..Len(candidates) /\ ~(tried > 0)
    BY <2>1
  <2> QED
    BY ZenonT(30), <2>1, <2>2, <2>3 DEF Running, X!ExecutorTypeOK
<1> QED
  BY <1>1, RunningInductive, PTL DEF ToolSpec

\* The variables of a call down to the SDK keep their types: the client sends at
\* most MAX_ATTEMPTS requests, the candidate in hand is one of those listed, and
\* an error reply, and no other, advises of a retry.
THEOREM ToolTypeCorrect == ToolSpec => []ToolTypeOK
<1>1. ToolInit => Advised
  BY DEF ToolInit, Init, Advised
<1>2. TypeOK /\ Running /\ Advised => ToolTypeOK
  BY DEF Running, Advised, ToolTypeOK
<1> QED
  BY <1>1, <1>2, RunningAlways, AdvisedInductive, CallIsAHandler, TypeCorrect, PTL
     DEF ToolSpec

-----------------------------------------------------------------------------
(* A call runs down *)

\* What a call has left to do, the most weighty first: steps of its plan, rows of
\* the list, the stage of the executor, candidates, and what the client may send.
StepsLeft == (Len(Plan) + 1 - at) + (IF reply = "none" THEN 1 ELSE 0)
RowsLeft == cap - row
StageLeft == CASE running = "idle" -> 2 [] running = "trying" -> 1 [] OTHER -> 0
TriesLeft == 2 * (Len(candidates) - tried) + (IF busy THEN 1 ELSE 0)
RequestsLeft == (MAX_ATTEMPTS - sends) + (2 - logins)
Left == <<StepsLeft, RowsLeft, StageLeft, TriesLeft, RequestsLeft>>

\* What is left is never less than nothing.
Measured ==
  /\ StepsLeft \in Nat /\ RowsLeft \in Nat /\ StageLeft \in Nat
  /\ TriesLeft \in Nat /\ RequestsLeft \in Nat

\* While the variables keep their types, what is left is measured in numbers.
LEMMA LeftIsMeasured == TypeOK /\ Running => Measured
<1> SUFFICES ASSUME TypeOK, Running PROVE Measured
  OBVIOUS
<1> USE FanoutAssumption, AttemptsAssumption
<1>1. StepsLeft \in Nat
  <2>1. at \in 1..(Len(Plan) + 1) /\ Len(Plan) \in Nat
    BY PlansWellFormed DEF TypeOK, Plan, WellFormed
  <2> QED
    BY <2>1 DEF StepsLeft
<1>2. RowsLeft \in Nat
  BY DEF TypeOK, RowsLeft
<1>3. StageLeft \in Nat
  BY DEF StageLeft
<1>4. TriesLeft \in Nat
  BY DEF Running, X!ExecutorTypeOK, TriesLeft
<1>5. RequestsLeft \in Nat
  BY DEF Running, X!ExecutorTypeOK, RequestsLeft
<1> QED
  BY <1>1, <1>2, <1>3, <1>4, <1>5 DEF Measured

\* A step of the handler ends a step of its plan, or replies, or passes a row.
LEMMA HandlerRunsDown ==
  ASSUME TypeOK, Next
  PROVE  \/ StepsLeft' < StepsLeft
         \/ StepsLeft' = StepsLeft /\ RowsLeft' < RowsLeft
<1>1. /\ op' = op /\ Plan' = Plan /\ cap' = cap
  BY DEF Next, CheckArguments, ResolveNames, LookUp, GuardData, NoteError, MatchOne,
         OnlyOne, LookUpRow, RowsDone, LookupRaises, HandlerRaises, Answer, Plan
<1>2. at \in Nat /\ Len(Plan) \in Nat /\ cap \in Nat /\ row \in Nat
  BY PlansWellFormed DEF TypeOK, Plan, WellFormed
<1>p. ASSUME reply = "none", Passes PROVE StepsLeft' < StepsLeft
  BY <1>1, <1>2, <1>p DEF Passes, StepsLeft
<1>r. ASSUME reply = "none", reply' # "none", at' = at PROVE StepsLeft' < StepsLeft
  BY <1>1, <1>2, <1>r DEF StepsLeft
<1>3. CASE LookUpRow
  <2>1. StepsLeft' = StepsLeft
    BY <1>1, <1>3 DEF LookUpRow, StepsLeft
  <2>2. RowsLeft' < RowsLeft
    BY <1>1, <1>2, <1>3 DEF LookUpRow, RowsLeft
  <2> QED
    BY <2>1, <2>2
<1>4. CASE Answer \/ LookupRaises \/ HandlerRaises
  BY <1>4, <1>r DEF Answer, LookupRaises, HandlerRaises, ReplyWith, Doing
<1>5. CASE LookUp \/ NoteError \/ RowsDone
  BY <1>5, <1>p DEF LookUp, NoteError, RowsDone, Doing
<1>6. CASE CheckArguments \/ ResolveNames
  BY <1>6, <1>p, <1>r DEF CheckArguments, ResolveNames, ReplyWith, Doing
<1>7. CASE GuardData \/ MatchOne \/ OnlyOne
  BY <1>7, <1>p, <1>r DEF GuardData, MatchOne, OnlyOne, ReplyWith, Doing
<1> QED
  BY <1>3, <1>4, <1>5, <1>6, <1>7 DEF Next

\* Every step of a call lowers what is left.
LEMMA RunsDown ==
  ASSUME TypeOK, Running, ToolNext
  PROVE  Lower(Left', Left)
<1>1. SUFFICES
        \/ StepsLeft' < StepsLeft
        \/ StepsLeft' = StepsLeft /\ RowsLeft' < RowsLeft
        \/ /\ StepsLeft' = StepsLeft /\ RowsLeft' = RowsLeft
           /\ StageLeft' < StageLeft
        \/ /\ StepsLeft' = StepsLeft /\ RowsLeft' = RowsLeft
           /\ StageLeft' = StageLeft /\ TriesLeft' < TriesLeft
        \/ /\ StepsLeft' = StepsLeft /\ RowsLeft' = RowsLeft
           /\ StageLeft' = StageLeft /\ TriesLeft' = TriesLeft
           /\ RequestsLeft' < RequestsLeft
  <2>1. /\ DOMAIN Left = 1..5 /\ Left[1] = StepsLeft /\ Left[2] = RowsLeft
        /\ Left[3] = StageLeft /\ Left[4] = TriesLeft /\ Left[5] = RequestsLeft
    BY DEF Left
  <2>2. /\ Left'[1] = StepsLeft' /\ Left'[2] = RowsLeft' /\ Left'[3] = StageLeft'
        /\ Left'[4] = TriesLeft' /\ Left'[5] = RequestsLeft'
    BY DEF Left
  <2>3. \E i \in 1..5 : Left'[i] < Left[i] /\ \A j \in 1..(i - 1) : Left'[j] = Left[j]
    <3>1. CASE StepsLeft' < StepsLeft
      BY <2>1, <2>2, <3>1
    <3>2. CASE StepsLeft' = StepsLeft /\ RowsLeft' < RowsLeft
      BY <2>1, <2>2, <3>2
    <3>3. CASE /\ StepsLeft' = StepsLeft /\ RowsLeft' = RowsLeft
               /\ StageLeft' < StageLeft
      BY <2>1, <2>2, <3>3
    <3>4. CASE /\ StepsLeft' = StepsLeft /\ RowsLeft' = RowsLeft
               /\ StageLeft' = StageLeft /\ TriesLeft' < TriesLeft
      BY <2>1, <2>2, <3>4
    <3>5. CASE /\ StepsLeft' = StepsLeft /\ RowsLeft' = RowsLeft
               /\ StageLeft' = StageLeft /\ TriesLeft' = TriesLeft
               /\ RequestsLeft' < RequestsLeft
      BY <2>1, <2>2, <3>5
    <3> QED
      BY <1>1, <3>1, <3>2, <3>3, <3>4, <3>5
  <2> QED
    BY <2>1, <2>3 DEF Lower
<1>2. CASE Ask \/ Invoke
  <2>1. StepsLeft' = StepsLeft /\ RowsLeft' = RowsLeft
    BY <1>2 DEF Ask, Invoke, vars, StepsLeft, RowsLeft, Plan
  <2>2. CASE Ask
    <3>1. running = "idle" /\ running' \in {"trying", "done"}
      BY <2>2 DEF Ask, X!Refuse, X!Bind, X!UnknownCapability, X!Ends
    <3> QED
      BY <2>1, <3>1 DEF StageLeft
  <2>3. CASE X!TryNext
    <3>1. /\ running' = running /\ candidates' = candidates /\ tried' = tried + 1
          /\ busy = FALSE /\ busy' = TRUE
      BY <2>3 DEF X!TryNext, X!Called
    <3>2. Len(candidates) \in Nat /\ tried \in Nat
      BY DEF Running, X!ExecutorTypeOK
    <3>3. StageLeft' = StageLeft /\ TriesLeft' < TriesLeft
      BY <3>1, <3>2 DEF StageLeft, TriesLeft
    <3> QED
      BY <2>1, <3>3
  <2>4. ASSUME NEW r, NEW t, X!InvokeReturned(r, t)
        PROVE  \/ StageLeft' < StageLeft
               \/ StageLeft' = StageLeft /\ TriesLeft' < TriesLeft
    <3>1. busy = TRUE /\ busy' = FALSE /\ running = "trying"
      BY <2>4 DEF X!InvokeReturned, X!Returns, Running, X!ExecutorTypeOK
    <3>2. CASE UNCHANGED X!executor
      <4>1. running' = running /\ candidates' = candidates /\ tried' = tried
        BY <3>2 DEF X!executor
      <4>2. Len(candidates) \in Nat /\ tried \in Nat
        BY DEF Running, X!ExecutorTypeOK
      <4> QED
        BY <3>1, <4>1, <4>2 DEF StageLeft, TriesLeft
    <3>3. CASE running' = "done"
      BY <3>1, <3>3 DEF StageLeft
    <3> QED
      BY <2>4, <3>2, <3>3 DEF X!InvokeReturned, X!Ends
  <2>5. CASE (X!LogsIn \/ X!Sends) /\ UNCHANGED X!executor
    <3>1. /\ running' = running /\ candidates' = candidates /\ tried' = tried /\ busy' = busy
          /\ \/ sends' = sends /\ logins' = logins + 1
             \/ sends' = sends + 1 /\ logins' = logins
      BY <2>5 DEF X!LogsIn, X!Sends, X!executor
    <3>2. sends \in Nat /\ logins \in Nat /\ MAX_ATTEMPTS \in Nat
      BY AttemptsAssumption DEF Running, X!ExecutorTypeOK
    <3>3. StageLeft' = StageLeft /\ TriesLeft' = TriesLeft
      BY <3>1 DEF StageLeft, TriesLeft
    <3>4. RequestsLeft' < RequestsLeft
      BY <3>1, <3>2 DEF RequestsLeft
    <3> QED
      BY <2>1, <3>3, <3>4
  <2> QED
    BY <1>2, <2>1, <2>2, <2>3, <2>4, <2>5 DEF Invoke, X!Invoking
<1>3. CASE Take \/ Alone
  <2>1. Next
    BY <1>3 DEF Take, Alone, TakeList, TakeNote, TakeRow, TakeName, TakeException, Next
  <2> QED
    BY <2>1, HandlerRunsDown
<1> QED
  BY <1>2, <1>3 DEF ToolNext

\* Every step of a tool call lowers what is left of it: a step of the plan, a row of
\* the fan-out, a stage of the executor, a candidate or a request.  By
\* NoEndlessDescent no call goes on for ever, whatever the controller answers and
\* whatever Python makes of the candidates; fairness is needed only for a call not
\* to stand still.
THEOREM CallRunsDown ==
  ToolSpec => [](Left \in [1..5 -> Nat]) /\ [][Lower(Left', Left)]_toolVars
<1>1. ToolSpec => [](TypeOK /\ Running)
  BY RunningAlways, CallIsAHandler, TypeCorrect, PTL
<1>2. TypeOK /\ Running => Left \in [1..5 -> Nat]
  BY LeftIsMeasured DEF Measured, Left
<1>3. TypeOK /\ Running /\ [ToolNext]_toolVars => [Lower(Left', Left)]_toolVars
  BY RunsDown
<1> QED
  BY <1>1, <1>2, <1>3, PTL DEF ToolSpec
=============================================================================
