------------------------------ MODULE ToolCall ------------------------------
(* One call of a read tool down to the SDK: the handler (SemanticReads) takes *)
(* its steps, those that ask the controller by way of the executor            *)
(* (CapabilityExecutor) and its client (InvokeContract), and turns what comes *)
(* back into data, into an error reply that says whether to try again, or     *)
(* into a failed resolution (tools/common.py, response.py).                   *)
EXTENDS SemanticReads

CONSTANTS
  Capabilities, BODY_NAMES,  \* of CapabilityExecutor
  MAX_ATTEMPTS               \* of InvokeContract

VARIABLES
  busy, sends, logins, result,             \* of InvokeContract
  running, candidates, tried, outcome,     \* of CapabilityExecutor
  advice   \* what the error reply says of a retry: "none", "retry" or "stop"

X == INSTANCE CapabilityExecutor

\* The server has started: CapabilityCatalog.validate accepted the registry
ASSUME CatalogAssumption == \A c \in Capabilities : X!Valid(c)

\* What its SDK is like; "api_version" is none of _BODY_PARAMETER_NAMES
ASSUME SignatureAssumption ==
  /\ {"body", "data"} \subseteq BODY_NAMES
  /\ BODY_NAMES \cap {"api_version", "version", "args", "kwargs"} = {}
  /\ \A c \in Capabilities : X!WellSigned(c)
ASSUME AttemptsAssumption == MAX_ATTEMPTS \in Nat

client == <<busy, sends, logins, result>>
execution == <<running, candidates, tried, outcome>>
toolVars == <<vars, client, execution, advice>>

ToolInit == Init /\ X!ExecutorInit /\ advice = "none"

-----------------------------------------------------------------------------
(* Asking                                                                     *)

\* The arguments of the handlers, and the arguments of a caller: read_capability
\* passes on what it was given
Arguments(c) ==
  IF op = "capability"
    THEN [given : SUBSET (X!ToSet(c.paths) \cup {"other"}), blank : {{}, X!ToSet(c.paths)},
          body : X!Bodies]
    ELSE [given : {X!ToSet(c.paths)}, blank : {{}},
          body : {IF c.verb = "POST" THEN "object" ELSE "none"}]

Asks ==
  \/ Doing("lookup") \/ Doing("note") \/ Doing("resolve")
  \/ Doing("each") /\ row < Cut

\* execute(...): of the handler, or of the resolver
Ask ==
  /\ Asks
  /\ \/ \E c \in Capabilities : \E a \in Arguments(c) :
          \/ X!Refuse(c, a.given, a.blank, a.body)
          \/ X!Bind(c, a.given, a.blank, a.body)
     \/ op = "capability" /\ X!UnknownCapability
  /\ UNCHANGED <<vars, advice>>

Invoke == (X!Invoking \/ X!TryNext) /\ UNCHANGED <<vars, advice>>

-----------------------------------------------------------------------------
(* Error replies                                                              *)

\* Mutant: the status is not passed on
UpstreamErrorWithoutStatus(status) == [code |-> "upstream_error", status |-> 0]

\* fail_from_upstream
UpstreamError(status) ==
  [code |-> IF status = 429 THEN "rate_limited" ELSE "upstream_error", status |-> status]

InvalidArgument == [code |-> "invalid_argument", status |-> 400]
InternalError == [code |-> "internal_error", status |-> 500]

\* get_monitoring takes a ValueError for a bad argument, before handle_error
ValueErrorRefused == op \in DOMAIN GetMonitoring

\* What the except clauses make of what execute raises.  A login raises whatever
\* the SDK raises, which may be a ValueError
RaisedErrors(class) ==
  CASE class = "capability" -> {[code |-> "invalid_capability_request", status |-> 400]}
    [] class = "registry" -> {InvalidArgument}
    [] OTHER -> {InternalError} \cup (IF ValueErrorRefused THEN {InvalidArgument} ELSE {})

\* structured_error
Retryable(error) ==
  error.code \in {"rate_limited", "transient_upstream_error"} \/ error.status \in 500..599

Advise(error) == advice' = IF Retryable(error) THEN "retry" ELSE "stop"
NoAdvice == UNCHANGED advice

-----------------------------------------------------------------------------
(* What becomes of the answer                                                 *)

Answered == running = "done" /\ outcome.class \in {"value", "error"}
IsError == outcome.class = "error"
\* The handler has the answer in hand
Taken == running' = "idle" /\ UNCHANGED <<client, candidates, tried, outcome>>

TakeList == Answered /\ LookUp /\ (data'.error <=> IsError) /\ Taken /\ NoAdvice
TakeNote == Answered /\ NoteError /\ (failed' # failed <=> IsError) /\ Taken /\ NoAdvice
TakeRow ==
  /\ Answered
  /\ LookUpRow /\ calls' # calls /\ (failed' # failed <=> IsError)
  /\ Taken /\ NoAdvice
\* An error of the list that a name is looked for in is a ResolutionError
TakeName ==
  /\ Answered
  /\ ResolveNames /\ (IsError => reply' = "unmatched")
  /\ Taken /\ NoAdvice
TakeException ==
  /\ running = "done" /\ ~Answered
  /\ LookupRaises
  /\ \E error \in RaisedErrors(outcome.class) : Advise(error)
  /\ Taken

\* The steps that ask nobody.  A row without an id is passed over, and nothing is
\* looked up for a name that is blank
Alone ==
  /\ running = "idle"
  /\ \/ /\ \/ CheckArguments \/ MatchOne \/ OnlyOne \/ RowsDone \/ Answer
           \/ LookUpRow /\ UNCHANGED calls
           \/ ResolveNames
        /\ NoAdvice
     \/ /\ GuardData
        /\ IF data.error THEN Advise(UpstreamError(outcome.status)) ELSE NoAdvice
     \/ HandlerRaises /\ Advise(IF ValueErrorRefused THEN InvalidArgument ELSE InternalError)
  /\ UNCHANGED <<client, execution>>

Take == TakeList \/ TakeNote \/ TakeRow \/ TakeName \/ TakeException
ToolNext == Ask \/ Invoke \/ Take \/ Alone

ToolSpec == ToolInit /\ [][ToolNext]_toolVars
\* A handler runs on, and a call of the client returns (CallsReturn of
\* SdwanClient)
FairToolSpec == ToolSpec /\ WF_toolVars(ToolNext)

-----------------------------------------------------------------------------
(* Properties                                                                 *)

ToolTypeOK ==
  /\ TypeOK /\ X!ExecutorTypeOK
  /\ advice \in {"none", "retry", "stop"} /\ (advice # "none" <=> reply \in {"error", "raised"})

\* Valid arguments reach the SDK whole (ArgumentsKept of CapabilityExecutor),
\* whatever method of the catalog a handler or a caller asks for.
ArgumentsKept == X!ArgumentsKept

\* The last call of the client ended on a rate limit, an error of the controller
\* or a failed login
Transient ==
  /\ outcome.class # "capability" /\ outcome.class # "registry"
  /\ result.kind = "raised" \/ result.status = "transient"

\* The reply to a lookup that failed advises a retry only if the last call of the
\* client was Transient, and always then, but for a login that failed under
\* get_monitoring, which may be told as a bad argument (monitoring.py:393).  Of a
\* refusal that the client reports as a transient failure it does not advise it
\* (client.py:158, the status that fail_from_upstream passes on,
\* structured_error).  Nothing is promised of an exception of the handler's own
\* code: a setting that is no number is an internal error, advised to be retried.
RetryAdvised ==
  reply = "error" =>
    /\ advice = "retry" => Transient
    /\ Transient /\ ~(ValueErrorRefused /\ result.kind = "raised") => advice = "retry"

\* A tool call ends, however its client's calls end and whatever Python makes of
\* the candidates.
ToolReturns == <>(reply # "none")
=============================================================================
