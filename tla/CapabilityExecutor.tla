------------------------- MODULE CapabilityExecutor -------------------------
(* CapabilityExecutor.execute (executor.py): from a capability of the catalog *)
(* (catalog.py) and a caller's arguments to a call of an SDK method.  The     *)
(* SDK is another package whose signatures the registry does not describe: a  *)
(* method that can be called by name is, any other is tried with positional   *)
(* candidates until one of them is not a TypeError.                           *)
(*                                                                            *)
(* Each try is a call of PrismaSDWANClient.invoke, of which only the contract *)
(* is used here: SdwanClient keeps it for every thread.                       *)
(*                                                                            *)
(* A value is named after what it is: the name of a path parameter stands for *)
(* the caller's value of it, "body" for the body, "version" for api_version.  *)
EXTENDS InvokeContract, Sequences, SequencesExt

CONSTANTS
  Capabilities,  \* the catalog; of each, whether the SDK offers its method, and
                 \* the signature: the parameters it names, and those of *args
                 \* and **kwargs that it hides others behind
  BODY_NAMES     \* _BODY_PARAMETER_NAMES

\* CapabilityCatalog.validate: what else is in a catalog keeps the server from
\* starting
Valid(c) ==
  /\ c.verb \in {"GET", "POST"}
  /\ "" \notin ToSet(c.paths) /\ IsInjective(c.paths)
  /\ c.required \subseteq ToSet(c.paths)

VARIABLES
  running,      \* "idle", "trying" or "done"
  candidates,   \* the calls to try; of each whether Python accepts it, and
                \* whether it gives the method what the caller gave
  tried,        \* index of the candidate in hand
  outcome       \* what execute returned or raised

executor == <<running, candidates, tried, outcome>>
callVars == <<contract, executor>>

ResultOf(kind, status, count) ==
  [kind |-> kind, status |-> status, retry_count |-> count]
Outcome(class, status) == [class |-> class, status |-> status]
NoOutcome == Outcome("none", 0)
\* Status codes told apart: none, a refusal, a rate limit, an error of the
\* controller, an error of the caller
Codes == {0, 403, 429, 503, 404}

-----------------------------------------------------------------------------
(* The checks                                                                 *)

\* Arguments: path parameters given with a value, those of them that are blank,
\* and the body
Bodies == {"none", "empty", "object", "not_object", "retrieved_fields", "undeclared", "mistyped"}

\* _validate_paths
PathsAccepted(c, given, blank) ==
  /\ c.required \subseteq given \ blank
  /\ given \subseteq ToSet(c.paths)

\* _validate_body: the fields of a POST body are checked against the schema of
\* the registry
BodyAccepted(c, body) ==
  IF c.verb = "GET" THEN body \in {"none", "empty"} ELSE body \in {"none", "empty", "object"}

-----------------------------------------------------------------------------
(* Calls by name: _signature_call                                             *)

HasBody(c) == c.verb = "POST"
NamesOf(c) == {p.name : p \in ToSet(c.named)}

\* Of the parameters, *args and **kwargs come last and have no default
Hiding(c, name) ==
  IF name \in c.hides THEN <<[name |-> name, default |-> FALSE]>> ELSE <<>>
Params(c) == c.named \o Hiding(c, "args") \o Hiding(c, "kwargs")

\* A parameter that is no path and no version takes the body by its name or, the
\* first time, by having no default
IsVersion(c, p) == c.versioned /\ p.name = "api_version"
MayTakeBody(c, given, p) ==
  /\ HasBody(c) /\ p.name \notin given /\ ~IsVersion(c, p)
  /\ p.name \in BODY_NAMES \/ ~p.default
TakesBody(c, given, i) ==
  /\ MayTakeBody(c, given, Params(c)[i])
  /\ \/ Params(c)[i].name \in BODY_NAMES
     \/ \A j \in 1..(i - 1) : ~MayTakeBody(c, given, Params(c)[j])

Keywords(c, given) ==
  LET Bound == {i \in DOMAIN Params(c) :
                  \/ Params(c)[i].name \in given
                  \/ IsVersion(c, Params(c)[i])
                  \/ TakesBody(c, given, i)}
      ValueOf(n) == IF n \in given THEN n
                    ELSE IF c.versioned /\ n = "api_version" THEN "version" ELSE "body"
  IN  [n \in {Params(c)[i].name : i \in Bound} |-> ValueOf(n)]

\* A bug: paths that no parameter is named after are dropped
BindableDropping(c, given) ==
  /\ \A p \in ToSet(c.named) : p.default \/ p.name \in DOMAIN Keywords(c, given)
  /\ HasBody(c) => \E i \in DOMAIN Params(c) : TakesBody(c, given, i)

\* Every required parameter is bound, and so is every path and the body
Bindable(c, given) ==
  /\ \A p \in ToSet(c.named) : p.default \/ p.name \in DOMAIN Keywords(c, given)
  /\ given \subseteq DOMAIN Keywords(c, given)
  /\ HasBody(c) => \E i \in DOMAIN Params(c) : TakesBody(c, given, i)

\* One call, or none if the signature does not say how
NamedCalls(c, given) ==
  IF c.named # <<>> /\ Bindable(c, given)
    THEN <<[args |-> <<>>, kwargs |-> Keywords(c, given)]>>
    ELSE <<>>

(* Calls by position: _fallback_candidates                                    *)

\* The elements of a sequence that are in S (SelectSeq, in a form that proofs can
\* take apart)
Among(S, s) ==
  LET upTo[i \in 0..Len(s)] ==
        IF i = 0 THEN <<>>
        ELSE IF s[i] \in S THEN Append(upTo[i - 1], s[i]) ELSE upTo[i - 1]
  IN  upTo[Len(s)]

\* A call that another one repeats is left out
Unless(call, others) == IF call \in others THEN <<>> ELSE <<call>>

\* api_version goes along for capabilities of the curated catalog
FallbackCalls(c, given) ==
  LET ordered == Among(given, c.paths)
      api == IF c.versioned /\ c.curated THEN {"api_version"} ELSE {}
      Kwargs(names) == [n \in names \cup api |->
                          IF n \in api THEN "version"
                          ELSE IF HasBody(c) /\ n = "data" THEN "body" ELSE n]
      Call(args, names) == [args |-> args, kwargs |-> Kwargs(names)]
      first == Call(<<"body">> \o ordered, {})
      second == Call(ordered \o <<"body">>, {})
      third == Call(<<>>, given \cup {"data"})
      plain == Call(ordered, {})
      byName == Call(<<>>, given)
  IN  IF HasBody(c)
        THEN <<first>> \o Unless(second, {first}) \o Unless(third, {first, second})
        ELSE <<plain>> \o Unless(byName, {plain})

(* Python's binding of a call to a signature                                  *)

ByPosition(c, call) == {i \in DOMAIN call.args : i <= Len(c.named)}

Fits(c, call) ==
  /\ Len(call.args) <= Len(c.named) \/ "args" \in c.hides
  /\ \A n \in DOMAIN call.kwargs : n \in NamesOf(c) \/ "kwargs" \in c.hides
  /\ \A i \in DOMAIN c.named :
       LET p == c.named[i]
       IN  IF i <= Len(call.args) THEN p.name \notin DOMAIN call.kwargs
                                  ELSE p.default \/ p.name \in DOMAIN call.kwargs

\* What each named parameter receives, and what is left to *args and **kwargs
Received(c, call) ==
  {<<c.named[i].name, call.args[i]>> : i \in ByPosition(c, call)}
    \cup {<<n, call.kwargs[n]>> : n \in DOMAIN call.kwargs \cap NamesOf(c)}
Hidden(c, call) ==
  {call.args[i] : i \in DOMAIN call.args \ ByPosition(c, call)}
    \cup {call.kwargs[n] : n \in DOMAIN call.kwargs \ NamesOf(c)}

\* The call gives the method every path and the body, and no named parameter
\* receives what is another's
Keeps(c, given, call) ==
  LET Own(name, value) ==
        /\ name \in BODY_NAMES <=> value = "body"
        /\ name = "api_version" <=> value = "version"
        /\ name \in ToSet(c.paths) => value = name
  IN  /\ given \cup (IF HasBody(c) THEN {"body"} ELSE {})
           \subseteq {r[2] : r \in Received(c, call)} \cup Hidden(c, call)
      /\ \A r \in Received(c, call) : Own(r[1], r[2])

-----------------------------------------------------------------------------
(* The SDK's signatures, which the registry does not describe: what of them   *)
(* the executor counts on                                                     *)

\* A method that names its paths and its body, and asks for nothing else
NamesAll(c) ==
  /\ c.named # <<>> /\ ToSet(c.paths) \subseteq NamesOf(c)
  /\ HasBody(c) => NamesOf(c) \cap BODY_NAMES # {}
  /\ \A p \in ToSet(c.named) :
       \/ p.default \/ IsVersion(c, p)
       \/ p.name \in c.required
       \/ HasBody(c) /\ p.name \in BODY_NAMES

\* One that names nothing, or its body alone, and hides the rest
HidesPaths(c) ==
  /\ "kwargs" \in c.hides
  /\ \/ c.named = <<>>
     \/ /\ HasBody(c) /\ "args" \in c.hides
        /\ Len(c.named) = 1 /\ c.named[1].name \in BODY_NAMES

\* One that has other names for its paths, and takes them in the catalog's order
TakesInOrder(c) ==
  /\ ~HasBody(c) /\ c.hides = {}
  /\ c.required = ToSet(c.paths) /\ Len(c.paths) <= Len(c.named)
  /\ c.versioned /\ c.curated => "api_version" \in NamesOf(c)
  /\ \A i \in DOMAIN c.named :
       IF i <= Len(c.paths)
         THEN /\ c.named[i].name \in ToSet(c.paths) => c.named[i].name = c.paths[i]
              /\ c.named[i].name \notin BODY_NAMES \cup {"api_version"}
         ELSE c.named[i].default

\* Names are distinct, and a path has no name that means something else
WellSigned(c) ==
  /\ c.paths \in Seq(ToSet(c.paths)) /\ c.named \in Seq(ToSet(c.named))
  /\ c.hides \subseteq {"args", "kwargs"}
  /\ \A i, j \in DOMAIN c.named : c.named[i].name = c.named[j].name => i = j
  /\ (ToSet(c.paths) \cup NamesOf(c)) \cap {"args", "kwargs"} = {}
  /\ ToSet(c.paths) \cap (BODY_NAMES \cup {"api_version", "version"}) = {}
  /\ NamesAll(c) \/ HidesPaths(c) \/ TakesInOrder(c)

-----------------------------------------------------------------------------
(* execute                                                                    *)

ExecutorInit ==
  /\ Idle
  /\ running = "idle" /\ candidates = <<>> /\ tried = 0 /\ outcome = NoOutcome

Ends(o) ==
  /\ running' = "done" /\ outcome' = o
  /\ candidates' = <<>> /\ tried' = 0

\* Arguments the checks refuse, or a method that the SDK does not have
Refuse(c, given, blank, body) ==
  /\ running = "idle"
  /\ ~(PathsAccepted(c, given, blank) /\ BodyAccepted(c, body) /\ c.offered)
  /\ Ends(Outcome("capability", 400))
  /\ UNCHANGED contract
\* CapabilityCatalog.get does not know the id
UnknownCapability ==
  /\ running = "idle"
  /\ Ends(Outcome("registry", 400))
  /\ UNCHANGED contract

\* The candidates are listed, and the first is tried
Bind(c, given, blank, body) ==
  LET calls == IF NamedCalls(c, given) # <<>> THEN NamedCalls(c, given)
                                              ELSE FallbackCalls(c, given)
  IN  /\ running = "idle"
      /\ PathsAccepted(c, given, blank) /\ BodyAccepted(c, body) /\ c.offered
      /\ running' = "trying" /\ tried' = 1 /\ outcome' = NoOutcome
      /\ candidates' = [k \in DOMAIN calls |->
                          [fits |-> Fits(c, calls[k]), keeps |-> Keeps(c, given, calls[k])]]
      /\ Called

Fitting == candidates[tried].fits

\* What the client's result is to execute: an answer may be an error of the
\* caller, and a transient failure is a rate limit or an error of the controller
Outcomes(r) ==
  CASE r.kind = "answer" -> {Outcome("value", 0), Outcome("error", 404), Outcome("error", 0)}
    [] r.kind = "sdk_error" -> {Outcome("error", 0)}
    [] r.kind = "auth_error" -> {Outcome("error", 403)}
    [] r.kind = "transient_error" ->
         IF r.status = "denied" THEN {Outcome("error", 403)}
                                ELSE {Outcome("error", 429), Outcome("error", 503)}
    [] OTHER -> {Outcome("login", 500)}

\* The results of Promised; the requests a transient failure reports are not
\* looked at
Results ==
  {ResultOf("answer", "none", 0), ResultOf("sdk_error", "none", 0),
   ResultOf("auth_error", "denied", 0), ResultOf("raised", "none", 0)}
    \cup {ResultOf("transient_error", s, MAX_ATTEMPTS) : s \in {"transient", "denied"}}

\* A bug: the loop calls the same candidate again
TryNextSame ==
  /\ running = "trying" /\ ~busy
  /\ Called
  /\ UNCHANGED executor

\* After a TypeError the next candidate is called
TryNext ==
  /\ running = "trying" /\ ~busy
  /\ Called
  /\ tried' = tried + 1
  /\ UNCHANGED <<running, candidates, outcome>>

\* The client's result.  A TypeError is taken for a wrong binding, also when an
\* SDK method raised it by itself: the next candidate is tried, and without one
\* the capability cannot be bound.  A lone candidate's is an error like any other
InvokeReturned(r, type_error) ==
  /\ Returns(r)
  /\ ~Fitting => IF sends = 0 THEN r.kind = "raised" ELSE type_error
  /\ type_error => r.kind = "sdk_error"
  /\ IF type_error /\ Len(candidates) > 1
       THEN IF tried < Len(candidates)
              THEN UNCHANGED executor
              ELSE Ends(Outcome("capability", 400))
       ELSE \E o \in Outcomes(r) : Ends(o)

\* The client logs in and sends; a call that Python refuses ends with its first
\* request
Invoking ==
  \/ /\ busy /\ (Fitting \/ sends = 0)
     /\ LogsIn \/ Sends
     /\ UNCHANGED executor
  \/ \E r \in Results, type_error \in BOOLEAN : InvokeReturned(r, type_error)

-----------------------------------------------------------------------------
(* Properties                                                                 *)

ExecutorTypeOK ==
  /\ busy \in BOOLEAN /\ (busy => running = "trying")
  /\ sends \in 0..MAX_ATTEMPTS /\ logins \in 0..2
  /\ result \in Results \cup {NoResult}
  /\ running \in {"idle", "trying", "done"}
  /\ tried \in 0..Len(candidates) /\ (running = "trying" <=> tried > 0)
  /\ outcome.status \in Codes \cup {400, 500}

\* Valid arguments reach the SDK whole: some candidate is one that Python accepts,
\* and the first that it accepts gives every path and the body to the parameter
\* they are meant for, by name or by position (the guards of _signature_call and
\* the order of _fallback_candidates).
ArgumentsKept ==
  running = "trying" =>
    \E k \in DOMAIN candidates :
      /\ candidates[k].fits /\ candidates[k].keeps
      /\ \A j \in 1..(k - 1) : ~candidates[j].fits

\* invalid_capability_request is the caller's doing: no request has reached the
\* controller.  No run checks it, for it does not hold: a TypeError that an SDK
\* method raises while it handles an answer makes the same request leave again
\* with other bindings, and ends as "Unable to bind".
UnboundMeansUnsent ==
  outcome.class = "capability" => sends = 0 \/ result.kind # "sdk_error"
=============================================================================
