# TLA+ models of prisma-sdwan-mcp

Formal models of the Prisma SD-WAN MCP server (`src/prisma_sdwan_mcp`): TLA+
modules, configurations that check them with TLC, and proofs checked by TLAPS.
File and line references below are relative to `src/prisma_sdwan_mcp/`.

    tlc -config Pages.cfg MCCollectionPages.tla      # one run
    tlapm CollectionPagesProofs.tla                  # one module of proofs

`PROJECT.json` lists the components, the runs, the mutants that show that each
property can fail, the source lines of every definition, the hazards and the
theorems.

## 1. The system

The server exposes read-only tools over MCP.  Two lanes lead from a tool to the
outside:

    API lane   tool -> resolver -> executor -> client -> vendor SDK -> controller
               answer -> redaction -> response (page, compact, byte budget)
    CLI lane   run_commands -> policy -> credentials -> device address -> probe
               -> SSH session -> redaction -> response

The MCP library runs the synchronous tools in worker threads, so several tool
calls are under way at once.  Between calls the server keeps nothing but the
client object: each page of a list, each name and each topology is fetched anew,
while the network it describes goes on changing.

### Inventory

| Component | State it keeps | Operations | Hard behaviour | What makes it correct |
|---|---|---|---|---|
| API client, `client.py` | `logged_in`, `token_expiry`, the login lock, the SDK session's token; per call: attempts, elapsed time, the re-login flag | `login`, `invoke` | unlocked reads and writes beside a locked login; tokens that expire or are refused under way; four attempts inside a 12 s wall | one login at a time and only when needed; no request without a token; a refused request is retried with a newer token; bounded cost; every call returns |
| Paging and compaction, `response.py` | none; the cursor carries an offset | `collection_json`, `single_json`, `_compact_records`, `error_json` | the collection changes between pages; records larger than a page; a budget that counts its own envelope | each record once and in order; nothing shown that was not fetched; condition and identity never dropped; truncation declared; a walk ends |
| Name resolution, `resolver.py`, `match_named` in `tools/common.py` | none | `find`, `require_one`, `site_element`, `match_named` | names that are parts of other names or equal to IDs; two lists fetched one after the other | never the element of another site; never one of several; a match is passed over only for a better one |
| Device address, `cli/address.py` | per call: role, candidates, rejected | `resolve_device_address` | statuses fetched one by one while interfaces change; failed requests | the preferred role wins; a tie does not fall through; a failure is explained |
| `run_commands`, `tools/cli.py` and `execute_commands` in `cli/ssh.py` | per call: connection, caps | policy, credentials, resolution, probe, connection, batch, reply | errors at every step; a budget divided over the batch | order of effects; nothing left open; a sibling is not starved; the call returns |
| SSH session, `cli/ssh.py` | the channel and the device at its other end | type, read to a prompt, answer the pager, give up | a device that is slower than the reader, hangs, or stays at its pager | a result has its own command's output, and all of it; failures are their command's own |
| Read tools, `tools/core.py`, `monitoring.py`, `routing_diagnostics.py`, `policies_security.py`, `domains.py`, `discovery.py` | none | some 25 handlers over the same steps | one of several lookups fails; fan-out over lists of any length; a walk with two tokens (basenet) | errors reach the caller; cuts are flagged; bounded lookups; every VPN leg once |
| Executor, `executor.py`, and catalog, `catalog.py` | none; the catalog is a table loaded at start-up | check paths and body, bind to an SDK method by name or list positional candidates, try them in turn, wrap what comes back | an SDK whose signatures the catalog does not describe; a TypeError of the SDK looks like a wrong binding | the arguments arrive whole, the loop ends, an error keeps its status |
| Error contract, `tools/common.py`, `structured_error` in `response.py` | none | `fail_from_upstream`, `handle_error`, `error_json` | one code and a retry flag for what went wrong several layers below | a retry is advised when a lookup failed for a while, and not when it was refused |
| Command policy, `cli/policy.py` | none | `validate_command`, `validate_batch` | forms that overlap: a denial must be reached whichever is tried first | every accepted batch is one of the forms; nothing else has an effect |
| Configuration, `config.py` | the environment | the CLI lane's settings, two spellings each | blank values; numbers that are none, raised half way through a call | a setting that cannot be used stops the call before the device |
| Redaction, value types, runtime, server, resources, prompts, configuration snippets | constants after start-up | pure functions and registration | none that interleave | not modelled, see section 7 |

Interaction is by call except in one place: the client object, which every
thread of the API lane shares.  The CLI lane calls the API lane to find a
device's address.  What the layers above rely on is one call's contract:

    SdwanClient  --keeps-->  InvokeContract  <--relies on--  CapabilityExecutor
                                                                    |
                              SemanticReads  <--implements--   ToolCall

## 2. Modules

| Module | Models | State and actions, and the code they stand for |
|---|---|---|
| `SdwanClient` | `client.py` | Per thread a control point `pc[t]`; the shared `logged_in`, `fresh` (the token is not expired), `login_lock`, `token`.  `CheckLoggedIn` and `CheckExpiry` are the two unlocked reads, `LoginEnter`/`LoginSkip`/`Exchange`/`Profile`/`SetExpiry`/`MarkLoggedIn`/`LoginFails` the steps of `login`, `Send`/`Answered`/`Denied`/`ClearLoggedIn`/`Transient`/`SdkRaises` those of the retry loop |
| `CollectionPages` | `collection_json` and a caller that follows `next_cursor` | The collection, the cursor, and the history `covered` of the indices accounted for.  `ReadPage` is one whole call (fetch, compact, fit to the budget, stub); `RefuseCursor` and `RefuseLimit` its errors; `Arrive` and `Leave` change the collection between calls |
| `Compaction` | `_compact_records` | Operators only: a record maps its fields to the sizes of their values, and a size stands for the value |
| `CollectionWalk` | the promise | Abstract: a position moves forward through a collection until the end or an error |
| `BasenetWalk` | `get_topology(view="basenet")` and its caller | `legOffset` and `cursor` are the two tokens; `ReadPage`, `NextBatch`, `RefuseCursor`, `TopologyFails` |
| `NameMatch` | the tiers: exact ID, exact name, part of a name | Operators over opaque texts; strip, lower and substring are constants |
| `SiteElement` | `site_element` | `ResolveSite` and `ResolveElement`, each with a fetch that may fail |
| `DeviceAddress` | `resolve_device_address` | `ListInterfaces`, `AskStatus`, and `Decide` (choose, refuse a tie, next role, none found); `Flap` changes an interface between two requests |
| `IonSession` | one batch on an open session | The tool types and reads marks from a screen; the device echoes, pages and prompts at its own pace, may hang, and may outlast a read.  `expects` is the line that `find_prompt` returned, a prompt or whatever came last, and `Complete` looks for that line or for the pager; `Alike` are the commands whose pages have a line in common |
| `CommandPolicy` | `cli/policy.py` | Operators only: a command is what the patterns look at, its first word and the kinds of the others |
| `IonSettings` | the CLI lane's part of `config.py` | Operators only: which spelling counts, what is absent, what raises |
| `RunCommands` | one `run_commands` call | EXTENDS the three above: `request` is what the caller and the environment give; `Policy`, `Credentials`, `Target`, `Resolve`, `Probe`, `Connect` are the steps before the session, each with its errors and the settings that raise in it; `Answer` the reply with the caps of the batch and the outline over budget |
| `SemanticReads` | the handlers of the read tools | A handler is a sequence of steps (refuse arguments, resolve, look up, look at the error, keep the error, pick one row, look up each row); `HandlerRaises` is an exception of its own code, which finds a setting that is no number; one plan per group of operations that take the same path |
| `InvokeContract` | the promise of `invoke` | Abstract: one call sends a bounded number of requests, logs in at most once before them and once between, and returns a result that fits what it sent.  No locks, clocks, tokens or other threads |
| `CapabilityExecutor` | `executor.py` over `catalog.py` | `Refuse`, `UnknownCapability`, `Bind`, `TryNext`, `InvokeReturned`; the candidates are computed from the method's parameters as `_signature_call` and `_fallback_candidates` do, and `Fits` is Python's binding of a call |
| `ToolCall` | a read tool down to the SDK, with `tools/common.py` and `structured_error` | `Ask` hands a step of the handler to the executor, `Invoke` is its work, `Take...` is what the handler makes of the answer, `Alone` the steps that ask nobody; `RaisedErrors` is what the except clauses make of an exception, with the one for `ValueError` that `get_monitoring` has before the others; `advice` is the retry flag of the reply |
| `MC...` | | Constants of the instances |
| `...Proofs`, `IndexLemmas` | | Theorems, section 6 |

Composition: `RunCommands` extends `IonSession`, `CommandPolicy` and
`IonSettings`; `ToolCall` extends `SemanticReads` and instantiates
`CapabilityExecutor`, which extends `InvokeContract`; `SiteElement` uses
`NameMatch` and `CollectionPages` uses `Compaction`.

Refinement, each a property of a run and a theorem:

- `SdwanClient` implements `InvokeContract` once per thread (`KeepsContract`):
  what interleaved threads do to the session never shows in one call's bounds.
- `CollectionPages` and `BasenetWalk` each implement `CollectionWalk`.  The two
  mappings are different: a page's position is its cursor, a basenet position is
  the batch's offset plus the cursor in it, and legs that left after they were
  shown still count.
- `ToolCall` implements `SemanticReads` (`CallIsAHandler`): every reply a handler
  gives over the executor and the client is one it gives by itself, so that
  `ErrorsTold`, `CutsFlagged` and `LookupsBounded` carry over.

### How data is abstracted

A token is its number, so newer is larger.  A record is its fields with the
sizes of their values; sizes are in units of serialized text, and budget,
envelope, cursor and stub are constants.  Output of a device is a sequence of
marks: the echo of a command, page p of its output, the pager's marker, the
prompt.  A page is one mark: of the lines on it the model tells apart only the ones
that no other command has and one (`Rule`) that the commands in `Alike` have in
common, and a read that stops in the middle of a page is counted as one that stops
after it.  Names are opaque.  An answer of the controller is its number of rows or
an error.

A capability is its verb, its paths and the signature of its SDK method: the
parameters it names and those it hides behind `*args` or `**kwargs`; a value is
named after what it is, so that a value in the wrong place is a parameter with
another's name.  Status codes are one of each kind the code tells
apart.  A word of a command is the set of patterns that match it.

In `SemanticReads` a step that only some operations of a group take (a name the
caller left out, an argument that is not required) is a step that may pass; the
group has every behaviour of its operations.

## 3. What each run checks

Passing runs:

| Run | Instance | States | Shows |
|---|---|---|---|
| `client_retry` | one thread, the code's limits (4 attempts, 12 s wall in quarter seconds, backoff 0.5 s doubling, jitter 0 or 0.25 s), requests of 0, 4 and 12 s, two calls | 65,201 | `BackoffWithinWall`: no backoff carries a call past the wall.  `RetryUsesNewToken` holds for a lone thread |
| `client_threads` | two threads, two calls, three attempts | 657,211 | `LoginExclusive`, `SingleFlightLogin`, `SendsAuthenticated`, `RetryAfterRenewal`; `KeepsContract`: each thread's call is one of `InvokeContract`; with weak fairness `CallsReturn` |
| `pages` | collections of 0 to 3 records, with empty, small, wide and oversize fields, arrivals and one departure, limits 0, 1, 3, both details | 113,148 | `ExactlyOnce`, `ShownIsFetched`, `ConditionNeverHeld`, `TruncationDeclared`; `OverflowIsTheSuffix`: a page is lost to the budget by the suffix of its summary alone, or without a record when the budget does not hold the envelope; `WalkSpec`: the walk implements `CollectionWalk`; `WalkEnds` |
| `basenet` | up to 12 legs in batches of 4, pages of 1, 3, 5 | 465 | `LegsOnce`, `WalkSpec`, `WalkEnds` |
| `address` | three interfaces of any use, two addresses each, one change of state, requests that fail | 641,560 | `AddressJustified`: the choice is the only one of its role among all that was answered, and no preferred role had one |
| `resolve_safety` | every list of up to three elements with overlapping names and IDs, two pairs of sites, seven arguments each | 338,000 | `NeverOtherSite`, `NeverAutoPicked`; `PassedOverForABetter`: an element that the argument fits, at the site if one was named, is the one returned, unless another fits it more exactly (an ID before a name, a name before a part of one) at whatever site, or one in scope as exactly, and then the error says that there are several |
| `run_safety` | every accepted form of command and one for each reason to deny one; settings in either spelling, blank, missing, no number or out of range; then three commands of 2 and 4 pages, page limit 1, the last one rejected by the device, two of them with a line in common | 137,020 | `OwnOutput`: a result that is not an error has pages of its own command, from the first on, and all of them unless a late line of a command that failed was taken for the prompt and is in its own pages too; `FailsByItself`, `EffectsInOrder`, `NothingLeftOpen`, `CallReturns` |
| `reads` | all operations of `SemanticReads` over the executor and the client's contract, answers of up to 3 rows, ceiling 2, eleven kinds of SDK method, settings that turn out bad | 134,147 | `ErrorsTold`, `CutsFlagged`, `LookupsBounded`; `ArgumentsKept`: the first candidate Python accepts is right; `RetryAdvised`: of a failed lookup the retry flag agrees with how the client's last call ended, but for a login that `get_monitoring` may take for a bad argument; `ToolReturns` |

Each passing run also checks the type invariant of its module (for
`SdwanClient` in `client_retry` only; `reads` checks that of the whole composed
call, `ToolTypeOK`).

Runs that end in a counterexample, each a place where the code and what it says
of itself part:

| Run | Property | What the trace shows |
|---|---|---|
| `client_race` | `RetryUsesNewToken` | A thread whose token was refused clears `logged_in` (client.py:137) without the lock; another thread, at the end of its own login, sets it again; the first thread's `login` then finds the session logged in and retries with the token that was refused.  `RetryAfterRenewal` is what does hold: some login has completed since the refusal |
| `pages_dominant` | `NothingDroppedUnnamed` | A field that is most of a record is kept out of the list of held-back fields (response.py:171), but the selection (response.py:181) goes by names and drops it from every record, unnamed.  The comment at response.py:17 says that it is never held back |
| `run_starved` | `SiblingsNotStarved` | The caps of the batch add up to the whole response budget (tools/cli.py:174), the envelope comes on top, and one oversized output makes the reply an outline without its sibling's output.  cli/ssh.py:396 says that it cannot |
| `reads_masked` | `EmptyIsAnswered` | The interface list is answered with an error, which tools/core.py:233 reads as a list without rows, and the reply is a success that shows none.  tools/core.py:219 says that every interface is returned |

### Properties that do not hold and that no run checks

They stay in the modules, each with a comment, because each is what a reader
would expect.

- `RetryAccounting` (`SdwanClient`): the wall can end the loop early, and the
  error still reports `MAX_ATTEMPTS`.
- `TransientMeansTransient`: a refusal on the last attempt is reported as a
  transient failure.
- `LoginValidated`: the answer of `profile()` is not looked at.
- `WalkNeverFails`, `WithinCeiling` (`CollectionPages`): a page that fits
  exactly fails for the suffix of its summary; a stub is not measured.
- `NeverGuesses` (`DeviceAddress`): a status request answered by an error hides
  an interface, and a tie looks like a single answer.  It holds where no request
  fails, which is proved (`AnsweredNeverGuesses`).
- `NotFoundIsPermanent` (`SiteElement`): a list that could not be fetched ends
  in `not_found`.
- `SamePrecedence`: `match_named` compares IDs with the white space the caller
  left around them, `find` does not.
- `ReadToCompletion` (`IonSession`): a command times out, and its late page comes
  while `find_prompt` waits for the prompt of the next one; the last line of that
  page, the rule of a table, becomes the completion pattern (cli/ssh.py:322), and
  the next command's read ends at the same rule in its own first page, with status
  ok and without the pages after it.  cli/ssh.py:320 says that every command is
  read to completion by the same rule.  `OwnOutput` is what holds, and
  `MistakenPrompt` in it is exactly this excuse.
- `SiblingsStandAlone` (`IonSession`): a device left at its pager answers the
  next command with a page of the one before; `FailsByItself` is what holds.
- `OnlyRateLimitedRetryable` (`RunCommands`): an exception of the resolution is
  an `internal_error`, which is retryable too.
- `RowsSurvive` (`SemanticReads`): a lookup that raises half way through a
  fan-out ends the call and drops the rows before it, and so does a setting that is
  found to be no number after the rows were looked up.
- `UnboundMeansUnsent` (`CapabilityExecutor`): a TypeError that an SDK method
  raises by itself is taken for a wrong binding, so a valid request leaves again
  with other bindings and ends as `invalid_capability_request`.

Further observations are in the models' assumptions or comments and not in a
property.  `OwnOutput` is of batches without a repeated command, which the policy
does not refuse: a command that repeats one that timed out can take that one's
late echo, and its output, for its own.  `RetryAdvised` agrees with
docs/LIVE_VALIDATION.md:336 and docs/TOOL_CATALOG.md:46 only in part: they call
`rate_limited` the one retryable code, and a 5xx status or an `internal_error` is
flagged as well; so is an exception of the handler's own code, as of a fan-out
ceiling that is no number (config.py:39), which no retry mends and of which
`RetryAdvised` says nothing.  In `IonSettings`, `_unset` takes a blank for absent and
`_int_env` raises on it.
The basenet cursor does not name the `leg_offset` it belongs to, so
`BasenetWalk` has the caller exhaust the cursor first; one that copies both
tokens skips legs.  The OSPF fan-out stops at the ceiling without a flag, so
`CutsFlagged` leaves it out.  `ErrorsTold` leaves out the lists of the twelve
operations named in `Unguarded`, which is the set `EmptyIsAnswered` is about.

## 4. Bounds, and why they are enough

- Threads: the client's shared state is one lock, two variables and a token.
  Each hazard is between a thread that logs in and one that is refused or waits,
  and two threads take all of these parts; the proofs cover any number.
- `MaxCalls` bounds the calls of a behaviour.  Two give a call that starts from
  the session another one left; `client_race` needs three calls.
- Attempts: three in `client_threads` are enough for a refusal, a re-login and a
  second refusal; `client_retry` has the code's four.
- Collections of three records with pages of one give a first, a middle and a
  last page, and one arrival or departure at each place.  Sizes were chosen so
  that a page is cut by the limit, by the budget, by one oversize record, and so
  that each pass of compaction is taken.
- Twelve legs are three batches of four; limits 1, 3 and 5 cut a batch into
  ones, unevenly and not at all.
- Three interfaces are the fewest with a tie in one role and an answer in the
  other.
- Three commands: one before and one after the one that fails.  Two with a line in
  common are the fewest of which one can be mistaken for the prompt of the other; the
  same instance passes with three.
- Policy and settings: one command per form and per reason to deny one, one
  environment per way a setting can be wrong; the batch runs only for requests
  that pass, so the instances multiply little.
- Fan-out ceiling 2 and lists of up to 3: below, at and over the ceiling.
- SDK methods: one per way to hide or rename what the catalog names (all named, a
  path renamed, all behind `*args` and `**kwargs`, some of it, nothing but
  `**kwargs`), for GET and POST, and a method that the SDK lacks.  A POST method
  whose path has another name than the catalog's is left out: the body would land
  in the place of the path, and that the SDK has none is an assumption.

`MaxCalls`, `MaxLen`, `MaxLegs`, `MaxFlaps` and `MaxRows` are bounds of the
models; every other constant is a value of the code.  Symmetry is defined for
interfaces and threads and used by no run that checks liveness.

## 5. Fairness, and why the code justifies it

- `SdwanClient`: weak fairness of each thread's `Login(t)` and `Invoke(t)`.
  Worker threads are scheduled by the operating system, and a lock holder is
  never blocked on another thread.  The SDK is assumed to answer or raise.
- `CollectionPages`, `BasenetWalk`: the caller keeps asking.  In
  `CollectionPages` this is written as `[]<>(done) \/ []<><<Asked>>_vars`, which
  is weak fairness of the read spelled out: the read is enabled exactly while the
  walk goes on.
- `RunCommands`: the call's own steps are weakly fair because each read has a
  ceiling; the device is weakly fair while it has not hung, and hanging is an
  action that may be taken at any time.
- `ToolCall`: weak fairness of the tool's next step.  A handler is sequential
  code, and the call of the client below it returns, which is `CallsReturn` of
  `client_threads`.  `ToolReturns` is then not free: the loop over candidates and
  the fan-out must make progress.
- `DeviceAddress`, `SiteElement` are checked for safety only: they are
  straight-line code over finite lists.

Deadlock is not checked in any run: each model ends when its call, walk or
batch has ended.

## 6. What is proved

Every invariant and action property of the passing runs, and every refinement, is
stated by a theorem; the runs show them on small instances, the theorems for
every value of the constants that satisfies the named assumptions of the module
(`ClientAssumption`, `PagesAssumption`, ...).  Most say little more than that
numbers are numbers and sets of inputs are finite.  One is an assumption about
the outside: `SignatureAssumption` says of each SDK method (`WellSigned`) that it
names the paths and the body as the catalog does, or hides them behind
`**kwargs`, or has other names for its paths and takes them in the catalog's
order.  `ArgumentsReachSdk` rests on it, and `ToolTypeCorrect` and `CallRunsDown`
for there being a candidate at all.  TLC evaluates the assumptions on each
instance.

| Module | Theorems | Inductive invariant and why it is needed |
|---|---|---|
| `SdwanClientProofs` | `TypeCorrect`, `LoginIsExclusive`, `RequestsAuthenticated`, `CallsBounded`, `BackoffBounded`, `RenewalPrecedesRetry`, `LoginsSingleFlight`, `CallsKeepContract`, `LoneRetryIsNewer`, `CallsRunDown` | The properties speak of a few control points; `IInv` adds what is known at each of the others: that only the lock's holder can end the state it found (`SessionInv`), how many attempts and exchanges lie behind (`LoopInv`, `ExchangeInv`), when the session is known to carry a token although `logged_in` may have been cleared (`TokenInv`), and that a thread that finds `logged_in` set again after it cleared it has a completed login behind it (`RenewalInv`).  `LoneInv`, for the theorem about a single thread, says that after a refusal the session is either logged out or has a newer token |
| `CollectionPagesProofs` | `TypeCorrect`, `OnceInOrder`, `TruncationHonest`, `PagesImplementWalk`, `ShownAsFetched`, `ConditionAlwaysShown`, `OnlyTheSuffixOverflows` | `covered` is exactly the sequence of indices up to the cursor.  For these what compaction and the budget make of a page is opaque; `ShownAsFetched` and `ConditionAlwaysShown` follow its passes: each keeps the invariant that a record with its shared fields stands for the one fetched.  For `OnlyTheSuffixOverflows` the sizes count: a sum of sizes is a number (`SumIsNatural`), the sum of none is zero, and the records kept are the longest prefix that fits, so that what overflows is what was added after they were chosen |
| `BasenetWalkProofs` | `TypeCorrect`, `ShownOnce`, `NothingMissing`, `BasenetImplementsWalk` | a walk under way never stands at the end of a full batch, so every page but the last shows a leg |
| `DeviceAddressProofs` | `TypeCorrect`, `AddressIsJustified` (from `TiesDoNotFallThrough` and `OneAnswerChosen`), `FailureIsExplained`, `AnsweredNeverGuesses` | the candidates are the eligible ones seen in the current role, earlier roles had none, later roles were not asked |
| `SiteElementProofs` | `TypeCorrect`, `OtherSitesExcluded`, `OnlyBestMatch`, `BestIsReturned` | the element returned was the only one in scope among the best matches; a competitor would have been a second.  For `BestIsReturned`: what `Find` returns are the elements that fit most exactly of all (`FindIsBest`), so one that fits and is not among them has a better one before it, and one that is among them is returned or has a second beside it |
| `RunCommandsProofs` | `TypeCorrect`, `ResultsAreTheBatch`, `OrderKept`, `SessionClosed`, `OutputIsOwn`, `FailuresExplained`, `CallRunsDown` | what each step knows of the checks before it (`Passed`), that a session is open during the batch and at no other time, and that the results are the batch up to the current command.  `BatchInv`, for `OutputIsOwn` and `FailuresExplained`, says at each point of a read what is typed, coming and on the screen: an output holds marks of its own command alone, and as long as every command before went well the tool and the device are at the same page.  That a result has no gap, and is cut only with the excuse, needs more of the channel: what is left there of earlier commands (`LeftOver`), that nothing of a command comes before it is typed, so that what was taken for its prompt is not its own (`Unseen`), and that a page with the common line is of the command at hand as long as no earlier one failed without output (`Strays`) |
| `ToolCallProofs` | `TypeCorrect`, `ErrorsAreTold`, `CutsAreFlagged`, `LookupsAreBounded`, `CallIsAHandler`, `RepliesAreRight`, `AdviceIsRight`, `ToolTypeCorrect`, `ArgumentsReachSdk`, `CallRunsDown` | The handlers are data: `PlansWellFormed` says of every plan that a guard follows its lookup, that an operation outside `Unguarded` guards every lookup, and that a fan-out comes last and flags what it cuts.  It is proved plan by plan, and all that follows uses nothing else of a plan.  The bound on lookups counts the single lookups of the steps passed (`SinglesBefore`).  `ToolTypeCorrect` needs `Running`: while the loop is on and no request is out, a candidate is left.  `ArgumentsReachSdk` follows the candidates by position (`AmongTakes`): the ones before the first that fits are refused by Python before anything is sent, and that one puts each value in its own place |

`IndexLemmas` has the facts about sequences that several modules need: the
indices of the two walks, sequences that are functions, and `LeastNumber`, that a
set of numbers has a least one.  It takes the place of induction, which the
provers cannot instantiate: a fact about every length of a sequence, or about
what a recursive function adds up to, is proved by the least length for which it
would fail.  A refinement theorem has two parts: initial states map to initial
states, and each step maps to a step of the abstract module or to a stutter.

Only model-checked: liveness (`CallsReturn`, `WalkEnds` twice, `CallReturns`,
`ToolReturns`), which rests on fairness and ENABLED.  The part of it that rests on
neither is proved: `CallsRunDown` and the two `CallRunsDown` say that each step of
a call lowers a measure of what it has left, a sequence of numbers of which the
first that changes goes down (`Lower`), and `NoEndlessDescent` in `IndexLemmas`
that no such measure goes down for ever.  In `SdwanClient` the measure is one per
thread, and no step of another thread changes it; in `RunCommands` it covers the
device too.  What TLC adds is that a call does not stand still before its end.

Where a proof failed, the model was wrong in one place: `OverflowIsTheSuffix` had
no case for a budget below the size of the envelope.  MCP_MAX_RESPONSE_BYTES may
be as low as 1 (config.py), and a reply is then lost to the budget without a
record in it; the instance of `pages`, with a budget above its envelope, does not
reach this.

## 7. What is not modelled, and why

- Redaction (`safety.py`, `cli/redact.py`): pure functions over keys and texts;
  what they rewrite is data that no property tells apart.
- Value types, runtime: read-only after start-up.  `runtime.initialize` runs when
  `server.py` is imported, before any thread.
- The settings of the API lane are constants of the models; where the `.env` file
  is looked for is left out.
- The JSON schema of a request body: one verdict of `CapabilityExecutor`.
- Projections, counters, digests, metric pivots, time windows: formatting of one
  answer.
- Server, transport, resources, prompts, `generate_site_config`: registration and
  text.
- What `disconnect` raises: it is swallowed (cli/ssh.py:514-517), and the session
  counts as closed.
- The lookups of the resolver are not among those `LookupsBounded` counts: they are
  one list for a name, or two for a site and an element.  `match_named` is modelled
  by its tiers, which `find` has too (`NameMatch`); no run asks it by itself.
- Vendor SDK, netmiko, the MCP library, the controller and the devices are
  external and modelled from how the code uses them.  In `IonSession` the device
  is assumed to echo a command when it reads it; in `ToolCall` one step of the
  resolver is one lookup, and a TypeError is the SDK method's and never the
  login's.

## 8. Plan

Done, in the order of importance: the shared client (`SdwanClient`), the paged
reads (`CollectionPages`, `Compaction`, `CollectionWalk`), the resolution of
devices (`NameMatch`, `SiteElement`, `DeviceAddress`), the CLI lane
(`IonSession`, `CommandPolicy`, `IonSettings`, `RunCommands`), the basenet walk and
the other handlers (`BasenetWalk`, `SemanticReads`), the executor between handlers
and client (`InvokeContract`, `CapabilityExecutor`, `ToolCall`), and the theorems
of section 6.

Left:

1. `RunCommands` composed with `DeviceAddress` in place of its outcome, and that
   with the executor and the client under it.
2. `ToolCall` under the client's clock: in what time a fan-out ends when the
   controller throttles.
3. A single object's reply (`single_json`, `_outline`) as a part of its own; it is
   modelled where `run_commands` uses it.
4. Proofs about the compositions of 1 and 2, from the theorems about their parts.
