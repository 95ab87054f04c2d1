----------------------------- MODULE RunCommands -----------------------------
(***************************************************************************)
(* One call of the run_commands tool, from the policy to the reply         *)
(* (src/prisma_sdwan_mcp/tools/cli.py and execute_commands in cli/ssh.py). *)
(* What is accepted is CommandPolicy, with which settings IonSettings; the *)
(* batch itself is IonSession; the resolution of the address is            *)
(* DeviceAddress, of which only the outcome is taken here.                 *)
(***************************************************************************)
EXTENDS IonSession, CommandPolicy, IonSettings, Functions

CONSTANTS
  PageBytes,       \* size of a page of each command's output
  Requests,        \* what callers and configurations give
  MAX_COMMANDS,    \* the most commands of a batch, if nothing else is configured
  ION_MAX,         \* the cap of a batch's output, if nothing else is configured
  BUDGET,          \* get_max_response_bytes()
  MIN_CAP,         \* MIN_PER_COMMAND_OUTPUT_BYTES
  ENVELOPE         \* size of a response without the outputs

ASSUME RunAssumption ==
  /\ PageBytes \in [ToSet(Batch) -> Nat]
  /\ MAX_COMMANDS \in Nat /\ ION_MAX \in Nat /\ BUDGET \in Nat /\ MIN_CAP \in Nat /\ ENVELOPE \in Nat
  /\ Batch # <<>>

\* What is asked for: the commands as the policy sees them, if they come as a list,
\* the settings in force, and what the commands are addressed to
Request ==
  [list : BOOLEAN, commands : Seq(Commands), env : Environments,
   element : BOOLEAN, host : BOOLEAN]

\* validate_batch, under the configured limit
Allowed(r) ==
  r.list /\ BatchApproved(r.commands, IntEnv(r.env["max_commands"], MAX_COMMANDS))

\* The batch that is run is the one that was allowed
ASSUME RequestAssumption ==
  \A r \in Requests : r \in Request /\ (Allowed(r) => Len(r.commands) = Len(Batch))

VARIABLES
  request,      \* what the caller and the configuration give
  pc,           \* step of the call
  did,          \* the outside effects it has had
  connection,   \* "none", "open" or "closed"
  reply

vars == <<session, request, pc, did, connection, reply>>

Steps == {"policy", "credentials", "target", "resolve", "probe", "connect", "session", "done"}
NoReply == [kind |-> "none"]

\* What the exception of a failed connection says
Traits == {"host_key", "authentication", "reset"}

TypeOK ==
  /\ SessionTypeOK
  /\ request \in Requests
  /\ pc \in Steps
  /\ did \subseteq {"resolve", "probe", "connect"}
  /\ connection \in {"none", "open", "closed"}
  /\ reply.kind \in {"none", "error", "raised", "run", "outline"}
  /\ pc = "done" <=> reply.kind # "none"

-----------------------------------------------------------------------------
(* Errors *)

\* error_json: the codes of structured_error that are retryable, and 5xx
Retryable(code) == code \in {"rate_limited", "internal_error"}

\* Mutant: the tool ends without an answer
FailSilently(code) == pc' = "done" /\ UNCHANGED <<reply, connection>>

\* Nothing is open when an error is returned
Fail(code) ==
  /\ reply' = [kind |-> "error", code |-> code, retryable |-> Retryable(code)]
  /\ pc' = "done"
  /\ UNCHANGED connection

\* A setting that is no number is an exception that nothing in the tool catches
Raise(setting) ==
  /\ Raises(request.env[setting])
  /\ reply' = [kind |-> "raised", setting |-> setting]
  /\ pc' = "done"
  /\ UNCHANGED connection

\* The settings that are looked at between the address and the session
Limits == {"max_output", "timeout"}

\* Order in which execute_commands classifies the exception of a connection,
\* as _CONNECTION_ERROR_CODES names it
ConnectionCode(traits) ==
  CASE "host_key" \in traits -> "host_key_unverified"
    [] "authentication" \in traits -> "device_authentication_failed"
    [] "reset" \in traits -> "rate_limited"
    [] OTHER -> "device_connection_failed"

-----------------------------------------------------------------------------
(* The steps, in the order the tool has them *)

\* Mutant: the address is resolved before the credentials are looked at
PolicyThenTarget ==
  /\ pc = "policy"
  /\ Allowed(request) /\ pc' = "target"
  /\ UNCHANGED <<reply, connection, did>>

\* The limit is not looked at unless there is a list
Policy ==
  /\ pc = "policy"
  /\ \/ request.list /\ Raise("max_commands")
     \/ /\ request.list => ~Raises(request.env["max_commands"])
        /\ \/ Allowed(request) /\ pc' = "credentials" /\ UNCHANGED <<reply, connection>>
           \/ ~Allowed(request) /\ Fail("policy_denied")
  /\ UNCHANGED did

Credentials ==
  /\ pc = "credentials"
  /\ \/ Configured(request.env) /\ pc' = "target" /\ UNCHANGED <<reply, connection>>
     \/ ~Configured(request.env) /\ Fail("configuration_error")
  /\ UNCHANGED did

\* The port is looked up, then an explicit host always wins
Target ==
  /\ pc = "target"
  /\ IF ~request.host /\ ~request.element
       THEN Fail("invalid_argument")
       ELSE \/ Raise("port")
            \/ /\ ~Raises(request.env["port"])
               /\ pc' = IF request.host THEN "probe" ELSE "resolve"
               /\ UNCHANGED <<reply, connection>>
  /\ UNCHANGED did

\* resolve_device_address ends in an address or raises; a failed login of the
\* API client is an exception like any other
Resolve ==
  /\ pc = "resolve"
  /\ did' = did \cup {"resolve"}
  /\ \/ pc' = "probe" /\ UNCHANGED <<reply, connection>>
     \/ \E code \in {"not_found", "ambiguous_match", "invalid_capability_request",
                     "invalid_argument", "internal_error"} : Fail(code)

\* build_connection_kwargs refuses what it cannot use, then the probe
Probe ==
  /\ pc = "probe"
  /\ \/ (\E s \in Limits : Raise(s)) /\ UNCHANGED did
     \/ /\ \A s \in Limits : ~Raises(request.env[s])
        /\ ~Usable(request.env)
        /\ Fail("invalid_argument") /\ UNCHANGED did
     \/ /\ \A s \in Limits : ~Raises(request.env[s])
        /\ Usable(request.env)
        /\ did' = did \cup {"probe"}
        /\ \/ pc' = "connect" /\ UNCHANGED <<reply, connection>>
           \/ Fail("device_unreachable")

Connect ==
  /\ pc = "connect"
  /\ did' = did \cup {"connect"}
  /\ \/ /\ connection' = "open"
        /\ pc' = "session" /\ UNCHANGED reply
     \/ \E traits \in SUBSET Traits : Fail(ConnectionCode(traits))

Outside == Policy \/ Credentials \/ Target \/ Resolve \/ Probe \/ Connect

-----------------------------------------------------------------------------
(* The reply *)

Least(a, b) == IF a < b THEN a ELSE b
Most(a, b) == IF a < b THEN b ELSE a

\* The cap of each command: the response budget divided over the batch
Cap == Most(MIN_CAP, Least(IntEnv(request.env["max_output"], ION_MAX), BUDGET \div Len(Batch)))

Bytes(result) == Len(result.pages) * PageBytes[result.command]
Shown(result) == Least(Bytes(result), Cap)
ReplySize == ENVELOPE + SumFunction([i \in DOMAIN results |-> Shown(results[i])])

\* Mutant: the session is not closed when the batch had an error
CloseUnlessFailed ==
  connection' = IF \E i \in DOMAIN results : results[i].status = "error"
                  THEN connection ELSE "closed"

\* The finally clause
Disconnect == connection' = "closed"

\* single_json: the reply as it is, or its outline
Answer ==
  /\ pc = "session" /\ at = "ended"
  /\ Disconnect
  /\ reply' = IF ReplySize <= BUDGET
                THEN [kind |-> "run", results |-> [i \in DOMAIN results |-> Shown(results[i])]]
                ELSE [kind |-> "outline", results |-> <<>>]
  /\ pc' = "done"
  /\ UNCHANGED did

-----------------------------------------------------------------------------
Init ==
  /\ request \in Requests
  /\ pc = "policy" /\ did = {} /\ connection = "none" /\ reply = NoReply
  /\ slow \in BOOLEAN
  /\ typed = <<>> /\ showing = <<>> /\ paused = FALSE /\ alive = TRUE /\ screen = <<>>
  /\ at = "next" /\ current = 1 /\ expects = Prompt /\ output = <<>> /\ paged = 0
  /\ results = <<>>

Call ==
  \/ (Outside \/ Answer) /\ UNCHANGED <<session, request>>
  \/ pc = "session" /\ Tool /\ UNCHANGED <<slow, request, pc, did, connection, reply>>

\* The device is at the other end while a session is open
Other ==
  /\ pc = "session"
  /\ Device \/ Hangs
  /\ UNCHANGED <<slow, request, pc, did, connection, reply>>

Next == Call \/ Other
Spec == Init /\ [][Next]_vars

\* The tool runs on, and a device that has not hung does what it is told
FairSpec ==
  /\ Spec
  /\ WF_vars(Call)
  /\ WF_vars(pc = "session" /\ Device /\ UNCHANGED <<slow, request, pc, did, connection, reply>>)

-----------------------------------------------------------------------------
(* Properties *)

\* The setting says something, in either spelling
Said(setting) == \E i \in {1, 2} : Says(request.env[setting][i])

\* A policy denial reaches nothing outside, nor do credentials that are missing or
\* one too many; a given host is not resolved; nothing is opened that was not
\* probed, and nothing probed with settings a session cannot use; and a call that
\* ends in an error or an exception has typed nothing on the device, so that the
\* retry that some errors advise repeats no command.
EffectsInOrder ==
  /\ did # {} =>
       /\ Allowed(request)
       /\ Said("username") /\ ~(Said("password") <=> Said("private_key"))
  /\ "resolve" \in did => request.element /\ ~request.host
  /\ "probe" \in did => Usable(request.env)
  /\ "connect" \in did => "probe" \in did
  /\ reply.kind \in {"error", "raised"} => current = 1 /\ at = "next" /\ typed = <<>>

\* Every way out leaves no session open on the device.
NothingLeftOpen == pc = "done" => connection # "open"

\* A call ends, also when the device hangs in the middle of a page.
CallReturns == <>(pc = "done")

\* rate_limited is the only retryable error of the tool.  No run checks it, for
\* it does not hold: an exception of the resolution is an internal_error.
OnlyRateLimitedRetryable ==
  reply.kind = "error" /\ reply.retryable => reply.code = "rate_limited"

\* One oversized command cannot starve its batch siblings: a command whose
\* output is within its cap is shown.
SiblingsNotStarved ==
  reply.kind = "outline" => \A i \in DOMAIN results : Bytes(results[i]) > Cap
=============================================================================
