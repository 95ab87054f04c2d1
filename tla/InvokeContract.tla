--------------------------- MODULE InvokeContract ---------------------------
(***************************************************************************)
(* What one call of PrismaSDWANClient.invoke promises its caller, without  *)
(* locks, clocks, tokens or other threads: a bounded number of requests    *)
(* and logins, and a result that fits what was sent.  SdwanClient keeps it *)
(* for each of its threads; CapabilityExecutor relies on it for each       *)
(* candidate it tries.                                                     *)
(***************************************************************************)
EXTENDS Naturals

CONSTANT MAX_ATTEMPTS   \* requests per call, client.py:20

VARIABLES
  busy,     \* the call has not returned
  sends,    \* requests sent by the call
  logins,   \* login exchanges made by the call
  result    \* what the last call returned or raised

contract == <<busy, sends, logins, result>>

NoResult == [kind |-> "none", status |-> "none", retry_count |-> 0]

\* Results a call may have: an answer or an exception of the SDK follows a
\* request, a refusal that is reported as one follows two (the second after a
\* new login), a transient failure never reports fewer requests than it sent,
\* and a refusal reported as a transient failure was the last request allowed.
Promised(r) ==
  \/ r.kind \in {"answer", "sdk_error"} /\ sends >= 1
  \/ r.kind = "auth_error" /\ r.status = "denied" /\ sends >= 2
  \/ /\ r.kind = "transient_error" /\ r.status = "transient"
     /\ sends >= 1 /\ r.retry_count >= sends
  \/ r.kind = "transient_error" /\ r.status = "denied" /\ sends = MAX_ATTEMPTS
  \/ r.kind = "raised"

Idle == busy = FALSE /\ sends = 0 /\ logins = 0 /\ result = NoResult

Called ==
  /\ busy = FALSE /\ busy' = TRUE
  /\ sends' = 0 /\ logins' = 0 /\ result' = NoResult

\* One login before the first request, one more after a refused one
LogsIn ==
  /\ busy
  /\ logins < (IF sends = 0 THEN 1 ELSE 2)
  /\ logins' = logins + 1
  /\ UNCHANGED <<busy, sends, result>>

Sends ==
  /\ busy /\ sends < MAX_ATTEMPTS
  /\ sends' = sends + 1
  /\ UNCHANGED <<busy, logins, result>>

Returns(r) ==
  /\ busy /\ Promised(r)
  /\ busy' = FALSE /\ result' = r
  /\ UNCHANGED <<sends, logins>>

Step == Called \/ LogsIn \/ Sends \/ Returns(result')

Contract == Idle /\ [][Step]_contract
=============================================================================
