----------------------------- MODULE SdwanClient -----------------------------
(***************************************************************************)
(* The authenticated, retrying SDK client that every API tool goes through *)
(* (src/prisma_sdwan_mcp/client.py).  FastMCP runs the synchronous tools   *)
(* in worker threads, and one client object serves them all, so `invoke`   *)
(* and `login` interleave: only `login` takes the lock, while `invoke`     *)
(* reads logged_in / token_expiry and clears logged_in without it.         *)
(*                                                                         *)
(* Time.  The wall clock appears in the code in two ways.  Token expiry is *)
(* the Boolean `fresh` (now < token_expiry), which may turn FALSE at any   *)
(* moment.  The retry wall is measured per call: elapsed[t] is             *)
(* time.monotonic() - started, advanced by the time a request, a           *)
(* re-login or a backoff takes.                                            *)
(*                                                                         *)
(* The controller and the SDK are external: a request may be answered in   *)
(* any of the ways `invoke` tells apart, and a login may fail at each of   *)
(* its calls.                                                              *)
(***************************************************************************)
EXTENDS Naturals

CONSTANTS
  Threads,          \* worker threads of the server
  NoThread,         \* the lock is free
  MaxCalls,         \* bound on the number of invoke() calls of a behaviour
  MAX_ATTEMPTS,     \* requests per call, client.py:20
  MAX_RETRY_WALL,   \* MAX_RETRY_WALL_SECONDS in clock units, client.py:21
  BACKOFF_UNIT,     \* the 0.5 s of the backoff in clock units, client.py:147
  Jitters,          \* values of random.uniform(0, 0.25) in clock units
  CallTimes,        \* durations of one SDK request
  LoginTimes        \* durations of one re-login, waiting for the lock included

\* delay before attempt a + 1, without jitter (client.py:147)
Backoff(a) == BACKOFF_UNIT * 2 ^ (a - 1)

ASSUME ClientAssumption ==
  /\ NoThread \notin Threads
  /\ MaxCalls \in Nat
  /\ MAX_ATTEMPTS \in Nat \ {0}
  /\ MAX_RETRY_WALL \in Nat
  /\ BACKOFF_UNIT \in Nat
  /\ Jitters \subseteq Nat
  /\ CallTimes \subseteq Nat
  /\ LoginTimes \subseteq Nat

\* The backoff of every attempt is a number: arithmetic the provers do not
\* do on exponents, evaluated by TLC.
ASSUME BackoffAssumption == \A a \in 1..MAX_ATTEMPTS : Backoff(a) \in Nat

VARIABLES
  logged_in,   \* self.logged_in
  fresh,       \* not self._is_token_expired()
  login_lock,  \* self._login_lock: its holder, or NoThread
  token,       \* number of the token the SDK session carries, 0 before any
  completed,   \* number of logins that ran to their end
  validated,   \* the last token whose profile call succeeded, 0 before any
  calls        \* number of calls begun (bound)

\* Of each thread: where it is in invoke / login, and its call's locals
VARIABLES
  pc,
  attempt,         \* the loop variable; 0 before the loop
  reauthenticated,
  elapsed,         \* time.monotonic() - started
  sends,           \* requests really sent
  logins,          \* login exchanges this call made
  sent,            \* token of the request in flight
  rejected,        \* token last answered 401 or 403
  cleared_at,      \* `completed` when it cleared logged_in
  result           \* what its last call returned or raised

client == <<logged_in, fresh, login_lock, token, completed, validated, calls>>
counts == <<sends, logins, sent, rejected, cleared_at>>
locals == <<attempt, reauthenticated, elapsed, counts>>
vars == <<client, pc, locals, result>>

-----------------------------------------------------------------------------
(* Types *)

LoginPcs == {"exchange", "profile", "expiry", "mark"}
Sending == {"send", "woken"}
Pcs == {"idle", "check", "check_expiry", "acquire", "wait", "clear"} \cup Sending \cup LoginPcs
Statuses == {"none", "denied", "transient"}
Kinds == {"none", "answer", "auth_error", "sdk_error", "transient_error", "raised"}
Result == [kind : Kinds, status : Statuses, retry_count : Nat]

TypeOK ==
  /\ logged_in \in BOOLEAN
  /\ fresh \in BOOLEAN
  /\ login_lock \in Threads \cup {NoThread}
  /\ token \in Nat /\ completed \in Nat /\ validated \in Nat
  /\ calls \in 0..MaxCalls
  /\ pc \in [Threads -> Pcs]
  /\ attempt \in [Threads -> 0..MAX_ATTEMPTS]
  /\ reauthenticated \in [Threads -> BOOLEAN]
  /\ elapsed \in [Threads -> Nat]
  /\ sends \in [Threads -> Nat]
  /\ logins \in [Threads -> Nat]
  /\ sent \in [Threads -> Nat]
  /\ rejected \in [Threads -> Nat]
  /\ cleared_at \in [Threads -> Nat]
  /\ result \in [Threads -> Result]

-----------------------------------------------------------------------------
(* Helpers *)

Set(f, t, v) == [f EXCEPT ![t] = v]

Goto(t, l) == pc' = Set(pc, t, l)

ResultOf(kind, status, count) ==
  [kind |-> kind, status |-> status, retry_count |-> count]

\* invoke returns, or an exception of login leaves it
Return(t, kind, status, count) ==
  /\ Goto(t, "idle")
  /\ result' = Set(result, t, ResultOf(kind, status, count))

\* The loop's next iteration
NextAttempt(t, l) ==
  /\ Goto(t, l)
  /\ attempt' = Set(attempt, t, attempt[t] + 1)
  /\ UNCHANGED result

\* Mutant: the loop has no last iteration
AfterLoopNever(t, status) == NextAttempt(t, "send")

\* The code after the loop: MAX_ATTEMPTS is reported whatever the loop did
AfterLoop(t, status) ==
  /\ Return(t, "transient_error", status, MAX_ATTEMPTS)
  /\ UNCHANGED attempt

\* What follows login(): the loop starts (and with it the clock), or the
\* request just denied is given its next iteration, if one is left.
AfterLogin(t) ==
  \/ /\ attempt[t] = 0
     /\ NextAttempt(t, "send")
     /\ UNCHANGED <<reauthenticated, elapsed>>
  \/ /\ attempt[t] > 0
     /\ reauthenticated' = Set(reauthenticated, t, TRUE)
     /\ \E d \in LoginTimes : elapsed' = Set(elapsed, t, elapsed[t] + d)
     /\ IF attempt[t] < MAX_ATTEMPTS
          THEN NextAttempt(t, "send")
          ELSE AfterLoop(t, "denied")

-----------------------------------------------------------------------------
(* invoke, up to the loop *)

Init ==
  /\ logged_in = FALSE
  /\ fresh = FALSE
  /\ login_lock = NoThread
  /\ token = 0 /\ completed = 0 /\ validated = 0
  /\ calls = 0
  /\ pc = [t \in Threads |-> "idle"]
  /\ attempt = [t \in Threads |-> 0]
  /\ reauthenticated = [t \in Threads |-> FALSE]
  /\ elapsed = [t \in Threads |-> 0]
  /\ sends = [t \in Threads |-> 0]
  /\ logins = [t \in Threads |-> 0]
  /\ sent = [t \in Threads |-> 0]
  /\ rejected = [t \in Threads |-> 0]
  /\ cleared_at = [t \in Threads |-> 0]
  /\ result = [t \in Threads |-> ResultOf("none", "none", 0)]

\* A tool calls invoke(): its locals start afresh
Begin(t) ==
  /\ pc[t] = "idle"
  /\ calls < MaxCalls
  /\ calls' = calls + 1
  /\ Goto(t, "check")
  /\ attempt' = Set(attempt, t, 0)
  /\ reauthenticated' = Set(reauthenticated, t, FALSE)
  /\ elapsed' = Set(elapsed, t, 0)
  /\ sends' = Set(sends, t, 0)
  /\ logins' = Set(logins, t, 0)
  /\ sent' = Set(sent, t, 0)
  /\ rejected' = Set(rejected, t, 0)
  /\ cleared_at' = Set(cleared_at, t, 0)
  /\ result' = Set(result, t, ResultOf("none", "none", 0))
  /\ UNCHANGED <<logged_in, fresh, login_lock, token, completed, validated>>

\* `not self.logged_in or self._is_token_expired()`: two unlocked reads
CheckLoggedIn(t) ==
  /\ pc[t] = "check"
  /\ Goto(t, IF logged_in THEN "check_expiry" ELSE "acquire")
  /\ UNCHANGED <<client, locals, result>>

CheckExpiry(t) ==
  /\ pc[t] = "check_expiry"
  /\ IF fresh
       THEN NextAttempt(t, "send")
       ELSE Goto(t, "acquire") /\ UNCHANGED <<attempt, result>>
  /\ UNCHANGED <<client, reauthenticated, elapsed, counts>>

\* time.time() reaches token_expiry
Expire ==
  /\ fresh
  /\ fresh' = FALSE
  /\ UNCHANGED <<logged_in, login_lock, token, completed, validated, calls,
                 pc, locals, result>>

-----------------------------------------------------------------------------
(* login, under the lock *)

\* The early return: the lock is taken, the session is found good, the lock
\* is released.  One step: while t holds the lock logged_in and fresh can
\* only turn FALSE, so the two reads see what one of their moments shows.
LoginSkip(t) ==
  /\ pc[t] = "acquire"
  /\ login_lock = NoThread
  /\ logged_in /\ fresh
  /\ AfterLogin(t)
  /\ UNCHANGED <<client, counts>>

\* Mutant: no second look at the session once the lock is held
LoginEnterUnchecked(t) ==
  /\ pc[t] = "acquire" /\ login_lock = NoThread
  /\ login_lock' = t /\ Goto(t, "exchange")
  /\ UNCHANGED <<logged_in, fresh, token, completed, validated, calls, locals, result>>

LoginEnter(t) ==
  /\ pc[t] = "acquire"
  /\ login_lock = NoThread
  /\ ~(logged_in /\ fresh)
  /\ login_lock' = t
  /\ Goto(t, "exchange")
  /\ UNCHANGED <<logged_in, fresh, token, completed, validated, calls, locals, result>>

\* login_secret answers: the SDK session carries a new token from here on,
\* for every thread
Exchange(t) ==
  /\ pc[t] = "exchange"
  /\ token' = token + 1
  /\ logins' = Set(logins, t, logins[t] + 1)
  /\ Goto(t, "profile")
  /\ UNCHANGED <<logged_in, fresh, login_lock, completed, validated, calls,
                 attempt, reauthenticated, elapsed, sends, sent, rejected,
                 cleared_at, result>>

\* Mutants: the lock is not freed on the way out; the failure is swallowed
LoginFailsLocked(t) ==
  /\ pc[t] \in {"exchange", "profile"}
  /\ Return(t, "raised", "none", 0)
  /\ UNCHANGED <<client, locals>>

LoginFailsSilently(t) ==
  /\ pc[t] \in {"exchange", "profile"}
  /\ login_lock' = NoThread
  /\ AfterLogin(t)
  /\ UNCHANGED <<logged_in, fresh, token, completed, validated, calls, counts>>

\* Missing credentials, a falsy answer or an exception of login_secret, or an
\* exception of profile(): it leaves login and invoke, `with` frees the lock
LoginFails(t) ==
  /\ pc[t] \in {"exchange", "profile"}
  /\ login_lock' = NoThread
  /\ Return(t, "raised", "none", 0)
  /\ UNCHANGED <<logged_in, fresh, token, completed, validated, calls, locals>>

\* profile() answers, with success (`ok`) or with an error status; the
\* answer is not looked at
Profile(t, ok) ==
  /\ pc[t] = "profile"
  /\ validated' = IF ok THEN token ELSE validated
  /\ Goto(t, "expiry")
  /\ UNCHANGED <<logged_in, fresh, login_lock, token, completed, calls, locals, result>>

\* token_expiry is set at least one second ahead
SetExpiry(t) ==
  /\ pc[t] = "expiry"
  /\ fresh' = TRUE
  /\ Goto(t, "mark")
  /\ UNCHANGED <<logged_in, login_lock, token, completed, validated, calls,
                 locals, result>>

MarkLoggedIn(t) ==
  /\ pc[t] = "mark"
  /\ logged_in' = TRUE
  /\ completed' = completed + 1
  /\ login_lock' = NoThread
  /\ AfterLogin(t)
  /\ UNCHANGED <<fresh, token, validated, calls, counts>>

-----------------------------------------------------------------------------
(* the loop *)

Send(t) ==
  /\ pc[t] \in Sending
  /\ Goto(t, "wait")
  /\ sent' = Set(sent, t, token)
  /\ sends' = Set(sends, t, sends[t] + 1)
  /\ UNCHANGED <<client, attempt, reauthenticated, elapsed, logins, rejected,
                 cleared_at, result>>

\* the SDK raised: reported as an error dict, never retried
SdkRaises(t) ==
  /\ pc[t] = "wait"
  /\ Return(t, "sdk_error", "none", 0)
  /\ UNCHANGED <<client, locals>>

\* success, or an error status that is neither 401/403 nor transient
Answered(t) ==
  /\ pc[t] = "wait"
  /\ Return(t, "answer", "none", 0)
  /\ UNCHANGED <<client, locals>>

\* Mutant: `reauthenticated` is never looked at
DeniedAlwaysRenews(t) ==
  /\ pc[t] = "wait" /\ Goto(t, "clear")
  /\ rejected' = Set(rejected, t, sent[t])
  /\ UNCHANGED <<client, attempt, reauthenticated, elapsed, sends, logins, sent,
                 cleared_at, result>>

\* 401 or 403: once, the session is renewed and the request tried again
Denied(t) ==
  /\ pc[t] = "wait"
  /\ rejected' = Set(rejected, t, sent[t])
  /\ \E d \in CallTimes : elapsed' = Set(elapsed, t, elapsed[t] + d)
  /\ IF reauthenticated[t]
       THEN Return(t, "auth_error", "denied", 0)
       ELSE Goto(t, "clear") /\ UNCHANGED result
  /\ UNCHANGED <<client, attempt, reauthenticated, sends, logins, sent, cleared_at>>

\* Mutant: login is called with the session still marked good
ClearLoggedInMissing(t) ==
  /\ pc[t] = "clear" /\ Goto(t, "acquire")
  /\ cleared_at' = Set(cleared_at, t, completed)
  /\ UNCHANGED <<client, attempt, reauthenticated, elapsed, sends, logins, sent,
                 rejected, result>>

\* logged_in is cleared without the lock
ClearLoggedIn(t) ==
  /\ pc[t] = "clear"
  /\ logged_in' = FALSE
  /\ cleared_at' = Set(cleared_at, t, completed)
  /\ Goto(t, "acquire")
  /\ UNCHANGED <<fresh, login_lock, token, completed, validated, calls, attempt,
                 reauthenticated, elapsed, sends, logins, sent, rejected, result>>

\* What is left of the wall after a request, and the sleep cut to it
Remaining(spent) == IF spent < MAX_RETRY_WALL THEN MAX_RETRY_WALL - spent ELSE 0

\* Mutant: the delay is not cut
DelayUncut(a, jitter, spent) == Backoff(a) + jitter

Delay(a, jitter, spent) ==
  IF Backoff(a) + jitter < Remaining(spent) THEN Backoff(a) + jitter ELSE Remaining(spent)

\* 429 or 5xx with attempts left: sleep and try again, or leave the loop once
\* nothing is left of the wall
Transient(t) ==
  /\ pc[t] = "wait"
  /\ attempt[t] < MAX_ATTEMPTS
  /\ \E d \in CallTimes, jitter \in Jitters :
       LET spent == elapsed[t] + d
       IN IF Remaining(spent) = 0
            THEN /\ elapsed' = Set(elapsed, t, spent)
                 /\ AfterLoop(t, "transient")
            ELSE /\ elapsed' = Set(elapsed, t, spent + Delay(attempt[t], jitter, spent))
                 /\ NextAttempt(t, "woken")
  /\ UNCHANGED <<client, reauthenticated, counts>>

\* 429 or 5xx on the last attempt
TransientLast(t) ==
  /\ pc[t] = "wait"
  /\ attempt[t] >= MAX_ATTEMPTS
  /\ Return(t, "transient_error", "transient", attempt[t])
  /\ UNCHANGED <<client, locals>>

-----------------------------------------------------------------------------
Login(t) ==
  \/ LoginSkip(t) \/ LoginEnter(t) \/ Exchange(t) \/ LoginFails(t)
  \/ \E ok \in BOOLEAN : Profile(t, ok)
  \/ SetExpiry(t) \/ MarkLoggedIn(t)

Invoke(t) ==
  \/ CheckLoggedIn(t) \/ CheckExpiry(t)
  \/ Send(t) \/ SdkRaises(t) \/ Answered(t) \/ Denied(t) \/ ClearLoggedIn(t)
  \/ Transient(t) \/ TransientLast(t)

Next ==
  \/ Expire
  \/ \E t \in Threads : Begin(t) \/ Login(t) \/ Invoke(t)

Spec == Init /\ [][Next]_vars

\* Every request and login call of the SDK ends (it has its own timeouts) and
\* a thread that can run does; nothing obliges tools to begin calls or tokens
\* to expire.
Fairness == \A t \in Threads : WF_vars(Login(t)) /\ WF_vars(Invoke(t))
FairSpec == Spec /\ Fairness

-----------------------------------------------------------------------------
(* Properties *)

\* The login section has one thread at a time and it is the lock's holder; an
\* exception never leaves the lock behind (login's `with self._login_lock`).
LoginExclusive ==
  \A t \in Threads : pc[t] \in LoginPcs <=> login_lock = t

\* Single flight: a new token is asked for only while the session is logged
\* out or expired, however many threads queued for the lock meanwhile
\* (the re-check under the lock at the head of login).
SingleFlightLogin ==
  [][token' # token => ~(logged_in /\ fresh)]_vars

\* No request leaves before some login has completed its exchange, whichever
\* thread made it and whichever logins failed (invoke's check, login's raises).
SendsAuthenticated ==
  \A t \in Threads : pc[t] \in Sending \cup {"wait", "clear"} => token > 0

\* The cost of one call is bounded: at most MAX_ATTEMPTS requests and two login
\* exchanges, so a resource that is simply forbidden (403) cannot set off a
\* login per attempt (the `reauthenticated` flag of invoke).
CallCostBounded ==
  \A t \in Threads :
    /\ sends[t] <= MAX_ATTEMPTS
    /\ logins[t] <= 2

\* A backoff never carries a call past the retry wall: the request that follows
\* one leaves at or before MAX_RETRY_WALL (the cut of the delay to `remaining`).
BackoffWithinWall ==
  \A t \in Threads :
    pc[t] = "woken" => elapsed[t] <= MAX_RETRY_WALL

\* A refused request is tried again only after a login has run to its end since
\* the refusal, its own or one that another thread completed while this one
\* waited for the lock (logged_in cleared before login, login's re-check).
RetryAfterRenewal ==
  \A t \in Threads :
    (pc[t] \in Sending \cup {"wait"} /\ reauthenticated[t])
      => completed > cleared_at[t]

\* Re-authentication on 401/403: a request retried after a refusal leaves with
\* a newer token than the one refused.
RetryUsesNewToken ==
  \A t \in Threads :
    (pc[t] = "wait" /\ reauthenticated[t]) => sent[t] > rejected[t]

\* Retry accounting: the number of attempts a transient failure reports is the
\* number of requests sent.  It does not hold when the retry wall ends the loop,
\* so no run checks it.
RetryAccounting ==
  \A t \in Threads :
    result[t].kind = "transient_error" => result[t].retry_count = sends[t]

\* A call reported as a transient failure ended on a transient status.  It
\* does not hold for a refusal on the last attempt, so no run checks it.
TransientMeansTransient ==
  \A t \in Threads :
    result[t].kind = "transient_error" => result[t].status = "transient"

\* profile() validates the login: the session is marked logged in only with a
\* token whose profile call succeeded.  It does not hold, for the answer of
\* profile() is not looked at, so no run checks it.
LoginValidated ==
  [][~logged_in /\ logged_in' => token = validated]_vars

\* The call of each thread keeps the contract of InvokeContract, whatever the
\* other threads do to the session meanwhile: at most MAX_ATTEMPTS requests, one
\* login before the first and one after a refusal, and a result that fits the
\* requests sent (invoke's loop and its returns).
Call(t) == INSTANCE InvokeContract WITH
  busy <- pc[t] # "idle", sends <- sends[t], logins <- logins[t], result <- result[t]
KeepsContract ==
  /\ \A t \in Threads : Call(t)!Idle
  /\ [][\A t \in Threads : [Call(t)!Step]_(Call(t)!contract)]_vars

\* Every call returns or raises, whatever the others do with the lock.
CallsReturn == \A t \in Threads : pc[t] # "idle" ~> pc[t] = "idle"
=============================================================================
