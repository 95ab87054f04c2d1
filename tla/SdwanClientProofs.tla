-------------------------- MODULE SdwanClientProofs --------------------------
(***************************************************************************)
(* Proofs about SdwanClient, for any set of threads, any number of calls   *)
(* and any value of the client's limits.  IInv strengthens the invariants  *)
(* of the model to one that every step preserves: it says what is known of *)
(* the session and of a call at each of its control points.                *)
(***************************************************************************)
EXTENDS SdwanClient, IndexLemmas, TLAPS

\* A session once marked logged in had a token; the holder of the lock found it
\* logged out or expired, and only the holder can change that.
SessionInv ==
  /\ logged_in => token > 0
  /\ \A t \in Threads :
       pc[t] \in {"exchange", "profile", "expiry"} => ~(logged_in /\ fresh)

\* The requests sent and the flag of the re-login, at each control point
LoopInv ==
  \A t \in Threads :
    /\ sends[t] <= attempt[t]
    /\ pc[t] \notin {"idle"} \cup Sending => sends[t] = attempt[t]
    /\ pc[t] \in Sending => sends[t] + 1 = attempt[t]
    /\ pc[t] \in {"check", "check_expiry"} => attempt[t] = 0
    /\ pc[t] \in {"wait", "clear"} => attempt[t] > 0
    /\ pc[t] \in Sending \cup {"wait"} /\ reauthenticated[t] => attempt[t] > 1
    /\ attempt[t] = 0 => ~reauthenticated[t]
    /\ pc[t] \in {"clear", "acquire"} \cup LoginPcs => ~reauthenticated[t]

\* The login exchanges of a call, at each control point
ExchangeInv ==
  \A t \in Threads :
    /\ logins[t] <= 2
    /\ pc[t] \in {"check", "check_expiry"} => logins[t] = 0
    /\ pc[t] \in {"acquire", "exchange"} => logins[t] <= (IF attempt[t] = 0 THEN 0 ELSE 1)
    /\ pc[t] \in {"profile", "expiry", "mark"} =>
         logins[t] <= (IF attempt[t] = 0 THEN 1 ELSE 2)
    /\ pc[t] \in Sending \cup {"wait", "clear"} =>
         logins[t] <= (IF reauthenticated[t] THEN 2 ELSE 1)

\* When the SDK session is known to carry a token
TokenInv ==
  \A t \in Threads :
    \/ pc[t] \in {"idle", "check"}
    \/ pc[t] \in {"acquire", "exchange"} /\ attempt[t] = 0
    \/ token > 0

\* What a call that cleared logged_in knows when it finds it set again
RenewalInv ==
  \A t \in Threads :
    /\ cleared_at[t] <= completed
    /\ (pc[t] = "acquire" /\ attempt[t] > 0 /\ logged_in) => completed > cleared_at[t]

IInv ==
  /\ TypeOK
  /\ LoginExclusive
  /\ SessionInv
  /\ LoopInv
  /\ ExchangeInv
  /\ TokenInv
  /\ RenewalInv
  /\ BackoffWithinWall
  /\ RetryAfterRenewal

-----------------------------------------------------------------------------
LEMMA InitIInv == Init => IInv
<1> SUFFICES ASSUME Init PROVE IInv
  OBVIOUS
<1> USE ClientAssumption DEF Init, Pcs, Sending, LoginPcs
<1>1. TypeOK
  <2>1. ResultOf("none", "none", 0) \in Result
    BY DEF ResultOf, Result, Kinds, Statuses
  <2>2. result \in [Threads -> Result]
    BY <2>1
  <2>3. /\ logged_in \in BOOLEAN /\ fresh \in BOOLEAN
        /\ reauthenticated \in [Threads -> BOOLEAN]
    BY Zenon
  <2>4. /\ attempt \in [Threads -> 0..MAX_ATTEMPTS]
        /\ calls \in 0..MaxCalls
    OBVIOUS
  <2>5. QED
    BY <2>2, <2>3, <2>4 DEF TypeOK
<1>2. LoginExclusive /\ SessionInv /\ LoopInv
  BY DEF LoginExclusive, SessionInv, LoopInv
<1>3. ExchangeInv /\ TokenInv /\ RenewalInv
  BY DEF ExchangeInv, TokenInv, RenewalInv
<1>4. BackoffWithinWall /\ RetryAfterRenewal
  BY DEF BackoffWithinWall, RetryAfterRenewal
<1>5. QED
  BY <1>1, <1>2, <1>3, <1>4 DEF IInv

\* The three ways a call goes on after login, spelled out
LEMMA AfterLoginCases ==
  ASSUME TypeOK, NEW t \in Threads, AfterLogin(t)
  PROVE  \/ /\ attempt[t] = 0
            /\ pc' = [pc EXCEPT ![t] = "send"]
            /\ attempt' = [attempt EXCEPT ![t] = 1]
            /\ UNCHANGED <<reauthenticated, elapsed, result>>
         \/ /\ attempt[t] > 0 /\ attempt[t] < MAX_ATTEMPTS
            /\ pc' = [pc EXCEPT ![t] = "send"]
            /\ attempt' = [attempt EXCEPT ![t] = attempt[t] + 1]
            /\ reauthenticated' = [reauthenticated EXCEPT ![t] = TRUE]
            /\ \E d \in Nat : elapsed' = [elapsed EXCEPT ![t] = elapsed[t] + d]
            /\ UNCHANGED result
         \/ /\ attempt[t] > 0
            /\ pc' = [pc EXCEPT ![t] = "idle"]
            /\ attempt' = attempt
            /\ reauthenticated' = [reauthenticated EXCEPT ![t] = TRUE]
            /\ \E d \in Nat : elapsed' = [elapsed EXCEPT ![t] = elapsed[t] + d]
            /\ \E r \in Result : result' = [result EXCEPT ![t] = r]
<1>1. ResultOf("transient_error", "denied", MAX_ATTEMPTS) \in Result
  BY ClientAssumption DEF ResultOf, Result, Kinds, Statuses
<1>2. CASE attempt[t] = 0
  BY <1>2 DEF AfterLogin, NextAttempt, Goto, Set, TypeOK
<1>3. CASE attempt[t] > 0
  <2>1. reauthenticated' = [reauthenticated EXCEPT ![t] = TRUE]
    BY <1>3 DEF AfterLogin, Set
  <2>2. \E d \in Nat : elapsed' = [elapsed EXCEPT ![t] = elapsed[t] + d]
    BY <1>3, ClientAssumption DEF AfterLogin, Set
  <2>3. CASE attempt[t] < MAX_ATTEMPTS
    BY <1>3, <2>1, <2>2, <2>3 DEF AfterLogin, NextAttempt, Goto, Set
  <2>4. CASE ~(attempt[t] < MAX_ATTEMPTS)
    <3>1. AfterLoop(t, "denied")
      <4>1. attempt[t] # 0
        BY <1>3
      <4>2. QED
        BY <2>4, <4>1 DEF AfterLogin
    <3>2. QED
      BY <1>1, <1>3, <2>1, <2>2, <3>1 DEF AfterLoop, Return, Goto, Set
  <2>5. QED
    BY <2>3, <2>4
<1>4. QED
  BY <1>2, <1>3 DEF TypeOK

LEMMA AfterLoginType ==
  ASSUME TypeOK, NEW t \in Threads, AfterLogin(t)
  PROVE  /\ pc' \in [Threads -> Pcs]
         /\ attempt' \in [Threads -> 0..MAX_ATTEMPTS]
         /\ reauthenticated' \in [Threads -> BOOLEAN]
         /\ elapsed' \in [Threads -> Nat]
         /\ result' \in [Threads -> Result]
<1> USE ClientAssumption DEF TypeOK
<1>1. pc' \in [Threads -> Pcs]
  BY AfterLoginCases DEF Pcs, Sending
<1>2. attempt' \in [Threads -> 0..MAX_ATTEMPTS]
  BY AfterLoginCases
<1>3. reauthenticated' \in [Threads -> BOOLEAN]
  BY AfterLoginCases
<1>4. elapsed' \in [Threads -> Nat]
  BY AfterLoginCases
<1>5. result' \in [Threads -> Result]
  BY AfterLoginCases
<1>6. QED
  BY <1>1, <1>2, <1>3, <1>4, <1>5

\* One step per action: in each, what the action changes is spelled out and the
\* other threads are where they were.
LEMMA StepIInv == IInv /\ [Next]_vars => IInv'
<1> SUFFICES ASSUME IInv, [Next]_vars
             PROVE  IInv'
  OBVIOUS
<1> USE ClientAssumption
    DEF IInv, TypeOK, LoginExclusive, SessionInv, LoopInv, ExchangeInv, TokenInv,
        RenewalInv, BackoffWithinWall, RetryAfterRenewal, Pcs, Sending, LoginPcs,
        Set, Goto
<1>1. CASE UNCHANGED vars
  BY <1>1 DEF vars, client, locals, counts
<1>2. CASE Expire
  BY <1>2 DEF Expire, locals, counts
<1>3. ASSUME NEW t \in Threads, Begin(t)
      PROVE  IInv'
  BY <1>3 DEF Begin, ResultOf, Result, Kinds, Statuses
<1>4. ASSUME NEW t \in Threads, Login(t)
      PROVE  IInv'
  <2>1. CASE LoginSkip(t)
    <3>1. /\ AfterLogin(t)
          /\ UNCHANGED <<client, counts>>
          /\ pc[t] = "acquire" /\ logged_in
      BY <2>1 DEF LoginSkip
    <3>2. TypeOK'
      BY <3>1, AfterLoginType DEF client, counts
    <3>3. LoginExclusive' /\ SessionInv'
      BY <3>1, AfterLoginCases DEF client, counts
    <3>4. LoopInv' /\ ExchangeInv'
      BY <3>1, AfterLoginCases DEF client, counts
    <3>5. TokenInv' /\ RenewalInv' /\ BackoffWithinWall' /\ RetryAfterRenewal'
      BY <3>1, AfterLoginCases DEF client, counts
    <3>6. QED
      BY <3>2, <3>3, <3>4, <3>5
  <2>2. CASE LoginEnter(t)
    BY <2>2 DEF LoginEnter, locals, counts
  <2>3. CASE Exchange(t)
    BY <2>3 DEF Exchange
  <2>4. CASE LoginFails(t)
    BY <2>4 DEF LoginFails, Return, ResultOf, Result, Kinds, Statuses, locals, counts
  <2>5. ASSUME NEW ok \in BOOLEAN, Profile(t, ok)
        PROVE  IInv'
    BY <2>5 DEF Profile, locals, counts
  <2>6. CASE SetExpiry(t)
    BY <2>6 DEF SetExpiry, locals, counts
  <2>7. CASE MarkLoggedIn(t)
    <3>1. /\ AfterLogin(t)
          /\ UNCHANGED <<fresh, token, validated, calls, counts>>
          /\ logged_in' = TRUE /\ completed' = completed + 1 /\ login_lock' = NoThread
          /\ pc[t] = "mark"
      BY <2>7 DEF MarkLoggedIn
    <3>2. TypeOK'
      BY <3>1, AfterLoginType DEF counts
    <3>3. LoginExclusive' /\ SessionInv'
      BY <3>1, AfterLoginCases DEF counts
    <3>4. LoopInv' /\ ExchangeInv'
      BY <3>1, AfterLoginCases DEF counts
    <3>5. TokenInv' /\ RenewalInv' /\ BackoffWithinWall' /\ RetryAfterRenewal'
      BY <3>1, AfterLoginCases DEF counts
    <3>6. QED
      BY <3>2, <3>3, <3>4, <3>5
  <2>8. QED
    BY <1>4, <2>1, <2>2, <2>3, <2>4, <2>5, <2>6, <2>7 DEF Login
<1>5. ASSUME NEW t \in Threads, Invoke(t)
      PROVE  IInv'
  <2>1. CASE CheckLoggedIn(t)
    BY <2>1 DEF CheckLoggedIn, client, locals, counts
  <2>2. CASE CheckExpiry(t)
    BY <2>2 DEF CheckExpiry, NextAttempt, client, counts
  <2>3. CASE Send(t)
    BY <2>3 DEF Send, client
  <2>4. CASE SdkRaises(t)
    BY <2>4 DEF SdkRaises, Return, ResultOf, Result, Kinds, Statuses, client, locals, counts
  <2>5. CASE Answered(t)
    BY <2>5 DEF Answered, Return, ResultOf, Result, Kinds, Statuses, client, locals, counts
  <2>6. CASE Denied(t)
    <3>1. /\ rejected' = [rejected EXCEPT ![t] = sent[t]]
          /\ \E d \in Nat : elapsed' = [elapsed EXCEPT ![t] = elapsed[t] + d]
          /\ UNCHANGED <<client, attempt, reauthenticated, sends, logins, sent, cleared_at>>
          /\ pc[t] = "wait"
      BY <2>6 DEF Denied
    <3>2. CASE reauthenticated[t]
      <4>1. Return(t, "auth_error", "denied", 0)
        BY <2>6, <3>2 DEF Denied
      <4>2. QED
        BY <3>1, <4>1 DEF Return, ResultOf, Result, Kinds, Statuses, client
    <3>3. CASE ~reauthenticated[t]
      <4>1. pc' = [pc EXCEPT ![t] = "clear"] /\ result' = result
        BY <2>6, <3>3 DEF Denied
      <4>2. QED
        BY <3>1, <3>3, <4>1 DEF client
    <3>4. QED
      BY <3>2, <3>3
  <2>7. CASE ClearLoggedIn(t)
    <3>1. TypeOK' /\ LoginExclusive' /\ SessionInv'
      BY <2>7 DEF ClearLoggedIn
    <3>2. LoopInv' /\ ExchangeInv' /\ TokenInv'
      BY <2>7 DEF ClearLoggedIn
    <3>3. RenewalInv' /\ BackoffWithinWall' /\ RetryAfterRenewal'
      BY <2>7 DEF ClearLoggedIn
    <3>4. QED
      BY <3>1, <3>2, <3>3
  <2>8. CASE Transient(t)
    <3>1. PICK d \in CallTimes, jitter \in Jitters :
            IF Remaining(elapsed[t] + d) = 0
              THEN /\ elapsed' = Set(elapsed, t, elapsed[t] + d)
                   /\ AfterLoop(t, "transient")
              ELSE /\ elapsed' = Set(elapsed, t, elapsed[t] + d
                                      + Delay(attempt[t], jitter, elapsed[t] + d))
                   /\ NextAttempt(t, "woken")
      BY <2>8 DEF Transient
    <3> DEFINE spent == elapsed[t] + d
    <3>2. /\ UNCHANGED <<client, reauthenticated, counts>>
          /\ pc[t] = "wait" /\ attempt[t] < MAX_ATTEMPTS
      BY <2>8 DEF Transient
    <3>3. spent \in Nat
      OBVIOUS
    <3>4. CASE Remaining(spent) = 0
      <4>1. elapsed' = [elapsed EXCEPT ![t] = spent] /\ AfterLoop(t, "transient")
        BY <3>1, <3>4
      <4>2. QED
        BY <3>2, <3>3, <4>1
        DEF AfterLoop, Return, ResultOf, Result, Kinds, Statuses, client, counts
    <3>5. CASE Remaining(spent) # 0
      <4>1. /\ elapsed' = [elapsed EXCEPT ![t] = spent + Delay(attempt[t], jitter, spent)]
            /\ NextAttempt(t, "woken")
        BY <3>1, <3>5
      <4>2. Backoff(attempt[t]) \in Nat
        BY <3>2, BackoffAssumption
      <4>3. /\ spent + Delay(attempt[t], jitter, spent) \in Nat
            /\ spent + Delay(attempt[t], jitter, spent) <= MAX_RETRY_WALL
        BY <3>3, <3>5, <4>2 DEF Delay, Remaining
      <4> DEFINE woken == spent + Delay(attempt[t], jitter, spent)
      <4> HIDE DEF woken
      <4>4. elapsed' = [elapsed EXCEPT ![t] = woken] /\ woken \in Nat /\ woken <= MAX_RETRY_WALL
        BY <4>1, <4>3 DEF woken
      <4>5. QED
        BY <3>2, <4>1, <4>4 DEF NextAttempt, client, counts
    <3>6. QED
      BY <3>4, <3>5
  <2>9. CASE TransientLast(t)
    BY <2>9 DEF TransientLast, Return, ResultOf, Result, Kinds, Statuses, client, locals, counts
  <2>10. QED
    BY <1>5, <2>1, <2>2, <2>3, <2>4, <2>5, <2>6, <2>7, <2>8, <2>9 DEF Invoke
<1>6. QED
  BY <1>1, <1>2, <1>3, <1>4, <1>5 DEF Next

\* The invariant holds in every reachable state.
LEMMA Invariance == Spec => []IInv
BY InitIInv, StepIInv, PTL DEF Spec

-----------------------------------------------------------------------------
(* The theorems *)

\* Every variable keeps its type: in particular the loop variable stays within
\* MAX_ATTEMPTS and the lock is free or held by a thread.
THEOREM TypeCorrect == Spec => []TypeOK
<1>1. IInv => TypeOK
  BY DEF IInv
<1>2. QED
  BY <1>1, Invariance, PTL

\* Mutual exclusion of the login section, exceptions included: any two threads
\* inside it are the lock's one holder.
THEOREM LoginIsExclusive == Spec => []LoginExclusive
<1>1. IInv => LoginExclusive
  BY DEF IInv
<1>2. QED
  BY <1>1, Invariance, PTL

\* No request leaves the client unauthenticated.
THEOREM RequestsAuthenticated == Spec => []SendsAuthenticated
<1>1. IInv => SendsAuthenticated
  BY DEF IInv, TokenInv, SendsAuthenticated, Sending
<1>2. QED
  BY <1>1, Invariance, PTL

\* A call costs at most MAX_ATTEMPTS requests and two login exchanges.
THEOREM CallsBounded == Spec => []CallCostBounded
<1>1. IInv => CallCostBounded
  <2> SUFFICES ASSUME IInv, NEW t \in Threads
               PROVE  sends[t] <= MAX_ATTEMPTS /\ logins[t] <= 2
    BY DEF CallCostBounded
  <2>1. attempt[t] \in 0..MAX_ATTEMPTS /\ sends[t] \in Nat
    BY DEF IInv, TypeOK
  <2>2. sends[t] <= attempt[t] /\ logins[t] <= 2
    BY DEF IInv, LoopInv, ExchangeInv
  <2>3. QED
    BY <2>1, <2>2, ClientAssumption
<1>2. QED
  BY <1>1, Invariance, PTL

\* A request that follows a backoff leaves within the retry wall, whatever the
\* requests before it took.
THEOREM BackoffBounded == Spec => []BackoffWithinWall
<1>1. IInv => BackoffWithinWall
  BY DEF IInv
<1>2. QED
  BY <1>1, Invariance, PTL

\* A refused request is retried only after a login completed since the refusal.
THEOREM RenewalPrecedesRetry == Spec => []RetryAfterRenewal
<1>1. IInv => RetryAfterRenewal
  BY DEF IInv
<1>2. QED
  BY <1>1, Invariance, PTL

\* A token is asked for only while the session is logged out or expired: of the
\* threads that queue for the lock, the first renews the session for all.
THEOREM LoginsSingleFlight == Spec => SingleFlightLogin
<1>1. IInv /\ [Next]_vars => [token' # token => ~(logged_in /\ fresh)]_vars
  <2> SUFFICES ASSUME IInv, Next, token' # token
               PROVE  ~(logged_in /\ fresh)
    OBVIOUS
  <2>1. PICK t \in Threads : Login(t) \/ Begin(t) \/ Invoke(t)
    BY DEF Next, Expire
  <2>2. Exchange(t)
    BY <2>1 DEF Login, Begin, Invoke, LoginSkip, LoginEnter, LoginFails, Profile, SetExpiry,
       MarkLoggedIn, CheckLoggedIn, CheckExpiry, Send, SdkRaises, Answered, Denied,
       ClearLoggedIn, Transient, TransientLast, client
  <2>3. QED
    BY <2>2 DEF Exchange, IInv, SessionInv
<1>2. QED
  BY <1>1, Invariance, PTL DEF Spec, SingleFlightLogin

-----------------------------------------------------------------------------
(* The contract of a call *)

\* What each step is to the contract of thread t's call
LEMMA StepKeepsContract ==
  ASSUME IInv, [Next]_vars, NEW t \in Threads
  PROVE  [Call(t)!Step]_(Call(t)!contract)
<1> USE ClientAssumption
    DEF IInv, TypeOK, LoopInv, ExchangeInv, Pcs, Sending, LoginPcs, Set, Goto,
        Call!contract, Call!Step, Call!Called, Call!LogsIn, Call!Sends, Call!Returns,
        Call!NoResult
<1>1. CASE UNCHANGED vars
  BY <1>1 DEF vars, client, locals, counts
<1>2. CASE Expire
  BY <1>2 DEF Expire, locals, counts
<1>3. ASSUME NEW u \in Threads, Begin(u)
      PROVE  [Call(t)!Step]_(Call(t)!contract)
  BY <1>3 DEF Begin, ResultOf
<1>4. ASSUME NEW u \in Threads, LoginSkip(u) \/ MarkLoggedIn(u)
      PROVE  [Call(t)!Step]_(Call(t)!contract)
  <2>1. AfterLogin(u) /\ UNCHANGED counts /\ pc[u] \in {"acquire", "mark"}
    BY <1>4 DEF LoginSkip, MarkLoggedIn
  <2>2. CASE attempt[u] > 0 /\ ~(attempt[u] < MAX_ATTEMPTS)
    <3>1. AfterLoop(u, "denied")
      <4>1. attempt[u] # 0
        BY <2>2
      <4>2. QED
        BY <2>1, <2>2, <4>1 DEF AfterLogin
    <3>2. sends[u] = MAX_ATTEMPTS
      BY <2>1, <2>2
    <3>3. QED
      BY <2>1, <3>1, <3>2 DEF AfterLoop, Return, ResultOf, counts, Call!Promised
  <2>3. CASE ~(attempt[u] > 0 /\ ~(attempt[u] < MAX_ATTEMPTS))
    BY <2>1, <2>3 DEF AfterLogin, NextAttempt, counts
  <2>4. QED
    BY <2>2, <2>3
<1>5. ASSUME NEW u \in Threads,
             LoginEnter(u) \/ SetExpiry(u) \/ CheckLoggedIn(u) \/ CheckExpiry(u)
               \/ ClearLoggedIn(u) \/ \E ok \in BOOLEAN : Profile(u, ok)
      PROVE  [Call(t)!Step]_(Call(t)!contract)
  BY <1>5 DEF LoginEnter, SetExpiry, CheckLoggedIn, CheckExpiry, NextAttempt, ClearLoggedIn,
     Profile, client, locals, counts
<1>6. ASSUME NEW u \in Threads, Exchange(u)
      PROVE  [Call(t)!Step]_(Call(t)!contract)
  BY <1>6 DEF Exchange
<1>7. ASSUME NEW u \in Threads, LoginFails(u) \/ SdkRaises(u) \/ Answered(u)
      PROVE  [Call(t)!Step]_(Call(t)!contract)
  BY <1>7 DEF LoginFails, SdkRaises, Answered, Return, ResultOf, locals, counts, Call!Promised
<1>8. ASSUME NEW u \in Threads, Send(u)
      PROVE  [Call(t)!Step]_(Call(t)!contract)
  BY <1>8 DEF Send
<1>9. ASSUME NEW u \in Threads, Denied(u)
      PROVE  [Call(t)!Step]_(Call(t)!contract)
  BY <1>9 DEF Denied, Return, ResultOf, Call!Promised
<1>10. ASSUME NEW u \in Threads, Transient(u) \/ TransientLast(u)
       PROVE  [Call(t)!Step]_(Call(t)!contract)
  BY <1>10 DEF Transient, TransientLast, AfterLoop, NextAttempt, Return, ResultOf, counts,
     locals, Call!Promised
<1>11. QED
  BY <1>1, <1>2, <1>3, <1>4, <1>5, <1>6, <1>7, <1>8, <1>9, <1>10 DEF Next, Login, Invoke

\* Whatever the other threads do, a call is a call of InvokeContract: what a
\* caller of the client may rely on without knowing of locks, tokens and clocks.
THEOREM CallsKeepContract == Spec => KeepsContract
<1>1. Init => \A t \in Threads : Call(t)!Idle
  <2> SUFFICES ASSUME Init, NEW t \in Threads PROVE Call(t)!Idle
    OBVIOUS
  <2>1. pc[t] = "idle" /\ sends[t] = 0 /\ logins[t] = 0
    BY DEF Init
  <2> QED
    BY <2>1 DEF Init, Call!Idle, Call!NoResult, ResultOf
<1>2. IInv /\ [Next]_vars => [\A t \in Threads : [Call(t)!Step]_(Call(t)!contract)]_vars
  BY StepKeepsContract
<1>3. QED
  BY <1>1, <1>2, Invariance, PTL DEF Spec, KeepsContract

-----------------------------------------------------------------------------
(* A lone thread *)

\* Without another thread nobody sets logged_in while a refused call waits to
\* log in, and the token it was refused with is left behind.
LoneInv ==
  \A t \in Threads :
    /\ sent[t] <= token /\ rejected[t] <= token
    /\ pc[t] = "acquire" /\ attempt[t] > 0 => ~logged_in
    /\ pc[t] \in {"profile", "expiry", "mark"} => token > rejected[t]
    /\ pc[t] \in Sending /\ reauthenticated[t] => token > rejected[t]
    /\ pc[t] = "wait" /\ reauthenticated[t] => sent[t] > rejected[t]

LEMMA InitLoneInv == Init => LoneInv
<1> SUFFICES ASSUME Init PROVE LoneInv
  OBVIOUS
<1>1. ASSUME NEW t \in Threads
      PROVE  /\ sent[t] <= token /\ rejected[t] <= token
             /\ pc[t] = "idle"
  BY DEF Init
<1>2. ASSUME NEW t \in Threads
      PROVE  /\ ~(pc[t] = "acquire") /\ ~(pc[t] = "wait")
             /\ pc[t] \notin {"profile", "expiry", "mark"} /\ pc[t] \notin Sending
  BY <1>1 DEF Sending
<1>3. QED
  BY <1>1, <1>2, Zenon DEF LoneInv

LEMMA StepLoneInv ==
  ASSUME \A s, t \in Threads : s = t, IInv, LoneInv, [Next]_vars
  PROVE  LoneInv'
<1> USE ClientAssumption
    DEF IInv, TypeOK, LoopInv, LoneInv, Pcs, Sending, LoginPcs, Set, Goto
<1>1. CASE UNCHANGED vars
  BY <1>1 DEF vars, client, locals, counts
<1>2. CASE Expire
  BY <1>2 DEF Expire, locals, counts
<1>3. ASSUME NEW t \in Threads, Begin(t)
      PROVE  LoneInv'
  BY <1>3 DEF Begin
<1>4. ASSUME NEW t \in Threads, LoginSkip(t) \/ MarkLoggedIn(t)
      PROVE  LoneInv'
  BY <1>4, AfterLoginCases DEF LoginSkip, MarkLoggedIn, client, counts
<1>5. ASSUME NEW t \in Threads, LoginEnter(t) \/ Exchange(t) \/ LoginFails(t)
                               \/ SetExpiry(t) \/ \E ok \in BOOLEAN : Profile(t, ok)
      PROVE  LoneInv'
  BY <1>5 DEF LoginEnter, Exchange, LoginFails, Return, SetExpiry, Profile, locals, counts
<1>6. ASSUME NEW t \in Threads, CheckLoggedIn(t) \/ CheckExpiry(t)
      PROVE  LoneInv'
  BY <1>6 DEF CheckLoggedIn, CheckExpiry, NextAttempt, client, locals, counts
<1>7. ASSUME NEW t \in Threads, Send(t) \/ SdkRaises(t) \/ Answered(t)
      PROVE  LoneInv'
  BY <1>7 DEF Send, SdkRaises, Answered, Return, client, locals, counts
<1>8. ASSUME NEW t \in Threads, Denied(t) \/ ClearLoggedIn(t)
      PROVE  LoneInv'
  BY <1>8 DEF Denied, Return, ClearLoggedIn, client
<1>9. ASSUME NEW t \in Threads, Transient(t) \/ TransientLast(t)
      PROVE  LoneInv'
  BY <1>9 DEF Transient, TransientLast, AfterLoop, NextAttempt, Return, client, locals, counts
<1>10. QED
  BY <1>1, <1>2, <1>3, <1>4, <1>5, <1>6, <1>7, <1>8, <1>9 DEF Next, Login, Invoke

\* With one worker thread a refused request is retried with a newer token: what
\* goes wrong in the run client_race takes a second thread.
THEOREM LoneRetryIsNewer ==
  ASSUME \A s, t \in Threads : s = t
  PROVE  Spec => []RetryUsesNewToken
<1>1. Init => LoneInv
  BY InitLoneInv
<1>2. IInv /\ LoneInv /\ [Next]_vars => LoneInv'
  BY StepLoneInv
<1>3. LoneInv => RetryUsesNewToken
  BY DEF LoneInv, RetryUsesNewToken
<1>4. QED
  BY <1>1, <1>2, <1>3, Invariance, PTL DEF Spec

-----------------------------------------------------------------------------
(* A call runs down *)

\* What a call has left to do: attempts, and on the way to each what is done under
\* the lock.
StageLeft(t) ==
  CASE pc[t] = "check" -> 10 [] pc[t] = "check_expiry" -> 9 [] pc[t] \in Sending -> 8
    [] pc[t] = "wait" -> 7 [] pc[t] = "clear" -> 6 [] pc[t] = "acquire" -> 5
    [] pc[t] = "exchange" -> 4 [] pc[t] = "profile" -> 3 [] pc[t] = "expiry" -> 2
    [] pc[t] = "mark" -> 1 [] OTHER -> 0
Left(t) == <<MAX_ATTEMPTS - attempt[t], StageLeft(t)>>

\* A step of a call begins an attempt, or takes the one under way further.
LEMMA OwnStepRunsDown ==
  ASSUME TypeOK, NEW t \in Threads, Login(t) \/ Invoke(t)
  PROVE  Lower(Left(t)', Left(t))
<1>1. /\ DOMAIN Left(t) = 1..2
      /\ Left(t)[1] = MAX_ATTEMPTS - attempt[t] /\ Left(t)[2] = StageLeft(t)
      /\ Left(t)'[1] = MAX_ATTEMPTS - attempt'[t] /\ Left(t)'[2] = StageLeft(t)'
  BY DEF Left
<1>2. attempt[t] \in Nat /\ MAX_ATTEMPTS \in Nat
  BY ClientAssumption DEF TypeOK
<1>a. ASSUME attempt'[t] = attempt[t] + 1 PROVE Lower(Left(t)', Left(t))
  <2>1. Left(t)'[1] < Left(t)[1]
    BY <1>1, <1>2, <1>a
  <2> QED
    BY <1>1, <2>1 DEF Lower
<1>s. ASSUME attempt'[t] = attempt[t], StageLeft(t)' < StageLeft(t)
      PROVE  Lower(Left(t)', Left(t))
  <2>1. Left(t)'[1] = Left(t)[1] /\ Left(t)'[2] < Left(t)[2]
    BY <1>1, <1>s
  <2>2. \A j \in 1..(2 - 1) : Left(t)'[j] = Left(t)[j]
    BY <2>1
  <2> QED
    BY <1>1, <2>1, <2>2 DEF Lower
<1>l. ASSUME AfterLogin(t), pc[t] \in {"acquire", "mark"} PROVE Lower(Left(t)', Left(t))
  <2>1. pc \in [Threads -> Pcs] /\ attempt \in [Threads -> 0..MAX_ATTEMPTS]
    BY DEF TypeOK
  <2>2. CASE attempt' = [attempt EXCEPT ![t] = attempt[t] + 1]
    BY <1>a, <2>1, <2>2
  <2>3. CASE attempt' = attempt /\ pc' = [pc EXCEPT ![t] = "idle"]
    <3>1. pc'[t] = "idle" /\ attempt'[t] = attempt[t]
      BY <2>1, <2>3
    <3> QED
      BY <1>l, <1>s, <3>1 DEF StageLeft, Sending
  <2>4. attempt[t] = 0 => attempt' = [attempt EXCEPT ![t] = attempt[t] + 1]
    BY <1>l, <1>2 DEF AfterLogin, NextAttempt, Set
  <2> QED
    BY <1>l, <2>2, <2>3, <2>4, AfterLoginCases
<1>g. ASSUME NEW l, Goto(t, l), attempt' = attempt
      PROVE  pc'[t] = l /\ attempt'[t] = attempt[t]
  BY <1>g DEF TypeOK, Goto, Set
<1>n. ASSUME NEW l, NextAttempt(t, l) PROVE attempt'[t] = attempt[t] + 1
  BY <1>n DEF TypeOK, NextAttempt, Set
<1>3. CASE LoginSkip(t) \/ MarkLoggedIn(t)
  BY <1>3, <1>l DEF LoginSkip, MarkLoggedIn
<1>4. CASE LoginEnter(t)
  BY <1>4, <1>g, <1>s DEF LoginEnter, locals, StageLeft, Sending
<1>5. CASE Exchange(t)
  BY <1>5, <1>g, <1>s DEF Exchange, StageLeft, Sending
<1>6. CASE LoginFails(t)
  BY <1>6, <1>g, <1>s DEF LoginFails, Return, locals, StageLeft, Sending
<1>7. ASSUME NEW ok \in BOOLEAN, Profile(t, ok) PROVE Lower(Left(t)', Left(t))
  BY <1>7, <1>g, <1>s DEF Profile, locals, StageLeft, Sending
<1>8. CASE SetExpiry(t)
  BY <1>8, <1>g, <1>s DEF SetExpiry, locals, StageLeft, Sending
<1>9. CASE CheckLoggedIn(t)
  BY <1>9, <1>g, <1>s DEF CheckLoggedIn, locals, StageLeft, Sending
<1>10. CASE CheckExpiry(t)
  <2>1. CASE NextAttempt(t, "send")
    BY <1>a, <1>n, <2>1
  <2>2. CASE Goto(t, "acquire") /\ attempt' = attempt
    BY <1>10, <1>g, <1>s, <2>2 DEF CheckExpiry, StageLeft, Sending
  <2> QED
    BY <1>10, <2>1, <2>2 DEF CheckExpiry
<1>11. CASE Send(t)
  BY <1>11, <1>g, <1>s DEF Send, StageLeft, Sending
<1>12. CASE SdkRaises(t) \/ Answered(t) \/ TransientLast(t)
  BY <1>12, <1>g, <1>s
     DEF SdkRaises, Answered, TransientLast, Return, locals, StageLeft, Sending
<1>13. CASE Denied(t)
  BY <1>13, <1>g, <1>s DEF Denied, Return, StageLeft, Sending
<1>14. CASE ClearLoggedIn(t)
  BY <1>14, <1>g, <1>s DEF ClearLoggedIn, StageLeft, Sending
<1>15. CASE Transient(t)
  <2>1. CASE NextAttempt(t, "woken")
    BY <1>a, <1>n, <2>1
  <2>2. CASE AfterLoop(t, "transient")
    BY <1>15, <1>g, <1>s, <2>2 DEF Transient, AfterLoop, Return, StageLeft, Sending
  <2> QED
    BY <1>15, <2>1, <2>2 DEF Transient
<1> QED
  BY <1>3, <1>4, <1>5, <1>6, <1>7, <1>8, <1>9, <1>10, <1>11, <1>12, <1>13, <1>14, <1>15
     DEF Login, Invoke

\* A step of another thread, or of the clock, leaves what a call has left alone.
LEMMA OthersLeaveAlone ==
  ASSUME TypeOK, NEW t \in Threads, [Next]_vars, pc[t] # "idle", ~(Login(t) \/ Invoke(t))
  PROVE  Left(t)' = Left(t)
<1>1. CASE Expire \/ UNCHANGED vars
  BY <1>1 DEF Expire, vars, locals, Left, StageLeft
<1>2. ASSUME NEW u \in Threads, Begin(u) \/ Login(u) \/ Invoke(u)
      PROVE  Left(t)' = Left(t)
  <2>1. u # t
    BY <1>2 DEF Begin
  <2>2. pc'[t] = pc[t] /\ attempt'[t] = attempt[t]
    <3>1. pc \in [Threads -> Pcs] /\ attempt \in [Threads -> 0..MAX_ATTEMPTS]
      BY DEF TypeOK
    <3>2. \E l : Goto(u, l)
      BY <1>2
         DEF Begin, Login, Invoke, LoginSkip, LoginEnter, Exchange, LoginFails, Profile,
             SetExpiry, MarkLoggedIn, CheckLoggedIn, CheckExpiry, Send, SdkRaises, Answered,
             Denied, ClearLoggedIn, Transient, TransientLast, AfterLogin, AfterLoop,
             NextAttempt, Return
    <3>3. attempt' = attempt \/ \E a : attempt' = [attempt EXCEPT ![u] = a]
      BY <1>2
         DEF Begin, Login, Invoke, LoginSkip, LoginEnter, Exchange, LoginFails, Profile,
             SetExpiry, MarkLoggedIn, CheckLoggedIn, CheckExpiry, Send, SdkRaises, Answered,
             Denied, ClearLoggedIn, Transient, TransientLast, AfterLogin, AfterLoop,
             NextAttempt, Return, locals, Set
    <3> QED
      BY <2>1, <3>1, <3>2, <3>3 DEF Goto, Set
  <2> QED
    BY <2>2 DEF Left, StageLeft
<1> QED
  BY <1>1, <1>2 DEF Next

\* A step of a call lowers what is left of it, and no other step changes that,
\* whatever the other threads do to the session: a login of another thread never
\* sends a call back to an attempt it has made.  By NoEndlessDescent a call takes
\* only so many steps of its own; fairness is needed only for it to take them.
THEOREM CallsRunDown ==
  Spec => /\ [](\A t \in Threads : Left(t) \in [1..2 -> Nat])
          /\ [][\A t \in Threads : pc[t] # "idle" =>
                   \/ (Login(t) \/ Invoke(t)) /\ Lower(Left(t)', Left(t))
                   \/ ~(Login(t) \/ Invoke(t)) /\ Left(t)' = Left(t)]_vars
<1>1. TypeOK => \A t \in Threads : Left(t) \in [1..2 -> Nat]
  <2> SUFFICES ASSUME TypeOK, NEW t \in Threads PROVE Left(t) \in [1..2 -> Nat]
    OBVIOUS
  <2>1. MAX_ATTEMPTS - attempt[t] \in Nat
    BY ClientAssumption DEF TypeOK
  <2>2. StageLeft(t) \in Nat
    BY DEF StageLeft
  <2> QED
    BY <2>1, <2>2 DEF Left
<1>2. TypeOK /\ [Next]_vars =>
        [\A t \in Threads : pc[t] # "idle" =>
           \/ (Login(t) \/ Invoke(t)) /\ Lower(Left(t)', Left(t))
           \/ ~(Login(t) \/ Invoke(t)) /\ Left(t)' = Left(t)]_vars
  BY OwnStepRunsDown, OthersLeaveAlone
<1> QED
  BY <1>1, <1>2, TypeCorrect, PTL DEF Spec
=============================================================================
