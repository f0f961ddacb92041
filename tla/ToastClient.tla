----------------------------- MODULE ToastClient ----------------------------
(***************************************************************************)
(* Calls to the Toast API (providers/toast_provider.py, _http_json and      *)
(* _ensure_token, with services/ratelimit.py, backoff_retry).               *)
(*                                                                          *)
(* A call takes a token from the shared bucket, gets the OAuth token, sends *)
(* its request and retries what may be retried.  The OAuth token is cached  *)
(* behind a plain lock; the thread that finds it missing or expired logs in *)
(* while it HOLDS that lock, and the login is itself a call with bucket,    *)
(* retries and sleeps.  A login that gives up raises the same exception as  *)
(* a failed request, so the outer call retries it.                          *)
(*                                                                          *)
(* Times are what is left of them (Tick counts them down), so no clock is   *)
(* bounded.  A thread may be late to wake up.  Each caller makes one call.  *)
(* Toast is external: it issues tokens that live for Life ticks, may revoke *)
(* one early, may fail, and answers 401 to a token that is dead.            *)
(*                                                                          *)
(* Definitions whose name ends in Mutant are distorted copies of the        *)
(* definition that follows them; nothing uses them in a specification.      *)
(***************************************************************************)
EXTENDS TokenBucket, FiniteSets

CONSTANTS
    Callers,      \* threads: the scheduler's and the web requests'
    Ids,          \* names of OAuth tokens, reused once nobody holds them
    None,         \* no token, no holder
    MaxRetries,   \* backoff_max_retries
    GateTimeout,  \* acquire(timeout = 5 s)
    SleepCap,     \* longest single sleep in acquire (0.25 s)
    HttpTimeout,  \* _HTTP_TIMEOUT
    Life,         \* expiresIn
    Margin,       \* _TOKEN_SAFETY_MARGIN
    MinLife,      \* the floor of 30 s under a cached token's life
    MaxRevokes    \* bound: tokens Toast revokes early

\* What the cache believes a new token's life to be.
Kept == IF Life - Margin > MinLife THEN Life - Margin ELSE MinLife

ASSUME ClientAssumption ==
    /\ {MaxRetries, MaxRevokes} \subseteq Nat
    /\ {GateTimeout, SleepCap, HttpTimeout, Life, MinLife} \subseteq Nat \ {0}
    /\ Margin \in Nat
    /\ None \notin Ids \cup Callers
    /\ Cardinality(Ids) > Cardinality(Callers)

\* The margin covers the time a login's answer may be under way: 60 s against
\* a timeout of 30 s, and tokens of many hours against the floor of 30 s.
ASSUME MarginAssumption == Kept + HttpTimeout <= Life

VARIABLES
    call,     \* call[r] : the call of thread r
    lock,     \* holder of _token_lock, or None
    cached,   \* _access_token
    left,     \* ticks until _token_expires_at
    life,     \* life[i] : ticks token i still lives at Toast; -1 revoked
    revokes

oauth == <<lock, cached, left>>
vars == <<bucket, call, oauth, life, revokes>>

-----------------------------------------------------------------------------
(* The state of a call: at, the stage of the innermost _http_json; login,   *)
(* whether that one is the login; tries and loginTries, the failures of the *)
(* two retry loops; wait, ticks left of a sleep or a flight; gate, ticks    *)
(* left of the bucket's timeout; token, the one in the header.              *)

Fresh == [at |-> "idle", login |-> FALSE, tries |-> 0, loginTries |-> 0,
          wait |-> 0, gate |-> 0, token |-> None]

Stages == {"idle", "gate", "nap", "ensure", "send", "flight", "issued",
           "invalidate", "backoff", "ended"}

Calls ==
    [at : Stages, login : BOOLEAN, tries : Nat, loginTries : Nat,
     wait : Nat, gate : Nat, token : Ids \cup {None}]

At(r, stage) == call[r].at = stage

\* Token i is named neither by the cache nor by a thread.
Unused(i) == cached # i /\ \A r \in Callers : call[r].token # i

\* Enter the gate: a new timeout for the bucket.
AtGate(c) == [c EXCEPT !.at = "gate", !.gate = GateTimeout, !.wait = 0]

\* A back-off sleep with full jitter: from nothing to the cap, so all that is
\* known is that the thread wakes up some time later.
Sleeping(c) == [c EXCEPT !.at = "backoff", !.wait = 0, !.token = None]

\* backoff_retry, when the function raised RetryableError.  The login's loop
\* counts its own failures; when it gives up, _ensure_token releases the lock
\* and the outer loop has a failure to count.
Raise(r) ==
    LET c == call[r]
        retryLogin == c.login /\ c.loginTries < MaxRetries
    IN  /\ call' = [call EXCEPT ![r] =
             IF retryLogin THEN Sleeping([c EXCEPT !.loginTries = @ + 1])
             ELSE IF c.tries < MaxRetries
                  THEN Sleeping([c EXCEPT !.login = FALSE, !.tries = @ + 1, !.loginTries = 0])
                  ELSE [Fresh EXCEPT !.at = "ended"]]
        /\ lock' = IF c.login /\ ~retryLogin THEN None ELSE lock

-----------------------------------------------------------------------------
(* The bucket's gate.                                                       *)

Start(r) ==
    /\ At(r, "idle")
    /\ call' = [call EXCEPT ![r] = AtGate(Fresh)]
    /\ UNCHANGED <<bucket, oauth, life, revokes>>

\* A token: the request goes on, the login straight to the wire.
Acquire(r) ==
    /\ At(r, "gate")
    /\ Grant
    /\ call' = [call EXCEPT ![r].at = IF call[r].login THEN "send" ELSE "ensure", ![r].gate = 0]
    /\ UNCHANGED <<oauth, life, revokes>>

\* No token: sleep, but not past the timeout nor longer than SleepCap.
Nap(r) ==
    /\ At(r, "gate") /\ call[r].gate > 0
    /\ Short
    /\ call' = [call EXCEPT ![r].at = "nap",
                            ![r].wait = AtMost(SleepCap, AtMost(call[r].gate, Wait))]
    /\ UNCHANGED <<oauth, life, revokes>>

\* The bucket stayed empty for the whole timeout: a retryable failure.
Starve(r) ==
    /\ At(r, "gate") /\ call[r].gate = 0
    /\ Short
    /\ Raise(r)
    /\ UNCHANGED <<cached, left, life, revokes>>

\* The end of a nap looks at the bucket again; the end of a back-off starts over.
Wake(r) ==
    /\ call[r].wait = 0
    /\ \/ At(r, "nap") /\ call' = [call EXCEPT ![r].at = "gate"]
       \/ At(r, "backoff") /\ call' = [call EXCEPT ![r] = AtGate(@)]
    /\ UNCHANGED <<bucket, oauth, life, revokes>>

-----------------------------------------------------------------------------
(* The OAuth token.                                                         *)

\* _ensure_token finds a live one: the lock is taken and given back at once.
UseCached(r) ==
    /\ At(r, "ensure") /\ lock = None
    /\ cached # None /\ left > 0
    /\ call' = [call EXCEPT ![r].at = "send", ![r].token = cached]
    /\ UNCHANGED <<bucket, oauth, life, revokes>>

\* It finds none: the thread keeps the lock and enters the gate for the login.
BeginLogin(r) ==
    /\ At(r, "ensure") /\ lock = None
    /\ cached = None \/ left = 0
    /\ lock' = r
    /\ call' = [call EXCEPT ![r] = [AtGate(@) EXCEPT !.login = TRUE]]
    /\ UNCHANGED <<bucket, cached, left, life, revokes>>

Send(r) ==
    /\ At(r, "send")
    /\ call' = [call EXCEPT ![r].at = "flight", ![r].wait = HttpTimeout]
    /\ UNCHANGED <<bucket, oauth, life, revokes>>

\* External: Toast accepts the credentials and issues a token.
Issue(r) ==
    /\ At(r, "flight") /\ call[r].login
    /\ LET i == CHOOSE i \in Ids : Unused(i)
       IN  /\ i \in Ids /\ Unused(i)
           /\ call' = [call EXCEPT ![r].at = "issued", ![r].token = i]
           /\ life' = [life EXCEPT ![i] = Life]
    /\ UNCHANGED <<bucket, oauth, revokes>>

LoginReplyMutant(r) ==
    /\ At(r, "issued")
    /\ cached' = call[r].token
    /\ left' = IF Life > MinLife THEN Life ELSE MinLife
    /\ lock' = None
    /\ call' = [call EXCEPT ![r].at = "send", ![r].login = FALSE, ![r].loginTries = 0, ![r].wait = 0]
    /\ UNCHANGED <<bucket, life, revokes>>

\* The answer arrives: the token is kept for less than its life, the lock
\* released, and the outer request sent with it.
LoginReply(r) ==
    /\ At(r, "issued")
    /\ cached' = call[r].token
    /\ left' = Kept
    /\ lock' = None
    /\ call' = [call EXCEPT ![r].at = "send", ![r].login = FALSE, ![r].loginTries = 0, ![r].wait = 0]
    /\ UNCHANGED <<bucket, life, revokes>>

LoginRefusedMutant(r) ==
    /\ At(r, "flight") /\ call[r].login
    /\ call' = [call EXCEPT ![r].at = "invalidate", ![r].wait = 0]
    /\ UNCHANGED <<bucket, oauth, life, revokes>>

\* A definite refusal of a login (wrong credentials, a 401 or any
\* other 4xx, an answer without a token) ends the call and gives the lock back.
LoginRefused(r) ==
    /\ At(r, "flight") /\ call[r].login
    /\ call' = [call EXCEPT ![r] = [Fresh EXCEPT !.at = "ended"]]
    /\ lock' = None
    /\ UNCHANGED <<bucket, cached, left, life, revokes>>

-----------------------------------------------------------------------------
(* The request's answer.                                                    *)

InFlight(r) == At(r, "flight") \/ At(r, "issued")

\* 429, 5xx, a network error or the HTTP timeout, of a request or a login.
Busy(r) ==
    /\ InFlight(r)
    /\ Raise(r)
    /\ UNCHANGED <<bucket, cached, left, life, revokes>>

\* 2xx, or a 4xx that raise_for_status reports: the call is over.
Answered(r) ==
    /\ At(r, "flight") /\ ~call[r].login
    /\ life[call[r].token] > 0
    /\ call' = [call EXCEPT ![r] = [Fresh EXCEPT !.at = "ended"]]
    /\ UNCHANGED <<bucket, oauth, life, revokes>>

\* 401: the token is dead at Toast; the cache must drop it, under the lock.
Unauthorized(r) ==
    /\ At(r, "flight") /\ ~call[r].login
    /\ life[call[r].token] <= 0
    /\ call' = [call EXCEPT ![r].at = "invalidate", ![r].wait = 0]
    /\ UNCHANGED <<bucket, oauth, life, revokes>>

\* _invalidate_token drops whatever is cached by now, then the retry is due.
Invalidate(r) ==
    /\ At(r, "invalidate") /\ lock = None
    /\ cached' = None
    /\ left' = 0
    /\ Raise(r)
    /\ UNCHANGED <<bucket, life, revokes>>

-----------------------------------------------------------------------------
(* Time and Toast.                                                          *)

Down(n) == IF n > 0 THEN n - 1 ELSE n

\* A request in flight is answered or given up before its timeout is over.  A
\* token nobody holds any more is forgotten.
Tick ==
    /\ \A r \in Callers : InFlight(r) => call[r].wait > 0
    /\ Accrue
    /\ call' = [r \in Callers |-> [call[r] EXCEPT !.wait = Down(@), !.gate = Down(@)]]
    /\ left' = Down(left)
    /\ life' = [i \in Ids |-> IF Unused(i) THEN 0 ELSE Down(life[i])]
    /\ UNCHANGED <<lock, cached, revokes>>

\* External: Toast revokes a token before its end.
Revoke(i) ==
    /\ revokes < MaxRevokes /\ life[i] > 0 /\ ~Unused(i)
    /\ life' = [life EXCEPT ![i] = -1]
    /\ revokes' = revokes + 1
    /\ UNCHANGED <<bucket, call, oauth>>

Init ==
    /\ BucketInit
    /\ call = [r \in Callers |-> Fresh]
    /\ lock = None /\ cached = None /\ left = 0
    /\ life = [i \in Ids |-> 0]
    /\ revokes = 0

Reply(r) ==
    LoginReply(r) \/ LoginRefused(r) \/ Busy(r) \/ Answered(r) \/ Unauthorized(r)

Step(r) ==
    \/ Acquire(r) \/ Nap(r) \/ Starve(r) \/ Wake(r)
    \/ UseCached(r) \/ BeginLogin(r) \/ Send(r) \/ Reply(r) \/ Invalidate(r)

Next ==
    \/ \E r \in Callers : Start(r) \/ Step(r) \/ Issue(r)
    \/ \E i \in Ids : Revoke(i)
    \/ Tick

\* Threads run, answers come or time out, and time passes.
Fairness == WF_vars(Tick) /\ \A r \in Callers : WF_vars(Step(r))

Spec == Init /\ [][Next]_vars /\ Fairness

-----------------------------------------------------------------------------
(* Properties.                                                              *)

\* Type invariant of the client.
TypeOK ==
    /\ call \in [Callers -> Calls]
    /\ lock \in Callers \cup {None} /\ cached \in Ids \cup {None}
    /\ left \in Nat
    /\ life \in [Ids -> Int]
    /\ revokes \in Nat

\* A token the cache still hands out has not expired at Toast, however long
\* the answer to its login was under way (_ensure_token's margin).  Only an
\* early revocation can make it useless.
CachedTokenLives == cached # None /\ left > 0 => life[cached] # 0

\* Every call ends: nobody waits for the bucket, for _token_lock or for a
\* retry for ever, whatever Toast answers.
EveryCallEnds == \A r \in Callers : ~At(r, "idle") ~> At(r, "ended")
=============================================================================
