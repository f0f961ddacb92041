-------------------------- MODULE ToastClientProofs --------------------------
(***************************************************************************)
(* What holds of the Toast client for any number of callers, any times and  *)
(* any number of retries: it drives the bucket by the bucket's own steps,   *)
(* _token_lock is held by exactly the thread that logs in, and the cached   *)
(* token outlives its entry in the cache.                                   *)
(***************************************************************************)
EXTENDS ToastClient, TLAPS

-----------------------------------------------------------------------------
(* The bucket: one invariant gives its ceiling, the lazy bucket holds what    *)
(* an eager one would hold, for every capacity, rate and cost.               *)


\* The inductive invariant.
BucketInv == BucketTypeOK /\ NothingAccruedIsLost

\* One more tick adds Rate units.
LEMMA OneMoreTick == \A m, n \in Nat : (m + 1) * n = m * n + n
BY SMT

\* What accrued in Capacity ticks fills any bucket.
LEMMA LongWaitFills == Capacity * Rate >= Capacity
<1> PICK r \in Nat : Rate = r + 1
  <2>1. Rate - 1 \in Nat /\ Rate = (Rate - 1) + 1
    BY BucketAssumption
  <2> QED
    BY <2>1
<1>1. Capacity * (r + 1) = Capacity * r + Capacity
  BY BucketAssumption
<1>2. Capacity * r >= 0
  BY BucketAssumption
<1> QED
  BY <1>1, <1>2, BucketAssumption

\* A level is a number of units between none and the capacity.
LEMMA LevelType == ASSUME BucketTypeOK PROVE Level \in 0..Capacity
<1>1. elapsed * Rate \in Nat
  BY BucketAssumption DEF BucketTypeOK
<1> QED
  BY <1>1, BucketAssumption DEF BucketTypeOK, Level, AtMost

\* A bucket that was just refilled holds what it was left with.
LEMMA LevelAfterRefill ==
  ASSUME NEW n \in 0..Capacity, tokens' = n, elapsed' = 0
  PROVE  Level' = n
<1>1. 0 * Rate = 0
  BY BucketAssumption
<1> QED
  BY <1>1, BucketAssumption DEF Level, AtMost

\* A bucket nobody touches gains what an eager one gains.
LEMMA LevelAfterTick ==
  ASSUME BucketTypeOK, Accrue
  PROVE  Level' = AtMost(Capacity, Level + Rate)
<1>1. elapsed * Rate \in Nat
  BY BucketAssumption DEF BucketTypeOK
<1>2. CASE elapsed + 1 <= Capacity
  <2>1. elapsed' * Rate = elapsed * Rate + Rate
    <3>1. elapsed' = elapsed + 1
      <4>1. elapsed \in Nat /\ Capacity \in Nat
        BY BucketAssumption DEF BucketTypeOK
      <4>2. elapsed' = IF elapsed + 1 < Capacity THEN elapsed + 1 ELSE Capacity
        BY DEF Accrue, AtMost
      <4> QED
        BY <1>2, <4>1, <4>2
    <3> QED
      BY <3>1, OneMoreTick, BucketAssumption DEF BucketTypeOK
  <2> QED
    BY <1>1, <2>1, BucketAssumption DEF Accrue, Level, AtMost, BucketTypeOK
<1>3. CASE ~(elapsed + 1 <= Capacity)
  <2>1. elapsed = Capacity /\ elapsed' = Capacity
    BY <1>3, BucketAssumption DEF Accrue, AtMost, BucketTypeOK
  <2> QED
    BY <1>1, <2>1, LongWaitFills, BucketAssumption DEF Accrue, Level, AtMost, BucketTypeOK
<1> QED
  BY <1>2, <1>3

\* The invariant holds at first.
LEMMA BucketStart == BucketInit => BucketInv
<1>1. 0 * Rate = 0
  BY BucketAssumption
<1> QED
  BY <1>1, BucketAssumption
  DEF BucketInit, BucketInv, BucketTypeOK, NothingAccruedIsLost, Level, AtMost

\* Every step of the bucket keeps it.
LEMMA BucketStep == BucketInv /\ [BucketNext]_bucket => BucketInv'
<1> SUFFICES ASSUME BucketInv, [BucketNext]_bucket PROVE BucketInv'
  OBVIOUS
<1> USE BucketAssumption DEF BucketInv, BucketTypeOK, NothingAccruedIsLost
<1>1. Level \in 0..Capacity
  BY LevelType
<1>2. CASE Grant
  <2>1. tokens' = Level - Cost /\ elapsed' = 0 /\ Level - Cost \in 0..Capacity
    BY <1>1, <1>2 DEF Grant
  <2>2. Level' = Level - Cost
    BY <2>1, LevelAfterRefill
  <2> QED
    BY <1>1, <1>2, <2>1, <2>2 DEF Grant
<1>3. CASE Short
  <2>1. tokens' = Level /\ elapsed' = 0
    BY <1>3 DEF Short
  <2>2. Level' = Level
    BY <1>1, <2>1, LevelAfterRefill
  <2> QED
    BY <1>1, <1>3, <2>1, <2>2 DEF Short
<1>4. CASE Accrue
  <2>1. Level' = AtMost(Capacity, Level + Rate)
    BY <1>4, LevelAfterTick
  <2> QED
    BY <1>1, <1>4, <2>1 DEF Accrue, AtMost
<1>5. CASE UNCHANGED bucket
  BY <1>5 DEF bucket, Level
<1> QED
  BY <1>2, <1>3, <1>4, <1>5 DEF BucketNext

\* The lazy bucket is always worth exactly what an eager one would be, and so
\* never grants more than the burst plus what accrued.
THEOREM BucketObeysRate == BucketSpec => [](BucketTypeOK /\ NothingAccruedIsLost /\ GrantsObeyRate)
<1>1. BucketInv => BucketTypeOK /\ NothingAccruedIsLost /\ GrantsObeyRate
  BY DEF BucketInv, BucketTypeOK, GrantsObeyRate
<1> QED
  BY <1>1, BucketStart, BucketStep, PTL DEF BucketSpec

\* A caller that finds too little is told to wait until there is enough, and
\* not a tick longer.
THEOREM WaitIsExact ==
  ASSUME BucketTypeOK, Level < Cost
  PROVE  /\ Wait > 0
         /\ Level + Wait * Rate >= Cost
         /\ Level + (Wait - 1) * Rate < Cost
<1> DEFINE missing == Cost - Level
<1>1. Level \in Nat /\ missing \in Nat \ {0} /\ Rate \in Nat \ {0}
  BY LevelType, BucketAssumption
<1>2. Wait = (missing + Rate - 1) \div Rate
  BY <1>1, BucketAssumption DEF Wait
<1> HIDE DEF missing
<1>3. \A m, r \in Nat \ {0} :
        /\ (m + r - 1) \div r > 0
        /\ ((m + r - 1) \div r) * r >= m
        /\ ((m + r - 1) \div r - 1) * r < m
  BY SMTT(30)
<1>4. Wait > 0 /\ Wait * Rate >= missing /\ (Wait - 1) * Rate < missing
  BY <1>1, <1>2, <1>3
<1>5. Wait \in Int /\ Wait * Rate \in Int /\ (Wait - 1) * Rate \in Int
  BY <1>1, <1>2
<1> QED
  BY <1>1, <1>4, <1>5, BucketAssumption DEF missing

-----------------------------------------------------------------------------
(* The rate.                                                                *)

\* Whatever a thread does to the bucket is a step of the bucket.
LEMMA BucketIsDriven == [Next]_vars => [BucketNext]_bucket
<1> SUFFICES ASSUME [Next]_vars PROVE BucketNext \/ bucket' = bucket
  OBVIOUS
<1>1. ASSUME NEW r \in Callers, Step(r) PROVE BucketNext \/ bucket' = bucket
  BY <1>1
  DEF Step, Acquire, Nap, Starve, Wake, UseCached, BeginLogin, Send, Reply, LoginReply,
      LoginRefused, Busy, Answered, Unauthorized, Invalidate, BucketNext
<1>2. ASSUME NEW r \in Callers, Start(r) \/ Issue(r) PROVE bucket' = bucket
  BY <1>2 DEF Start, Issue
<1>3. ASSUME NEW i \in Ids, Revoke(i) PROVE bucket' = bucket
  BY <1>3 DEF Revoke
<1>4. CASE Tick
  BY <1>4 DEF Tick, BucketNext
<1>5. CASE vars' = vars
  BY <1>5 DEF vars
<1> QED
  BY <1>1, <1>2, <1>3, <1>4, <1>5 DEF Next

\* The callers together keep within the rate, whatever they share, retry or
\* wait for (GrantsObeyRate), and the bucket keeps its type.
THEOREM ClientObeysRate == Spec => [](BucketTypeOK /\ GrantsObeyRate)
<1>1. Init => BucketInit
  BY DEF Init
<1> QED
  BY <1>1, BucketIsDriven, BucketObeysRate, PTL DEF Spec, BucketSpec

-----------------------------------------------------------------------------
(* Types.                                                                   *)

\* The constants, one by one.
LEMMA ClientConstants ==
  /\ {GateTimeout, SleepCap, HttpTimeout, Life, MinLife} \subseteq Nat \ {0}
  /\ Margin \in Nat /\ MaxRetries \in Nat
  /\ Kept \in Nat /\ Kept + HttpTimeout <= Life
  /\ None \notin Ids \cup Callers
BY ClientAssumption, MarginAssumption DEF Kept

\* A call that has not begun, or that goes on after a failure.
LEMMA FreshType ==
  /\ Fresh \in Calls
  /\ [Fresh EXCEPT !.at = "ended"] \in Calls
  /\ [Fresh EXCEPT !.at = "ended"].login = FALSE
BY DEF Fresh, Calls, Stages

\* A call at the gate.
LEMMA AtGateType ==
  ASSUME NEW c \in Calls
  PROVE  AtGate(c) \in Calls /\ AtGate(c).at = "gate" /\ AtGate(c).login = c.login
BY ClientConstants DEF AtGate, Calls, Stages

\* A call that sleeps before its retry.
LEMMA SleepingType ==
  ASSUME NEW c \in Calls
  PROVE  Sleeping(c) \in Calls /\ Sleeping(c).at = "backoff" /\ Sleeping(c).login = c.login
BY DEF Sleeping, Calls, Stages

\* A failure is counted by one of the two loops.
LEMMA CountedType ==
  ASSUME NEW c \in Calls, NEW n \in Nat
  PROVE  /\ [c EXCEPT !.loginTries = n] \in Calls
         /\ [c EXCEPT !.loginTries = n].login = c.login
         /\ [c EXCEPT !.login = FALSE, !.tries = n, !.loginTries = 0] \in Calls
         /\ [c EXCEPT !.login = FALSE, !.tries = n, !.loginTries = 0].login = FALSE
BY DEF Calls

\* A failure leaves the thread asleep or done, its login and the lock agreeing,
\* and every other thread alone.
LEMMA RaiseFacts ==
  ASSUME call \in [Callers -> Calls], NEW r \in Callers, Raise(r)
  PROVE  /\ call' \in [Callers -> Calls]
         /\ call'[r].at \in {"backoff", "ended"}
         /\ \A q \in Callers : q # r => call'[q] = call[q]
         /\ \/ call'[r].login = call[r].login /\ lock' = lock
            \/ call[r].login = TRUE /\ call'[r].login = FALSE /\ lock' = None
<1> DEFINE c == call[r]
           again == [c EXCEPT !.loginTries = @ + 1]
           outer == [c EXCEPT !.login = FALSE, !.tries = @ + 1, !.loginTries = 0]
           over == [Fresh EXCEPT !.at = "ended"]
<1>1. c \in Calls
  OBVIOUS
<1>2. c.tries + 1 \in Nat /\ c.loginTries + 1 \in Nat
  BY <1>1 DEF Calls
<1>3. /\ again \in Calls /\ again.login = c.login
      /\ outer \in Calls /\ outer.login = FALSE
  BY <1>1, <1>2, CountedType
<1>4. CASE c.login /\ c.loginTries < MaxRetries
  <2>1. call' = [call EXCEPT ![r] = Sleeping(again)] /\ lock' = lock
    BY <1>4 DEF Raise
  <2>2. Sleeping(again) \in Calls /\ Sleeping(again).at = "backoff" /\ Sleeping(again).login = c.login
    BY <1>3, SleepingType
  <2> HIDE DEF again
  <2> QED
    BY <2>1, <2>2
<1>5. CASE ~(c.login /\ c.loginTries < MaxRetries)
  <2>1. call' = [call EXCEPT ![r] = IF c.tries < MaxRetries THEN Sleeping(outer) ELSE over]
    BY <1>5 DEF Raise
  <2>2. lock' = IF c.login THEN None ELSE lock
    BY <1>5 DEF Raise
  <2>3. c.login \in BOOLEAN
    BY <1>1 DEF Calls
  <2>4. over \in Calls /\ over.at = "ended" /\ over.login = FALSE
    BY DEF Fresh, Calls, Stages
  <2>5. Sleeping(outer) \in Calls /\ Sleeping(outer).at = "backoff" /\ Sleeping(outer).login = FALSE
    BY <1>3, SleepingType
  <2> HIDE DEF outer, over
  <2> QED
    BY <1>1, <2>1, <2>2, <2>3, <2>4, <2>5
<1> QED
  BY <1>4, <1>5

\* The records a step makes of a call.
LEMMA MovedType ==
  ASSUME NEW c \in Calls, NEW stage \in Stages, NEW n \in Nat, NEW t \in Ids \cup {None}
  PROVE  /\ [c EXCEPT !.at = stage] \in Calls
         /\ [c EXCEPT !.at = stage, !.gate = n] \in Calls
         /\ [c EXCEPT !.at = stage, !.wait = n] \in Calls
         /\ [c EXCEPT !.at = stage, !.token = t] \in Calls
         /\ [c EXCEPT !.at = stage, !.login = FALSE, !.loginTries = 0, !.wait = 0] \in Calls
BY DEF Calls

\* Every step keeps the types.
LEMMA TypeStep ==
  ASSUME TypeOK, BucketTypeOK, [Next]_vars
  PROVE  TypeOK'
<1> USE DEF TypeOK
<1>1. ASSUME NEW r \in Callers, Start(r) \/ Wake(r) PROVE TypeOK'
  <2>1. call[r] \in Calls
    OBVIOUS
  <2>2. AtGate(call[r]) \in Calls /\ AtGate(Fresh) \in Calls
    BY <2>1, FreshType, AtGateType
  <2>3. [call[r] EXCEPT !.at = "gate"] \in Calls
    BY <2>1 DEF Calls, Stages
  <2>4. \E c \in Calls : call' = [call EXCEPT ![r] = c]
    BY <1>1, <2>2, <2>3 DEF Start, Wake
  <2> QED
    BY <1>1, <2>4 DEF Start, Wake, oauth
<1>2. ASSUME NEW r \in Callers, Acquire(r) PROVE TypeOK'
  <2> DEFINE stage == IF call[r].login THEN "send" ELSE "ensure"
  <2>1. stage \in Stages
    BY DEF Stages
  <2>2. call' = [call EXCEPT ![r] = [call[r] EXCEPT !.at = stage, !.gate = 0]]
    BY <1>2 DEF Acquire
  <2> HIDE DEF stage
  <2>3. [call[r] EXCEPT !.at = stage, !.gate = 0] \in Calls
    BY <2>1, MovedType
  <2> QED
    BY <1>2, <2>2, <2>3 DEF Acquire, oauth
<1>3. ASSUME NEW r \in Callers, Nap(r) PROVE TypeOK'
  <2>1. Wait \in Int /\ Wait > 0
    <3>1. Level < Cost
      BY <1>3 DEF Nap, Short
    <3>2. Wait \in Int
      <4>1. Level \in Int /\ Cost \in Int /\ Rate \in Nat \ {0}
        BY LevelType, BucketAssumption
      <4> QED
        BY <4>1 DEF Wait
    <3> QED
      BY <3>1, <3>2, WaitIsExact
  <2>2. call[r].gate \in Nat
    BY DEF Calls
  <2>3. AtMost(SleepCap, AtMost(call[r].gate, Wait)) \in Nat
    BY <2>1, <2>2, ClientConstants DEF AtMost
  <2>4. "nap" \in Stages
    BY DEF Stages
  <2> HIDE DEF AtMost
  <2> QED
    BY <1>3, <2>3, <2>4, MovedType DEF Nap, oauth
<1>4. ASSUME NEW r \in Callers, Starve(r) \/ Busy(r) PROVE TypeOK'
  BY <1>4, RaiseFacts DEF Starve, Busy
<1>5. ASSUME NEW r \in Callers, UseCached(r) PROVE TypeOK'
  <2>1. "send" \in Stages
    BY DEF Stages
  <2> QED
    BY <1>5, <2>1, MovedType, ClientConstants DEF UseCached, oauth
<1>6. ASSUME NEW r \in Callers, BeginLogin(r) PROVE TypeOK'
  <2>1. AtGate(call[r]) \in Calls
    BY AtGateType
  <2>2. [AtGate(call[r]) EXCEPT !.login = TRUE] \in Calls
    BY <2>1 DEF Calls
  <2> QED
    BY <1>6, <2>2 DEF BeginLogin
<1>7. ASSUME NEW r \in Callers, Send(r) PROVE TypeOK'
  <2>1. "flight" \in Stages
    BY DEF Stages
  <2> QED
    BY <1>7, <2>1, MovedType, ClientConstants DEF Send, oauth
<1>8. ASSUME NEW r \in Callers, Issue(r) PROVE TypeOK'
  <2>1. PICK i \in Ids : /\ call' = [call EXCEPT ![r].at = "issued", ![r].token = i]
                         /\ life' = [life EXCEPT ![i] = Life]
    BY <1>8 DEF Issue
  <2>2. lock' = lock /\ cached' = cached /\ left' = left /\ revokes' = revokes
    BY <1>8 DEF Issue, oauth
  <2>3. "issued" \in Stages
    BY DEF Stages
  <2>4. [call[r] EXCEPT !.at = "issued", !.token = i] \in Calls
    BY <2>3, MovedType
  <2> QED
    BY <2>1, <2>2, <2>4, ClientConstants
<1>9. ASSUME NEW r \in Callers, LoginReply(r) PROVE TypeOK'
  <2>1. "send" \in Stages
    BY DEF Stages
  <2>2. [call[r] EXCEPT !.at = "send", !.login = FALSE, !.loginTries = 0, !.wait = 0] \in Calls
    BY <2>1, MovedType
  <2>3. call[r].token \in Ids \cup {None}
    BY DEF Calls
  <2> QED
    BY <1>9, <2>1, <2>2, <2>3, ClientConstants DEF LoginReply
<1>10. ASSUME NEW r \in Callers, LoginRefused(r) \/ Answered(r) PROVE TypeOK'
  BY <1>10, FreshType DEF LoginRefused, Answered, oauth
<1>11. ASSUME NEW r \in Callers, Unauthorized(r) PROVE TypeOK'
  <2>1. "invalidate" \in Stages
    BY DEF Stages
  <2> QED
    BY <1>11, <2>1, MovedType, ClientConstants DEF Unauthorized, oauth
<1>12. ASSUME NEW r \in Callers, Invalidate(r) PROVE TypeOK'
  BY <1>12, RaiseFacts DEF Invalidate
<1>13. ASSUME NEW i \in Ids, Revoke(i) PROVE TypeOK'
  BY <1>13 DEF Revoke, oauth
<1>14. CASE Tick
  <2>1. \A n \in Nat : Down(n) \in Nat
    BY DEF Down
  <2>2. \A i \in Ids : (IF Unused(i) THEN 0 ELSE Down(life[i])) \in Int
    BY DEF Down
  <2>3. \A r \in Callers : [call[r] EXCEPT !.wait = Down(@), !.gate = Down(@)] \in Calls
    BY <2>1 DEF Calls
  <2> QED
    BY <1>14, <2>1, <2>2, <2>3 DEF Tick
<1>15. CASE vars' = vars
  BY <1>15 DEF vars, oauth
<1> QED
  BY <1>1, <1>2, <1>3, <1>4, <1>5, <1>6, <1>7, <1>8, <1>9, <1>10, <1>11, <1>12, <1>13, <1>14, <1>15
  DEF Next, Step, Reply

-----------------------------------------------------------------------------
(* The lock.                                                                *)

\* _token_lock is held by exactly the thread that is logging in.
LockInv ==
  \A r \in Callers :
    /\ call[r].login => lock = r
    /\ lock = r => call[r].login
    /\ call[r].at = "issued" => call[r].login
    /\ call[r].at = "idle" => ~call[r].login

\* What a step of one thread leaves of LockInv to show.
LEMMA LockKept ==
  ASSUME TypeOK, LockInv, NEW r \in Callers,
         \A q \in Callers : q # r => call'[q] = call[q],
         call'[r].at = "issued" => call'[r].login,
         call'[r].at # "idle",
         \/ call'[r].login = call[r].login /\ lock' = lock
         \/ lock = None /\ call'[r].login = TRUE /\ lock' = r
         \/ call[r].login = TRUE /\ call'[r].login = FALSE /\ lock' = None
  PROVE  LockInv'
<1>1. r # None /\ None \notin Callers
  BY ClientConstants
<1>2. \A q \in Callers : call[q].login \in BOOLEAN
  BY DEF TypeOK, Calls
<1> QED
  BY <1>1, <1>2 DEF LockInv

\* What a thread's own steps do to its call; no other thread is touched.
LEMMA MovedFields ==
  ASSUME call \in [Callers -> Calls], NEW r \in Callers
  PROVE  /\ Start(r) => call'[r].at = "gate" /\ call'[r].login = FALSE
         /\ Acquire(r) => call'[r].at \in {"send", "ensure"} /\ call'[r].login = call[r].login
         /\ Nap(r) => call'[r].at = "nap" /\ call'[r].login = call[r].login
         /\ Wake(r) => call'[r].at = "gate" /\ call'[r].login = call[r].login
         /\ UseCached(r) => call'[r].at = "send" /\ call'[r].login = call[r].login
         /\ BeginLogin(r) => call'[r].at = "gate" /\ call'[r].login = TRUE
         /\ Send(r) => /\ call'[r].at = "flight" /\ call'[r].login = call[r].login
                       /\ call'[r].wait = HttpTimeout
         /\ LoginReply(r) => call'[r].at = "send" /\ call'[r].login = FALSE
         /\ LoginRefused(r) \/ Answered(r) => call'[r].at = "ended" /\ call'[r].login = FALSE
         /\ Unauthorized(r) => call'[r].at = "invalidate" /\ call'[r].login = call[r].login
         /\ \/ Start(r) \/ Acquire(r) \/ Nap(r) \/ Wake(r) \/ UseCached(r) \/ BeginLogin(r) \/ Send(r)
            \/ LoginReply(r) \/ LoginRefused(r) \/ Answered(r) \/ Unauthorized(r)
            => \A q \in Callers : q # r => call'[q] = call[q]
<1>1. Start(r) => call'[r].at = "gate" /\ call'[r].login = FALSE
  BY FreshType, AtGateType DEF Start, Fresh
<1>2. Acquire(r) => call'[r].at \in {"send", "ensure"} /\ call'[r].login = call[r].login
  BY DEF Acquire, Calls
<1>3. Nap(r) => call'[r].at = "nap" /\ call'[r].login = call[r].login
  BY DEF Nap, Calls
<1>4. Wake(r) => call'[r].at = "gate" /\ call'[r].login = call[r].login
  <2>1. AtGate(call[r]).at = "gate" /\ AtGate(call[r]).login = call[r].login
    BY AtGateType
  <2> QED
    BY <2>1 DEF Wake, Calls
<1>5. UseCached(r) => call'[r].at = "send" /\ call'[r].login = call[r].login
  BY DEF UseCached, Calls
<1>6. BeginLogin(r) => call'[r].at = "gate" /\ call'[r].login = TRUE
  <2>1. AtGate(call[r]) \in Calls /\ AtGate(call[r]).at = "gate"
    BY AtGateType
  <2> QED
    BY <2>1 DEF BeginLogin, Calls
<1>7. Send(r) => /\ call'[r].at = "flight" /\ call'[r].login = call[r].login
                 /\ call'[r].wait = HttpTimeout
  BY DEF Send, Calls
<1>8. LoginReply(r) => call'[r].at = "send" /\ call'[r].login = FALSE
  BY DEF LoginReply, Calls
<1>9. LoginRefused(r) \/ Answered(r) => call'[r].at = "ended" /\ call'[r].login = FALSE
  BY DEF LoginRefused, Answered, Fresh
<1>10. Unauthorized(r) => call'[r].at = "invalidate" /\ call'[r].login = call[r].login
  BY DEF Unauthorized, Calls
<1>11. ASSUME NEW q \in Callers, q # r,
              \/ Start(r) \/ Acquire(r) \/ Nap(r) \/ Wake(r) \/ UseCached(r) \/ BeginLogin(r)
              \/ Send(r) \/ LoginReply(r) \/ LoginRefused(r) \/ Answered(r) \/ Unauthorized(r)
       PROVE  call'[q] = call[q]
  BY <1>11
  DEF Start, Acquire, Nap, Wake, UseCached, BeginLogin, Send, LoginReply, LoginRefused, Answered,
      Unauthorized
<1> QED
  BY <1>1, <1>2, <1>3, <1>4, <1>5, <1>6, <1>7, <1>8, <1>9, <1>10, <1>11

\* Every step keeps it: the lock is taken for a login, and given back when the
\* login succeeds, is refused, or fails for good.
LEMMA LockStep ==
  ASSUME TypeOK, LockInv, [Next]_vars
  PROVE  LockInv'
<1>0. call \in [Callers -> Calls] /\ \A r \in Callers : call[r].login \in BOOLEAN
  BY DEF TypeOK, Calls
<1>1. ASSUME NEW r \in Callers, Start(r) PROVE LockInv'
  <2>1. call[r].login = FALSE
    BY <1>0, <1>1 DEF Start, At, LockInv
  <2>2. lock' = lock
    BY <1>1 DEF Start, oauth
  <2>3. call'[r].at = "gate" /\ call'[r].login = FALSE
    BY <1>0, <1>1, MovedFields
  <2>4. \A q \in Callers : q # r => call'[q] = call[q]
    BY <1>0, <1>1, MovedFields
  <2> QED
    BY <2>1, <2>2, <2>3, <2>4, LockKept
<1>2. ASSUME NEW r \in Callers, Acquire(r) \/ Nap(r) \/ Wake(r) PROVE LockInv'
  <2>1. lock' = lock
    BY <1>2 DEF Acquire, Nap, Wake, oauth
  <2> QED
    BY <1>0, <1>2, <2>1, LockKept, MovedFields
<1>3. ASSUME NEW r \in Callers, Send(r) \/ UseCached(r) \/ Unauthorized(r) PROVE LockInv'
  <2>1. lock' = lock
    BY <1>3 DEF Send, UseCached, Unauthorized, oauth
  <2> QED
    BY <1>0, <1>3, <2>1, LockKept, MovedFields
<1>4. ASSUME NEW r \in Callers, Starve(r) \/ Busy(r) \/ Invalidate(r) PROVE LockInv'
  BY <1>0, <1>4, LockKept, RaiseFacts DEF Starve, Busy, Invalidate
<1>5. ASSUME NEW r \in Callers, BeginLogin(r) PROVE LockInv'
  <2>1. lock = None /\ lock' = r
    BY <1>5 DEF BeginLogin
  <2> QED
    BY <1>0, <1>5, <2>1, LockKept, MovedFields
<1>6. ASSUME NEW r \in Callers, Issue(r) PROVE LockInv'
  <2>1. call'[r].login = call[r].login /\ call[r].login /\ lock' = lock /\ call'[r].at = "issued"
    BY <1>0, <1>6 DEF Issue, oauth, Calls
  <2>2. \A q \in Callers : q # r => call'[q] = call[q]
    BY <1>0, <1>6 DEF Issue
  <2> QED
    BY <1>0, <2>1, <2>2, LockKept
<1>7. ASSUME NEW r \in Callers, LoginReply(r) \/ LoginRefused(r) PROVE LockInv'
  <2>1. call[r].login = TRUE /\ lock' = None
    BY <1>0, <1>7 DEF LoginReply, LoginRefused, LockInv, At
  <2> QED
    BY <1>0, <1>7, <2>1, LockKept, MovedFields
<1>8. ASSUME NEW r \in Callers, Answered(r) PROVE LockInv'
  <2>1. call[r].login = FALSE /\ lock' = lock
    BY <1>0, <1>8 DEF Answered, oauth
  <2> QED
    BY <1>0, <1>8, <2>1, LockKept, MovedFields
<1>9. ASSUME NEW i \in Ids, Revoke(i) PROVE LockInv'
  BY <1>9 DEF Revoke, oauth, LockInv
<1>10. CASE Tick
  BY <1>0, <1>10 DEF Tick, LockInv, Calls
<1>11. CASE vars' = vars
  BY <1>11 DEF vars, oauth, LockInv
<1> QED
  BY <1>1, <1>2, <1>3, <1>4, <1>5, <1>6, <1>7, <1>8, <1>9, <1>10, <1>11 DEF Next, Step, Reply

\* A type-correct start with nobody logging in.
LEMMA ClientStart == Init => TypeOK /\ LockInv
<1> SUFFICES ASSUME Init PROVE TypeOK /\ LockInv
  OBVIOUS
<1>1. TypeOK
  BY FreshType, ClientConstants DEF Init, TypeOK
<1>2. \A r \in Callers : /\ call[r].login = FALSE /\ call[r].at = "idle"
                         /\ lock # r
  BY ClientConstants DEF Init, Fresh
<1> QED
  BY <1>1, <1>2 DEF LockInv

\* The types hold in every reachable state, and _token_lock is held exactly by
\* the thread that is logging in: no other thread logs in meanwhile, and no
\* ended, failed or refused login leaves the lock behind.
THEOREM LoginHoldsTheLock == Spec => [](TypeOK /\ LockInv)
<1>1. TypeOK /\ LockInv /\ BucketTypeOK /\ [Next]_vars => (TypeOK /\ LockInv)'
  BY TypeStep, LockStep
<1>2. Spec => []BucketTypeOK
  BY ClientObeysRate, PTL
<1> QED
  BY <1>1, <1>2, ClientStart, PTL DEF Spec

-----------------------------------------------------------------------------
(* The cached token.                                                        *)

\* Token i lives for at least n more ticks, unless Toast revoked it.
LivesFor(i, n) == life[i] = -1 \/ life[i] >= n

\* An answer is under way for no longer than the HTTP timeout, and the token a
\* login brings lives for what the cache will believe after the rest of it.
UnderwayInv(r) ==
  /\ call[r].at \in {"flight", "issued"} => call[r].wait <= HttpTimeout
  /\ call[r].at = "issued" =>
       call[r].token \in Ids /\ LivesFor(call[r].token, Kept + call[r].wait)

\* The cached token lives for as long as the cache hands it out.
EntryInv == cached # None /\ left > 0 => LivesFor(cached, left)

TokenInv == EntryInv /\ \A r \in Callers : UnderwayInv(r)

\* What a step of one thread that leaves Toast alone has to show.
LEMMA TokenKept ==
  ASSUME TokenInv, NEW r \in Callers,
         \A q \in Callers : q # r => call'[q] = call[q],
         life' = life, EntryInv',
         call'[r].at # "issued",
         call'[r].at = "flight" => call'[r].wait <= HttpTimeout
  PROVE  TokenInv'
<1>1. ASSUME NEW q \in Callers PROVE UnderwayInv(q)'
  <2>1. CASE q = r
    BY <2>1 DEF UnderwayInv
  <2>2. CASE q # r
    BY <2>2 DEF TokenInv, UnderwayInv, LivesFor
  <2> QED
    BY <2>1, <2>2
<1> QED
  BY <1>1 DEF TokenInv

\* A new token outlives the answer that brings it and its life in the cache.
LEMMA IssueKeepsTokens ==
  ASSUME TypeOK, TokenInv, NEW r \in Callers, Issue(r)
  PROVE  TokenInv'
<1>0. call \in [Callers -> Calls] /\ call[r] \in Calls
  BY DEF TypeOK
<1>1. PICK i \in Ids : /\ Unused(i)
                       /\ call' = [call EXCEPT ![r].at = "issued", ![r].token = i]
                       /\ life' = [life EXCEPT ![i] = Life]
  BY DEF Issue
<1>2. /\ cached' = cached /\ left' = left
      /\ life'[i] = Life
      /\ \A j \in Ids : j # i => life'[j] = life[j]
  BY <1>1 DEF Issue, oauth, TypeOK
<1>3. EntryInv'
  <2>1. cached # i /\ cached \in Ids \cup {None}
    BY <1>1 DEF Unused, TypeOK
  <2> QED
    BY <1>2, <2>1 DEF TokenInv, EntryInv, LivesFor
<1>4. UnderwayInv(r)'
  <2>1. call'[r].at = "issued" /\ call'[r].token = i /\ call'[r].wait = call[r].wait
    BY <1>0, <1>1 DEF Calls
  <2>2. call[r].wait \in Nat /\ call[r].wait <= HttpTimeout
    BY <1>0 DEF Issue, At, TokenInv, UnderwayInv, Calls
  <2>3. Life >= Kept + call[r].wait
    BY <2>2, ClientConstants
  <2> QED
    BY <1>2, <2>1, <2>2, <2>3 DEF UnderwayInv, LivesFor
<1>5. ASSUME NEW q \in Callers, q # r PROVE UnderwayInv(q)'
  <2>1. call'[q] = call[q] /\ call[q].token # i
    BY <1>0, <1>1, <1>5 DEF Unused
  <2> QED
    BY <1>2, <2>1 DEF TokenInv, UnderwayInv, LivesFor
<1> QED
  BY <1>3, <1>4, <1>5 DEF TokenInv

\* A tick takes as much from every life as from every entry and every answer.
LEMMA TickKeepsTokens ==
  ASSUME TypeOK, TokenInv, Tick
  PROVE  TokenInv'
<1>0. call \in [Callers -> Calls] /\ left \in Nat /\ life \in [Ids -> Int]
  BY DEF TypeOK
<1>1. /\ cached' = cached /\ left' = Down(left)
      /\ call' = [r \in Callers |-> [call[r] EXCEPT !.wait = Down(@), !.gate = Down(@)]]
      /\ \A i \in Ids : ~Unused(i) => life'[i] = Down(life[i])
  BY DEF Tick
<1>2. EntryInv'
  <2>1. ASSUME cached # None, left' > 0 PROVE LivesFor(cached, left)'
    <3>1. left > 0 /\ left' = left - 1
      BY <1>0, <1>1, <2>1 DEF Down
    <3>2. cached \in Ids /\ life'[cached] = Down(life[cached])
      BY <1>1, <2>1 DEF TypeOK, Unused
    <3>3. life[cached] = -1 \/ life[cached] >= left
      BY <2>1, <3>1 DEF TokenInv, EntryInv, LivesFor
    <3>4. life[cached] \in Int /\ left \in Nat
      BY <1>0, <3>2
    <3>5. life'[cached] = -1 \/ life'[cached] >= left'
      BY <3>1, <3>2, <3>3, <3>4 DEF Down
    <3> QED
      BY <1>1, <3>5 DEF LivesFor
  <2> QED
    BY <1>1, <2>1 DEF EntryInv
<1>3. ASSUME NEW r \in Callers PROVE UnderwayInv(r)'
  <2>1. call[r] \in Calls /\ call[r].wait \in Nat
    BY <1>0 DEF Calls
  <2>2. /\ call'[r].at = call[r].at /\ call'[r].token = call[r].token
        /\ call'[r].wait = Down(call[r].wait)
    BY <1>1, <2>1 DEF Calls
  <2>3. CASE call[r].at \in {"flight", "issued"}
    <3>1. call[r].wait > 0
      BY <2>3 DEF Tick, InFlight, At
    <3>2. call'[r].wait = call[r].wait - 1 /\ call'[r].wait <= HttpTimeout
      BY <2>1, <2>2, <2>3, <3>1, ClientConstants DEF Down, TokenInv, UnderwayInv
    <3>3. ASSUME call[r].at = "issued"
          PROVE  call[r].token \in Ids /\ LivesFor(call[r].token, Kept + call[r].wait)'
      <4>1. /\ call[r].token \in Ids
            /\ life[call[r].token] = -1 \/ life[call[r].token] >= Kept + call[r].wait
        BY <3>3 DEF TokenInv, UnderwayInv, LivesFor
      <4>2. life'[call[r].token] = Down(life[call[r].token])
        BY <1>1, <4>1 DEF Unused
      <4> QED
        BY <1>0, <2>1, <2>2, <3>1, <3>2, <4>1, <4>2, ClientConstants DEF LivesFor, Down
    <3> QED
      BY <2>2, <3>2, <3>3 DEF UnderwayInv
  <2>4. CASE call[r].at \notin {"flight", "issued"}
    BY <2>2, <2>4 DEF UnderwayInv
  <2> QED
    BY <2>3, <2>4
<1> QED
  BY <1>2, <1>3 DEF TokenInv

\* Every step keeps it.
LEMMA TokenStep ==
  ASSUME TypeOK, TokenInv, [Next]_vars
  PROVE  TokenInv'
<1>0. call \in [Callers -> Calls] /\ HttpTimeout \in Nat
  BY ClientConstants DEF TypeOK
<1>1. ASSUME cached' = cached, left' = left, life' = life PROVE EntryInv'
  BY <1>1 DEF TokenInv, EntryInv, LivesFor
<1>2. ASSUME NEW r \in Callers, Start(r) \/ Acquire(r) \/ Nap(r) \/ Wake(r) PROVE TokenInv'
  <2>1. cached' = cached /\ left' = left /\ life' = life
    BY <1>2 DEF Start, Acquire, Nap, Wake, oauth
  <2>2. call'[r].at \in {"gate", "send", "ensure", "nap"}
    BY <1>0, <1>2, MovedFields
  <2> QED
    BY <1>0, <1>1, <1>2, <2>1, <2>2, TokenKept, MovedFields
<1>3. ASSUME NEW r \in Callers, UseCached(r) \/ BeginLogin(r) \/ Send(r) PROVE TokenInv'
  <2>1. cached' = cached /\ left' = left /\ life' = life
    BY <1>3 DEF UseCached, BeginLogin, Send, oauth
  <2>2. \/ call'[r].at \in {"send", "gate"}
        \/ call'[r].at = "flight" /\ call'[r].wait = HttpTimeout
    BY <1>0, <1>3, MovedFields
  <2>3. \A q \in Callers : q # r => call'[q] = call[q]
    BY <1>0, <1>3, MovedFields
  <2>4. HttpTimeout <= HttpTimeout /\ EntryInv'
    BY <1>0, <1>1, <2>1
  <2> QED
    BY <2>1, <2>2, <2>3, <2>4, TokenKept
<1>4. ASSUME NEW r \in Callers, Starve(r) \/ Busy(r) PROVE TokenInv'
  <2>1. cached' = cached /\ left' = left /\ life' = life /\ Raise(r)
    BY <1>4 DEF Starve, Busy
  <2> QED
    BY <1>0, <1>1, <2>1, TokenKept, RaiseFacts
<1>5. ASSUME NEW r \in Callers, Invalidate(r) PROVE TokenInv'
  <2>1. cached' = None /\ life' = life /\ Raise(r)
    BY <1>5 DEF Invalidate
  <2>2. EntryInv'
    BY <2>1 DEF EntryInv
  <2> QED
    BY <1>0, <2>1, <2>2, TokenKept, RaiseFacts
<1>6. ASSUME NEW r \in Callers, LoginReply(r) PROVE TokenInv'
  <2>1. /\ life' = life /\ cached' = call[r].token /\ left' = Kept
        /\ call[r].at = "issued"
    BY <1>6 DEF LoginReply, At
  <2>2. /\ call[r].token \in Ids /\ call[r].wait \in Nat
        /\ life[call[r].token] = -1 \/ life[call[r].token] >= Kept + call[r].wait
    BY <1>0, <2>1 DEF TokenInv, UnderwayInv, LivesFor, Calls
  <2>3. life \in [Ids -> Int] /\ Kept \in Nat
    BY ClientConstants DEF TypeOK
  <2>4. EntryInv'
    BY <2>1, <2>2, <2>3 DEF EntryInv, LivesFor
  <2> QED
    BY <1>0, <1>6, <2>1, <2>4, TokenKept, MovedFields
<1>7. ASSUME NEW r \in Callers, LoginRefused(r) \/ Answered(r) \/ Unauthorized(r) PROVE TokenInv'
  <2>1. cached' = cached /\ left' = left /\ life' = life
    BY <1>7 DEF LoginRefused, Answered, Unauthorized, oauth
  <2>2. call'[r].at \in {"ended", "invalidate"}
    BY <1>0, <1>7, MovedFields
  <2> QED
    BY <1>0, <1>1, <1>7, <2>1, <2>2, TokenKept, MovedFields
<1>8. ASSUME NEW i \in Ids, Revoke(i) PROVE TokenInv'
  <2>1. call' = call /\ cached' = cached /\ left' = left
    BY <1>8 DEF Revoke, oauth
  <2>2. \A j \in Ids : life'[j] = life[j] \/ life'[j] = -1
    BY <1>8 DEF Revoke, TypeOK
  <2>3. cached # None => cached \in Ids
    BY DEF TypeOK
  <2>4. EntryInv'
    BY <2>1, <2>2, <2>3 DEF TokenInv, EntryInv, LivesFor
  <2>5. ASSUME NEW r \in Callers PROVE UnderwayInv(r)'
    BY <2>1, <2>2 DEF TokenInv, UnderwayInv, LivesFor
  <2> QED
    BY <2>4, <2>5 DEF TokenInv
<1>9. CASE vars' = vars
  BY <1>9 DEF vars, oauth, TokenInv, EntryInv, UnderwayInv, LivesFor
<1> QED
  BY <1>2, <1>3, <1>4, <1>5, <1>6, <1>7, <1>8, <1>9, IssueKeepsTokens, TickKeepsTokens
  DEF Next, Step, Reply

\* A token the cache hands out has not expired at Toast (CachedTokenLives), for
\* any timeouts and lives that satisfy MarginAssumption.
THEOREM CacheOutlived == Spec => []CachedTokenLives
<1>1. Init => TokenInv
  BY DEF Init, TokenInv, EntryInv, UnderwayInv, Fresh
<1>2. TypeOK /\ TokenInv /\ [Next]_vars => TokenInv'
  BY TokenStep
<1>3. TypeOK /\ TokenInv => CachedTokenLives
  BY DEF TypeOK, TokenInv, EntryInv, LivesFor, CachedTokenLives
<1>4. Spec => []TypeOK
  BY LoginHoldsTheLock, PTL
<1> QED
  BY <1>1, <1>2, <1>3, <1>4, PTL DEF Spec
=============================================================================
