---------------------------- MODULE TokenBucket -----------------------------
(***************************************************************************)
(* The rate limiter shared by every outgoing call (services/ratelimit.py,   *)
(* class TokenBucket).  The bucket is refilled lazily: a caller first adds  *)
(* what accrued since the last refill, cut off at the capacity, and then    *)
(* takes a token or learns how long to wait.                                *)
(*                                                                          *)
(* Levels are counted in units.  A call costs Cost units and Rate units     *)
(* accrue per tick, so that a bucket may hold a part of a token.            *)
(***************************************************************************)
EXTENDS Integers

CONSTANTS
    Capacity,   \* capacity, in units
    Rate,       \* units accrued per tick
    Cost        \* units taken by one call (one token)

ASSUME BucketAssumption ==
    /\ {Capacity, Rate, Cost} \subseteq Nat \ {0}
    /\ Cost <= Capacity

VARIABLES
    tokens,     \* _tokens
    elapsed,    \* ticks since _last_refill, counted no further than Capacity
    budget      \* history: what an ideal, eagerly refilled bucket would hold

bucket == <<tokens, elapsed, budget>>

AtMost(limit, n) == IF n < limit THEN n ELSE limit

LevelMutant == tokens + elapsed * Rate

\* _refill_locked: what the bucket holds now.
Level == AtMost(Capacity, tokens + elapsed * Rate)

\* The wait acquire() computes: time until the missing units have accrued.
Wait == (Cost - Level + Rate - 1) \div Rate

\* try_acquire, and acquire when it finds a token.
Grant ==
    /\ Level >= Cost
    /\ tokens' = Level - Cost
    /\ elapsed' = 0
    /\ budget' = budget - Cost

\* A caller that finds too little leaves the refilled level behind.
Short ==
    /\ Level < Cost
    /\ tokens' = Level
    /\ elapsed' = 0
    /\ budget' = budget

\* Time passes.
Accrue ==
    /\ elapsed' = AtMost(Capacity, elapsed + 1)
    /\ budget' = AtMost(Capacity, budget + Rate)
    /\ tokens' = tokens

BucketInit ==
    /\ tokens = Capacity
    /\ elapsed = 0
    /\ budget = Capacity

BucketNext == Grant \/ Short \/ Accrue

BucketSpec == BucketInit /\ [][BucketNext]_bucket

-----------------------------------------------------------------------------
\* Type invariant of the bucket.
BucketTypeOK ==
    /\ tokens \in 0..Capacity
    /\ elapsed \in 0..Capacity
    /\ budget \in 0..Capacity

\* The ceiling of the limiter: over any stretch of time no more tokens are
\* granted than the burst plus what accrues, although refills are lazy and
\* callers that find nothing write the level back.  budget loses Cost per
\* grant and gains Rate per tick up to Capacity, so that a grant too many in
\* any window makes it negative.
GrantsObeyRate == budget >= 0

\* The lazy bucket holds exactly what an eager one would: nothing accrued is lost.
NothingAccruedIsLost == Level = budget
=============================================================================
