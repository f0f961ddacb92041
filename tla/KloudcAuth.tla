----------------------------- MODULE KloudcAuth -----------------------------
(***************************************************************************)
(* Sign-in with a KloudC session: services/kloudc_auth.py, the hand-off     *)
(* route routes/kloudc.py and the KloudC part of the request gate in        *)
(* app/__init__.py.                                                         *)
(*                                                                          *)
(* A request thread looks a token up in a small cache, and, when the cache  *)
(* has no fresh answer, takes one of the minute's call slots, leaves the    *)
(* lock, asks KloudC and stores the answer under the lock again.  Two       *)
(* threads may be out asking about one token at the same time.  The other   *)
(* credential is the signed cookie kc_labels, which a browser gets for a    *)
(* one-time code and which no cache holds.                                  *)
(*                                                                          *)
(* A token is one of this store's, well formed; every other token is        *)
(* refused before any state is read.  The clock counts ticks; reading it    *)
(* and taking the lock after it is one step.  KloudC's own sessions are     *)
(* external: it may turn a yes into a no and back MaxFlips times, and may   *)
(* fail to answer at any time.                                              *)
(*                                                                          *)
(* Definitions whose name ends in Mutant are distorted copies of the        *)
(* definition that follows them; nothing uses them in a specification.      *)
(***************************************************************************)
EXTENDS Integers, FiniteSets, SequencesExt

CONSTANTS
    Threads,     \* request threads
    Staff,       \* tokens of sessions KloudC knows
    Fakes,       \* well-formed tokens KloudC never knew
    Clients,     \* caller addresses
    NoClient,    \* the caller's address is not known
    SessionEnd,  \* SessionEnd[t] : when the session of staff token t ends
    CacheTtl,    \* cache_seconds: how long a yes is fresh
    NegTtl,      \* negative_cache_seconds: how long a no is kept
    Grace,       \* stale_grace_seconds: a yes this old still works in an outage
    Minute,      \* length of the window of the call limits
    MaxChecks,   \* max_checks_per_minute
    Timeout,     \* longest time a call to KloudC is under way
    HandoffAge,  \* HANDOFF_COOKIE_MAX_AGE
    MaxEntries,  \* MAX_CACHE_ENTRIES
    MaxTracked,  \* MAX_TRACKED_CLIENTS
    MaxFlips,    \* bound: how often KloudC changes its mind about a token
    MaxClock     \* bound on the clock

Tokens == Staff \cup Fakes

ASSUME TimesAssumption ==
    /\ {CacheTtl, NegTtl, Grace, MaxFlips, MaxClock} \subseteq Nat
    /\ {Minute, MaxChecks, Timeout, HandoffAge, MaxEntries} \subseteq Nat \ {0}
    /\ SessionEnd \in [Staff -> Nat]
    /\ Staff \cap Fakes = {}
    /\ NoClient \notin Clients

\* No client forgotten by the limiter can still have a call in the window:
\* 5000 tracked addresses against 120 calls a minute.
ASSUME TrackedAssumption == MaxTracked \in Nat /\ MaxTracked >= MaxChecks

\* The cache holds every answer stored while a yes is in its grace: 2000
\* entries against six minutes of at most 120 calls.
ASSUME CacheOutlastsGrace ==
    MaxEntries >= MaxChecks * ((Grace + Timeout) \div Minute + 1)

VARIABLES
    clock,
    mind,        \* mind[t] : KloudC's verdict on staff token t, and its changes
    cache,       \* _cache, oldest store first
    calls,       \* _calls: times of the outside calls of the last minute
    clientCalls, \* _client_calls, least recently used first
    thread,      \* thread[r] : the check or redeem thread r is in
    jar,         \* the browser's kc_labels cookie, or NoCookie
    \* History, read by the properties only:
    last,        \* the answer the last step gave, or Nothing
    outside,     \* the outside calls of the last Minute ticks: when and for whom
    callers,     \* callers[c] : when c made those of them that it made
    verdict      \* verdict[t] : last definite answer stored for t, and when

site == <<cache, calls, clientCalls, jar>>
history == <<last, outside, callers, verdict>>
vars == <<clock, mind, site, thread, history>>

-----------------------------------------------------------------------------
(* The cache and the call limits.                                           *)

ClientCap == IF MaxChecks \div 2 > 1 THEN MaxChecks \div 2 ELSE 1

Nothing == [what |-> "nothing"]
Idle == [at |-> "idle"]
NoCookie == [exp |-> 0]

EntriesOf(t) == {e \in ToSet(cache) : e.token = t}

CachedYes(t) == \E e \in EntriesOf(t) : e.kind = "yes" /\ clock < e.freshUntil
CachedNo(t) == \E e \in EntriesOf(t) : e.kind = "no" /\ clock < e.until

\* _stale_identity over a set of entries: a yes in its grace whose session lasts.
InGrace(entries) ==
    \E e \in entries : e.kind = "yes" /\ clock - e.checkedAt <= Grace /\ e.ends > clock

\* An ordered dictionary in which new is stored last, for what was at the one of
\* places if there is any; the oldest record is dropped beyond the limit.
Renewed(q, places, new, limit) ==
    LET others == IF places = {} THEN q ELSE RemoveAt(q, CHOOSE i \in places : TRUE)
        longer == Append(others, new)
    IN  IF Len(longer) > limit THEN Tail(longer) ELSE longer

StoredTooFewMutant(entry) ==
    Renewed(cache, {i \in DOMAIN cache : cache[i].token = entry.token}, entry, MaxEntries - 1)

\* _store.
Stored(entry) ==
    Renewed(cache, {i \in DOMAIN cache : cache[i].token = entry.token}, entry, MaxEntries)

\* What comes after the last of some places.
After(q, places) == IF places = {} THEN q ELSE SubSeq(q, Max(places) + 1, Len(q))

\* Old times leave at the front.
Recent(times) == After(times, {i \in DOMAIN times : times[i] <= clock - Minute})

\* Where a client is in the limiter's memory.
Tracked(c) == {i \in DOMAIN clientCalls : clientCalls[i].client = c}

CallsOf(c) ==
    IF Tracked(c) = {} THEN <<>> ELSE Recent(clientCalls[CHOOSE i \in Tracked(c) : TRUE].times)

SlotFreeMutant(c) ==
    /\ Len(Recent(calls)) < MaxChecks
    /\ c # NoClient => Len(CallsOf(c)) <= ClientCap

SlotFree(c) ==
    /\ Len(Recent(calls)) < MaxChecks
    /\ c # NoClient => Len(CallsOf(c)) < ClientCap

\* _take_call_slot granting a slot.  (Old times are dropped before every use,
\* so dropping them on a refusal as well is not seen.)
TakeSlot(c) ==
    /\ calls' = Append(Recent(calls), clock)
    /\ clientCalls' =
         IF c = NoClient THEN clientCalls
         ELSE Renewed(clientCalls, Tracked(c),
                      [client |-> c, times |-> Append(CallsOf(c), clock)], MaxTracked)

-----------------------------------------------------------------------------
(* check: the cache, the slot, the call, the store.                         *)

Answer(what, how, t) == last' = [what |-> what, how |-> how, token |-> t]

\* A fresh yes or an unexpired no: no outside call.
CheckHit(r, t) ==
    /\ thread[r] = Idle
    /\ \/ CachedNo(t) /\ Answer("refused", "cache", t)
       \/ CachedYes(t) /\ Answer("in", "cache", t)
    /\ UNCHANGED <<clock, mind, site, thread, outside, callers, verdict>>

\* No slot left: a recent yes is good enough, anybody else is told to wait.
CheckDenied(r, t, c) ==
    /\ thread[r] = Idle
    /\ ~CachedNo(t) /\ ~CachedYes(t) /\ ~SlotFree(c)
    /\ IF InGrace(EntriesOf(t)) THEN Answer("in", "grace", t) ELSE Answer("busy", "limit", t)
    /\ UNCHANGED <<clock, mind, site, thread, outside, callers, verdict>>

\* The thread leaves the lock and calls KloudC.
Ask(r, what, t, c) ==
    /\ thread' = [thread EXCEPT ![r] =
                    [at |-> "asking", for |-> what, token |-> t, since |-> clock,
                     says |-> "nothing"]]
    /\ outside' = Append(outside, [at |-> clock, client |-> c])
    /\ callers' = IF c = NoClient THEN callers ELSE [callers EXCEPT ![c] = Append(@, clock)]
    /\ TakeSlot(c)
    /\ last' = Nothing

CheckAsk(r, t, c) ==
    /\ thread[r] = Idle
    /\ ~CachedNo(t) /\ ~CachedYes(t) /\ SlotFree(c)
    /\ Ask(r, "check", t, c)
    /\ UNCHANGED <<clock, mind, cache, jar, verdict>>

\* External: KloudC decides.  Its answer is then on its way to the thread.
KloudcDecides(r) ==
    /\ thread[r].at = "asking"
    /\ LET t == thread[r].token
           knows == t \in Staff /\ mind[t].says = "yes"
       IN  thread' = [thread EXCEPT ![r] =
                        [@ EXCEPT !.at = "decided", !.says = IF knows THEN "yes" ELSE "no"]]
    /\ last' = Nothing
    /\ UNCHANGED <<clock, mind, site, outside, callers, verdict>>

\* identity_from_body: a yes for a session that has ended counts as a no.
Accepted(r) == thread[r].says = "yes" /\ SessionEnd[thread[r].token] > clock

Back(r, what) == thread[r].at = "decided" /\ thread[r].for = what

YesEntryMutant(t, ttl) ==
    [token |-> t, kind |-> "yes", checkedAt |-> clock, ends |-> SessionEnd[t],
     freshUntil |-> clock + ttl]

\* A yes is fresh for ttl ticks and never past the end of the session.
YesEntry(t, ttl) ==
    LET until == clock + ttl
    IN  [token |-> t, kind |-> "yes", checkedAt |-> clock, ends |-> SessionEnd[t],
         freshUntil |-> IF SessionEnd[t] < until THEN SessionEnd[t] ELSE until]

NoEntry(t) == [token |-> t, kind |-> "no", until |-> clock + NegTtl]

\* The server's hint may shorten the life of a yes, down to nothing.
CheckStoresYes(r) ==
    /\ Back(r, "check") /\ Accepted(r)
    /\ \E ttl \in {0, CacheTtl} : cache' = Stored(YesEntry(thread[r].token, ttl))
    /\ verdict' = [verdict EXCEPT ![thread[r].token] = [kind |-> "yes", at |-> clock]]
    /\ Answer("in", "asked", thread[r].token)
    /\ thread' = [thread EXCEPT ![r] = Idle]
    /\ UNCHANGED <<clock, mind, calls, clientCalls, jar, outside, callers>>

CheckStoresNoMutant(r) ==
    /\ Back(r, "check") /\ ~Accepted(r)
    /\ cache' = IF InGrace(EntriesOf(thread[r].token)) THEN cache ELSE Stored(NoEntry(thread[r].token))
    /\ verdict' = [verdict EXCEPT ![thread[r].token] = [kind |-> "no", at |-> clock]]
    /\ Answer("refused", "asked", thread[r].token)
    /\ thread' = [thread EXCEPT ![r] = Idle]
    /\ UNCHANGED <<clock, mind, calls, clientCalls, jar, outside, callers>>

CheckStoresNo(r) ==
    /\ Back(r, "check") /\ ~Accepted(r)
    /\ cache' = Stored(NoEntry(thread[r].token))
    /\ verdict' = [verdict EXCEPT ![thread[r].token] = [kind |-> "no", at |-> clock]]
    /\ Answer("refused", "asked", thread[r].token)
    /\ thread' = [thread EXCEPT ![r] = Idle]
    /\ UNCHANGED <<clock, mind, calls, clientCalls, jar, outside, callers>>

\* No answer (timeout, connection error, 5xx, 429; also when KloudC decided
\* and its reply was lost): the cache is read again for the grace.
CheckUnreached(r) ==
    /\ thread[r].at # "idle" /\ thread[r].for = "check"
    /\ LET t == thread[r].token
       IN  IF InGrace(EntriesOf(t)) THEN Answer("in", "grace", t)
           ELSE Answer("unavailable", "asked", t)
    /\ thread' = [thread EXCEPT ![r] = Idle]
    /\ UNCHANGED <<clock, mind, site, outside, callers, verdict>>

-----------------------------------------------------------------------------
(* /kloudc/enter: a one-time code is traded for the kc_labels cookie.       *)

RedeemAsk(r, t, c) ==
    /\ thread[r] = Idle /\ SlotFree(c)
    /\ Ask(r, "redeem", t, c)
    /\ UNCHANGED <<clock, mind, cache, jar, verdict>>

CookieEnd(t) ==
    IF SessionEnd[t] < clock + HandoffAge THEN SessionEnd[t] ELSE clock + HandoffAge

\* The code was good: the browser gets the cookie and goes to the site.
\* (An ended session is refused before, so max_age is never 0 here.)
RedeemYes(r) ==
    /\ Back(r, "redeem") /\ Accepted(r)
    /\ jar' = [token |-> thread[r].token, exp |-> CookieEnd(thread[r].token)]
    /\ thread' = [thread EXCEPT ![r] = Idle]
    /\ last' = Nothing
    /\ UNCHANGED <<clock, mind, cache, calls, clientCalls, outside, callers, verdict>>

\* A no, no answer, or no slot: back to the KloudC login page, nothing kept.
RedeemFails(r) ==
    /\ thread[r].at # "idle" /\ thread[r].for = "redeem"
    /\ thread' = [thread EXCEPT ![r] = Idle]
    /\ last' = Nothing
    /\ UNCHANGED <<clock, mind, site, outside, callers, verdict>>

\* The gate reads a valid cookie before it looks for a token.
UseCookie ==
    /\ jar # NoCookie /\ clock < jar.exp
    /\ Answer("in", "cookie", jar.token)
    /\ UNCHANGED <<clock, mind, site, thread, outside, callers, verdict>>

-----------------------------------------------------------------------------
(* KloudC and time.                                                         *)

\* External: the session is revoked, label printing is switched off or on.
ChangeMind(t) ==
    /\ mind[t].flips < MaxFlips
    /\ mind' = [mind EXCEPT ![t] = [says |-> IF @.says = "yes" THEN "no" ELSE "yes", flips |-> @.flips + 1]]
    /\ last' = Nothing
    /\ UNCHANGED <<clock, site, thread, outside, callers, verdict>>

\* A call that has been out for Timeout ticks ends before the clock goes on.
Tick ==
    /\ clock < MaxClock
    /\ \A r \in Threads : thread[r] # Idle => clock < thread[r].since + Timeout
    /\ clock' = clock + 1
    /\ last' = Nothing
    /\ LET Old(at) == at <= (clock + 1) - Minute
       IN  /\ outside' = After(outside, {i \in DOMAIN outside : Old(outside[i].at)})
           /\ callers' = [c \in Clients |->
                            After(callers[c], {i \in DOMAIN callers[c] : Old(callers[c][i])})]
    /\ UNCHANGED <<mind, site, thread, verdict>>

Init ==
    /\ clock = 0
    /\ mind = [t \in Staff |-> [says |-> "yes", flips |-> 0]]
    /\ cache = <<>>
    /\ calls = <<>>
    /\ clientCalls = <<>>
    /\ thread = [r \in Threads |-> Idle]
    /\ jar = NoCookie
    /\ last = Nothing
    /\ outside = <<>>
    /\ callers = [c \in Clients |-> <<>>]
    /\ verdict = [t \in Tokens |-> [kind |-> "none", at |-> 0]]

Check(r) ==
    \E t \in Tokens, c \in Clients \cup {NoClient} :
        CheckHit(r, t) \/ CheckDenied(r, t, c) \/ CheckAsk(r, t, c)

Return(r) ==
    \/ CheckStoresYes(r)
    \/ CheckStoresNo(r)
    \/ CheckUnreached(r)
    \/ RedeemYes(r)
    \/ RedeemFails(r)

Next ==
    \/ \E r \in Threads :
        \/ Check(r)
        \/ \E t \in Staff, c \in Clients : RedeemAsk(r, t, c)
        \/ KloudcDecides(r)
        \/ Return(r)
    \/ UseCookie
    \/ \E t \in Staff : ChangeMind(t)
    \/ Tick

Spec == Init /\ [][Next]_vars

-----------------------------------------------------------------------------
(* Properties.                                                              *)

\* No window of a minute holds more outside calls than the limit, nor more of
\* one caller than its share, however checks and redemptions overlap and
\* although the limiter forgets callers (_take_call_slot).
CallsWithinLimit ==
    /\ Len(outside) <= MaxChecks
    /\ \A c \in Clients : Len(callers[c]) <= ClientCap

\* Nobody is let in after the end of the KloudC session behind the credential:
\* not by a cached yes, not by the grace, not by the hand-off cookie.
SessionEndHolds == last # Nothing /\ last.what = "in" => clock < SessionEnd[last.token]

\* The grace never follows a no: a token let in although KloudC was not heard
\* has a yes as the last definite answer stored for it.
NoGraceAfterNo ==
    last # Nothing /\ last.what = "in" /\ last.how = "grace" => verdict[last.token].kind = "yes"

\* A token that was a yes in the last Grace ticks and whose session lasts still
\* works in an outage and when made-up tokens use up all the calls: the flood
\* cannot push its answer out of the cache either.
RecentYesStillWorks ==
    last # Nothing /\ last.what \in {"busy", "unavailable"} =>
        \/ verdict[last.token].kind # "yes"
        \/ clock - verdict[last.token].at > Grace
        \/ SessionEnd[last.token] <= clock
=============================================================================
