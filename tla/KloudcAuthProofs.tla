-------------------------- MODULE KloudcAuthProofs --------------------------
(***************************************************************************)
(* What the KloudC sign-in keeps for any threads, tokens, callers, times    *)
(* and limits: nobody outlives the session, the grace never follows a no,   *)
(* no window of a minute holds more calls than the limits allow, and a      *)
(* recent yes works although nobody can be asked any more.                  *)
(***************************************************************************)
EXTENDS KloudcAuth, SequenceTheorems, FiniteSetTheorems, TLAPS

\* The values of the variables' parts, as opaque sets.
YesEntries == [token : Staff, kind : {"yes"}, checkedAt : Nat, ends : Nat, freshUntil : Nat]
NoEntries == [token : Tokens, kind : {"no"}, until : Nat]
Entries == YesEntries \cup NoEntries
Uses == [client : Clients, times : Seq(Nat)]
OutsideCalls == [at : Nat, client : Clients \cup {NoClient}]
Trips == [at : {"asking", "decided"}, for : {"check", "redeem"}, token : Tokens,
          since : Nat, says : {"nothing", "yes", "no"}]
Answers == [what : {"in", "refused", "busy", "unavailable"},
            how : {"cache", "grace", "limit", "asked", "cookie"}, token : Tokens]
Cookies == [token : Staff, exp : Nat]

\* The types of all variables.
TypeInv ==
  /\ clock \in Nat
  /\ mind \in [Staff -> [says : {"yes", "no"}, flips : Nat]]
  /\ cache \in Seq(Entries)
  /\ calls \in Seq(Nat)
  /\ clientCalls \in Seq(Uses)
  /\ thread \in [Threads -> Trips \cup {Idle}]
  /\ jar \in Cookies \cup {NoCookie}
  /\ last \in Answers \cup {Nothing}
  /\ outside \in Seq(OutsideCalls)
  /\ callers \in [Clients -> Seq(Nat)]
  /\ verdict \in [Tokens -> [kind : {"none", "yes", "no"}, at : Nat]]

\* Every credential knows the end of its session and does not outlive it; only
\* a session that KloudC knows gets a yes.
SessionInv ==
  /\ \A i \in DOMAIN cache : cache[i].kind = "yes" =>
       cache[i].ends = SessionEnd[cache[i].token] /\ cache[i].freshUntil <= cache[i].ends
  /\ \A r \in Threads : thread[r].at = "decided" /\ thread[r].says = "yes" =>
       thread[r].token \in Staff
  /\ jar # NoCookie => jar.exp <= SessionEnd[jar.token]

\* The cache has one entry for a token, and it is the last definite answer.
CacheInv ==
  /\ \A i, j \in DOMAIN cache : cache[i].token = cache[j].token => i = j
  /\ \A i \in DOMAIN cache : cache[i].kind = verdict[cache[i].token].kind
  /\ Len(cache) <= MaxEntries

\* What the last answer relied on.
AnswerInv == SessionEndHolds /\ NoGraceAfterNo

\* Times in order, all of the minute that ends now.
OfTheMinute(times, now) ==
  /\ \A i \in DOMAIN times : now - Minute < times[i] /\ times[i] <= now
  /\ \A i, j \in DOMAIN times : i <= j => times[i] <= times[j]

\* A list that ends with those times, after others that are older.
EndsWith(list, times, now) ==
  \E m \in Nat :
    /\ Len(list) = m + Len(times)
    /\ \A i \in DOMAIN times : list[m + i] = times[i]
    /\ \A i \in 1 .. m : list[i] <= now - Minute

\* When the calls of a list were made.
Times(list) == [i \in DOMAIN list |-> list[i].at]

\* When a client that is tracked was last granted a call.
LastUse(i) == clientCalls[i].times[Len(clientCalls[i].times)]

\* What the limiter remembers is what really happened in the last minute.
MemoryInv ==
  /\ OfTheMinute(Times(outside), clock)
  /\ EndsWith(calls, Times(outside), clock)
  /\ \A c \in Clients : OfTheMinute(callers[c], clock)
  /\ \A i \in DOMAIN clientCalls :
       EndsWith(clientCalls[i].times, callers[clientCalls[i].client], clock)
  /\ \A c \in Clients :
       (\A i \in DOMAIN clientCalls : clientCalls[i].client # c) => callers[c] = <<>>
  /\ \A c \in Clients : \A i \in DOMAIN callers[c] :
       \E j \in DOMAIN outside : outside[j].client = c /\ outside[j].at = callers[c][i]

\* The tracked clients are distinct, least recently used first.
TrackedInv ==
  /\ \A i, j \in DOMAIN clientCalls : clientCalls[i].client = clientCalls[j].client => i = j
  /\ \A i \in DOMAIN clientCalls : clientCalls[i].times # <<>> /\ LastUse(i) <= clock
  /\ \A i, j \in DOMAIN clientCalls : i <= j => LastUse(i) <= LastUse(j)
  /\ Len(clientCalls) <= MaxTracked

\* The inductive invariant.
IInv == /\ TypeInv /\ SessionInv /\ CacheInv /\ AnswerInv
        /\ MemoryInv /\ TrackedInv /\ CallsWithinLimit
-----------------------------------------------------------------------------
(* Lists. *)

\* What is assumed of the constants, one by one.
LEMMA Numbers ==
  /\ CacheTtl \in Nat /\ NegTtl \in Nat
  /\ Minute \in Nat \ {0} /\ MaxChecks \in Nat \ {0} /\ MaxEntries \in Nat \ {0}
  /\ HandoffAge \in Nat \ {0}
  /\ SessionEnd \in [Staff -> Nat]
  /\ NoClient \notin Clients
BY TimesAssumption


\* A set of numbers that is not empty has a smallest one.
LEMMA Smallest ==
  ASSUME NEW S \in SUBSET Nat, S # {}
  PROVE  Min(S) \in S /\ \A x \in S : Min(S) <= x
<1> DEFINE below == {0 .. x : x \in S}
<1>1. below # {} /\ below \subseteq FiniteSubsetsOf(Nat)
  <2>1. \A x \in S : 0 .. x \in SUBSET Nat /\ IsFiniteSet(0 .. x)
    BY FS_Interval
  <2> QED
    BY <2>1 DEF FiniteSubsetsOf
<1>2. PICK X \in below : \A Y \in below : <<Y, X>> \notin StrictSubsetOrdering(Nat)
  BY <1>1, FS_StrictSubsetOrderingWellFounded, WFMin
<1>3. PICK x \in S : X = 0 .. x
  OBVIOUS
<1>4. ASSUME NEW y \in S PROVE x <= y
  <2> SUFFICES ASSUME y < x PROVE FALSE
    OBVIOUS
  <2>1. 0 .. y \in below /\ 0 .. y \in SUBSET Nat /\ 0 .. x \in SUBSET Nat
    OBVIOUS
  <2>2. 0 .. y \subseteq 0 .. x
    OBVIOUS
  <2>3. x \in 0 .. x /\ x \notin 0 .. y
    OBVIOUS
  <2> QED
    BY <1>2, <1>3, <2>1, <2>2, <2>3 DEF StrictSubsetOrdering
<1> QED
  BY <1>4 DEF Min

\* A bounded one has a greatest one.
LEMMA Greatest ==
  ASSUME NEW n \in Nat, NEW S \in SUBSET (1 .. n), S # {}
  PROVE  Max(S) \in S /\ \A x \in S : x <= Max(S)
<1> DEFINE T == {y \in 0 .. n : n - y \in S}
<1>1. T \in SUBSET Nat /\ T # {}
  <2>1. PICK x \in S : TRUE
    OBVIOUS
  <2>2. n - x \in 0 .. n /\ n - (n - x) = x
    OBVIOUS
  <2>3. n - x \in T
    BY <2>1, <2>2
  <2>4. T \subseteq Nat
    OBVIOUS
  <2> HIDE DEF T
  <2> QED
    BY <2>3, <2>4
<1>2. Min(T) \in T /\ \A y \in T : Min(T) <= y
  BY <1>1, Smallest
<1>3. PICK y \in 0 .. n : y = Min(T)
  BY <1>2
<1>4. n - y \in S
  BY <1>2, <1>3
<1>5. ASSUME NEW x \in S PROVE x <= n - y
  <2>1. x \in 0 .. n /\ n - x \in 0 .. n /\ n - (n - x) = x
    OBVIOUS
  <2>2. n - x \in T
    BY <2>1
  <2>3. y <= n - x
    BY <1>2, <1>3, <2>2
  <2> QED
    BY <2>1, <2>3
<1> QED
  BY <1>4, <1>5 DEF Max

\* A list without its beginning.
LEMMA Dropped ==
  ASSUME NEW R, NEW q \in Seq(R), NEW places \in SUBSET (DOMAIN q)
  PROVE  \E m \in 0 .. Len(q) :
           /\ After(q, places) \in Seq(R)
           /\ Len(After(q, places)) = Len(q) - m
           /\ \A i \in 1 .. Len(q) - m : After(q, places)[i] = q[m + i]
           /\ m = 0 \/ m \in places
           /\ \A i \in places : i <= m
<1>1. Len(q) \in Nat /\ DOMAIN q = 1 .. Len(q) /\ \A i \in 1 .. Len(q) : q[i] \in R
  OBVIOUS
<1>2. CASE places = {}
  <2>1. After(q, places) = q
    BY <1>2 DEF After
  <2>2. 0 \in 0 .. Len(q) /\ Len(q) - 0 = Len(q) /\ \A i \in 1 .. Len(q) : 0 + i = i
    BY <1>1
  <2> QED
    BY <1>1, <1>2, <2>1, <2>2
<1>3. CASE places # {}
  <2>1. Max(places) \in places /\ \A i \in places : i <= Max(places)
    BY <1>1, <1>3, Greatest
  <2>2. PICK m \in 1 .. Len(q) : m = Max(places)
    BY <1>1, <2>1
  <2>3. After(q, places) = SubSeq(q, m + 1, Len(q))
    BY <1>3, <2>2 DEF After
  <2>4. m + 1 \in Int /\ Len(q) \in Int /\ \A i \in m + 1 .. Len(q) : q[i] \in R
    BY <1>1, <2>2
  <2>5. /\ SubSeq(q, m + 1, Len(q)) \in Seq(R)
        /\ Len(SubSeq(q, m + 1, Len(q))) =
             IF m + 1 <= Len(q) THEN Len(q) - (m + 1) + 1 ELSE 0
        /\ \A i \in 1 .. Len(q) - (m + 1) + 1 :
             SubSeq(q, m + 1, Len(q))[i] = q[m + 1 + i - 1]
    BY <2>4, SubSeqProperties
  <2>6. /\ Len(After(q, places)) = Len(q) - m
        /\ \A i \in 1 .. Len(q) - m : After(q, places)[i] = q[m + i]
    BY <1>1, <2>2, <2>3, <2>5
  <2>7. m \in 0 .. Len(q) /\ m \in places /\ \A i \in places : i <= m
    BY <2>1, <2>2
  <2> QED
    BY <2>3, <2>5, <2>6, <2>7
<1> QED
  BY <1>2, <1>3

\* A token or a client is in one place of a dictionary at most.
AtMostOne(places) == \A i, j \in places : i = j

\* A renewed dictionary has the other records before the new one, in their order.
KeepsOthers(long, q, places, limit) ==
  \E f \in [1 .. Len(long) - 1 -> DOMAIN q \ places] :
    /\ \A i, j \in 1 .. Len(long) - 1 : i < j => f[i] < f[j]
    /\ \A i \in 1 .. Len(long) - 1 : long[i] = q[f[i]]
    /\ \A j \in DOMAIN q \ places :
         \/ \E i \in 1 .. Len(long) - 1 : f[i] = j
         \/ j = 1 /\ places = {} /\ Len(q) = limit

\* What is stored last in an ordered dictionary is the newest record; the others
\* stay in their order, but for the one it is stored for and, if there was none
\* and the dictionary was full, the oldest.
LEMMA RenewedKeeps ==
  ASSUME NEW R, NEW q \in Seq(R), NEW new \in R,
         NEW places \in SUBSET (DOMAIN q), AtMostOne(places),
         NEW limit \in Nat \ {0}, Len(q) <= limit,
         NEW long, long = Renewed(q, places, new, limit)
  PROVE  /\ long \in Seq(R) /\ Len(long) \in 1 .. limit
         /\ long[Len(long)] = new
         /\ KeepsOthers(long, q, places, limit)
<1> USE DEF AtMostOne
<1> DEFINE others == IF places = {} THEN q ELSE RemoveAt(q, CHOOSE i \in places : TRUE)
           longer == Append(others, new)
           Kept(x, l) ==
             \E f \in [1 .. l -> DOMAIN q \ places] :
               /\ \A i, j \in 1 .. l : i < j => f[i] < f[j]
               /\ \A i \in 1 .. l : x[i] = q[f[i]]
               /\ \A j \in DOMAIN q \ places :
                    \/ \E i \in 1 .. l : f[i] = j
                    \/ j = 1 /\ places = {} /\ Len(q) = limit
<1> SUFFICES /\ long \in Seq(R) /\ Len(long) \in 1 .. limit
             /\ long[Len(long)] = new
             /\ Kept(long, Len(long) - 1)
  BY DEF KeepsOthers
<1>1. PICK n \in Nat : n = Len(q) /\ DOMAIN q = 1 .. n /\ \A i \in 1 .. n : q[i] \in R
  OBVIOUS
<1>2. long = IF Len(longer) > limit THEN Tail(longer) ELSE longer
  BY DEF Renewed
<1>3. CASE places = {}
  <2>1. /\ longer \in Seq(R) /\ Len(longer) = n + 1
        /\ \A i \in 1 .. n : longer[i] = q[i]
        /\ longer[n + 1] = new
    BY <1>1, <1>3, AppendProperties
  <2> HIDE DEF longer
  <2>2. CASE n = limit
    <3>1. longer # <<>>
      BY <1>1, <2>1
    <3>2. long = Tail(longer)
      BY <1>1, <1>2, <2>1, <2>2
    <3>3. /\ long \in Seq(R) /\ Len(long) = n
          /\ \A i \in 1 .. n : long[i] = longer[i + 1]
      BY <1>1, <2>1, <3>1, <3>2, HeadTailProperties
    <3>4. ASSUME NEW i \in 1 .. n - 1 PROVE long[i] = q[i + 1]
      <4>1. i \in 1 .. n /\ i + 1 \in 1 .. n
        BY <1>1
      <4>2. long[i] = longer[i + 1] /\ longer[i + 1] = q[i + 1]
        BY <2>1, <3>3, <4>1
      <4> QED
        BY <4>2
    <3>5. long[n] = new
      BY <1>1, <2>1, <2>2, <3>3
    <3> DEFINE f == [i \in 1 .. n - 1 |-> i + 1]
    <3>6. f \in [1 .. n - 1 -> DOMAIN q \ places]
      BY <1>1, <1>3
    <3>7. \A i, j \in 1 .. n - 1 : i < j => f[i] < f[j]
      BY <1>1
    <3>8. \A i \in 1 .. n - 1 : long[i] = q[f[i]]
      BY <3>4
    <3>9. ASSUME NEW j \in 1 .. n, j # 1 PROVE \E i \in 1 .. n - 1 : f[i] = j
      <4>1. j - 1 \in 1 .. n - 1 /\ f[j - 1] = j
        BY <1>1, <3>9
      <4> QED
        BY <4>1
    <3> HIDE DEF f
    <3>10. Len(long) - 1 = n - 1 /\ n \in 1 .. limit
      BY <1>1, <2>2, <3>3
    <3>11. \A j \in DOMAIN q \ places :
             \/ \E i \in 1 .. n - 1 : f[i] = j
             \/ j = 1 /\ places = {} /\ n = limit
      BY <1>1, <1>3, <2>2, <3>9
    <3>12. long[Len(long)] = new /\ Len(long) \in 1 .. limit
      BY <3>3, <3>5, <3>10
    <3>13. Kept(long, n - 1)
      BY <1>1, <3>6, <3>7, <3>8, <3>11
    <3> HIDE DEF Kept
    <3> QED
      BY <3>3, <3>10, <3>12, <3>13
  <2>3. CASE n # limit
    <3>1. long = longer
      BY <1>1, <1>2, <2>1, <2>3
    <3> DEFINE f == [i \in 1 .. n |-> i]
    <3>2. /\ f \in [1 .. n -> DOMAIN q \ places]
          /\ \A i, j \in 1 .. n : i < j => f[i] < f[j]
          /\ \A i \in 1 .. n : long[i] = q[f[i]]
          /\ \A j \in DOMAIN q \ places : \E i \in 1 .. n : f[i] = j
      BY <1>1, <1>3, <2>1, <3>1
    <3> HIDE DEF f
    <3>3. Len(long) - 1 = n /\ Len(long) \in 1 .. limit /\ long[Len(long)] = new
      BY <1>1, <2>1, <2>3, <3>1
    <3>4. long \in Seq(R)
      BY <2>1, <3>1
    <3>5. Kept(long, n)
      BY <3>2
    <3> HIDE DEF Kept
    <3> QED
      BY <3>3, <3>4, <3>5
  <2> QED
    BY <2>2, <2>3
<1>4. CASE places # {}
  <2>1. PICK p \in 1 .. n : places = {p}
    BY <1>1, <1>4
  <2>2. others = SubSeq(q, 1, p - 1) \o SubSeq(q, p + 1, n)
    BY <1>1, <1>4, <2>1 DEF RemoveAt
  <2>3. /\ SubSeq(q, 1, p - 1) \in Seq(R) /\ Len(SubSeq(q, 1, p - 1)) = p - 1
        /\ \A i \in 1 .. p - 1 : SubSeq(q, 1, p - 1)[i] = q[i]
    <3>1. 1 \in Int /\ p - 1 \in Int /\ \A i \in 1 .. p - 1 : q[i] \in R
      BY <1>1
    <3>2. /\ SubSeq(q, 1, p - 1) \in Seq(R)
          /\ Len(SubSeq(q, 1, p - 1)) = IF 1 <= p - 1 THEN p - 1 - 1 + 1 ELSE 0
          /\ \A i \in 1 .. p - 1 - 1 + 1 : SubSeq(q, 1, p - 1)[i] = q[1 + i - 1]
      BY <3>1, SubSeqProperties
    <3> QED
      BY <3>2
  <2>4. /\ SubSeq(q, p + 1, n) \in Seq(R) /\ Len(SubSeq(q, p + 1, n)) = n - p
        /\ \A i \in 1 .. n - p : SubSeq(q, p + 1, n)[i] = q[p + i]
    <3>1. p + 1 \in Int /\ n \in Int /\ \A i \in p + 1 .. n : q[i] \in R
      BY <1>1
    <3>2. /\ SubSeq(q, p + 1, n) \in Seq(R)
          /\ Len(SubSeq(q, p + 1, n)) = IF p + 1 <= n THEN n - (p + 1) + 1 ELSE 0
          /\ \A i \in 1 .. n - (p + 1) + 1 : SubSeq(q, p + 1, n)[i] = q[p + 1 + i - 1]
      BY <3>1, SubSeqProperties
    <3> QED
      BY <1>1, <3>2
  <2>5. /\ others \in Seq(R) /\ Len(others) = n - 1
        /\ \A i \in 1 .. n - 1 : others[i] = IF i < p THEN q[i] ELSE q[i + 1]
    <3> DEFINE a == SubSeq(q, 1, p - 1)
               b == SubSeq(q, p + 1, n)
    <3>1. a \in Seq(R) /\ b \in Seq(R) /\ Len(a) = p - 1 /\ Len(b) = n - p
      BY <2>3, <2>4
    <3>2. /\ a \o b \in Seq(R) /\ Len(a \o b) = Len(a) + Len(b)
          /\ \A i \in 1 .. Len(a) + Len(b) :
               (a \o b)[i] = IF i <= Len(a) THEN a[i] ELSE b[i - Len(a)]
      BY <3>1, ConcatProperties
    <3>3. others = a \o b
      BY <2>2
    <3>4. \A i \in 1 .. p - 1 : a[i] = q[i]
      BY <2>3
    <3>5. \A i \in 1 .. n - p : b[i] = q[p + i]
      BY <2>4
    <3> HIDE DEF others, a, b
    <3>6. Len(a) + Len(b) = n - 1
      BY <1>1, <3>1
    <3>7. ASSUME NEW i \in 1 .. n - 1 PROVE others[i] = IF i < p THEN q[i] ELSE q[i + 1]
      <4>1. others[i] = IF i <= p - 1 THEN a[i] ELSE b[i - (p - 1)]
        BY <3>1, <3>2, <3>3, <3>6
      <4>2. CASE i < p
        BY <1>1, <3>4, <4>1, <4>2
      <4>3. CASE ~(i < p)
        <5>1. i - (p - 1) \in 1 .. n - p /\ p + (i - (p - 1)) = i + 1 /\ ~(i <= p - 1)
          BY <1>1, <4>3
        <5> QED
          BY <3>5, <4>1, <4>3, <5>1
      <4> QED
        BY <4>2, <4>3
    <3> QED
      BY <3>2, <3>3, <3>6, <3>7
  <2> HIDE DEF others
  <2>6. /\ longer \in Seq(R) /\ Len(longer) = n - 1 + 1
        /\ \A i \in 1 .. n - 1 : longer[i] = others[i]
        /\ longer[n - 1 + 1] = new
    BY <2>5, AppendProperties
  <2>7. n - 1 + 1 = n
    BY <1>1
  <2> HIDE DEF longer
  <2>8. long = longer
    BY <1>1, <1>2, <2>6, <2>7
  <2> DEFINE f == [i \in 1 .. n - 1 |-> IF i < p THEN i ELSE i + 1]
  <2>9. f \in [1 .. n - 1 -> DOMAIN q \ places]
    BY <1>1, <2>1
  <2>10. \A i, j \in 1 .. n - 1 : i < j => f[i] < f[j]
    BY <1>1
  <2>11. \A i \in 1 .. n - 1 : long[i] = q[f[i]]
    BY <2>5, <2>6, <2>8
  <2>12. ASSUME NEW j \in DOMAIN q \ places PROVE \E i \in 1 .. n - 1 : f[i] = j
    <3>1. CASE j < p
      <4>1. j \in 1 .. n - 1 /\ f[j] = j
        BY <1>1, <3>1
      <4> QED
        BY <4>1
    <3>2. CASE ~(j < p)
      <4>1. j - 1 \in 1 .. n - 1 /\ f[j - 1] = j
        BY <1>1, <2>1, <3>2
      <4> QED
        BY <4>1
    <3> QED
      BY <3>1, <3>2
  <2> HIDE DEF f
  <2>13. /\ long \in Seq(R) /\ Len(long) \in 1 .. limit
         /\ long[Len(long)] = new /\ Len(long) - 1 = n - 1
    BY <1>1, <2>6, <2>7, <2>8
  <2>14. Kept(long, n - 1)
    BY <2>9, <2>10, <2>11, <2>12
  <2> HIDE DEF Kept
  <2> QED
    BY <2>13, <2>14
<1> QED
  BY <1>3, <1>4
-----------------------------------------------------------------------------
(* Times of calls. *)

\* A call that is made now is of the minute.
LEMMA CallAdded ==
  ASSUME NEW times \in Seq(Nat), NEW now \in Nat, OfTheMinute(times, now),
         NEW more, more = Append(times, now)
  PROVE  /\ more \in Seq(Nat) /\ more # <<>>
         /\ OfTheMinute(more, now) /\ EndsWith(more, more, now)
         /\ more[Len(more)] = now
<1>1. /\ more \in Seq(Nat) /\ more # <<>> /\ Len(more) = Len(times) + 1
      /\ \A i \in 1 .. Len(times) : more[i] = times[i]
      /\ more[Len(times) + 1] = now
  BY AppendProperties
<1>2. PICK n \in Nat : /\ n = Len(times) /\ DOMAIN times = 1 .. n
                       /\ \A i \in 1 .. n : times[i] \in Nat
  OBVIOUS
<1>3. DOMAIN more = 1 .. n + 1
  BY <1>1, <1>2
<1>4. Minute \in Nat \ {0}
  BY Numbers
<1>5. \A i \in 1 .. n : more[i] = times[i] /\ now - Minute < times[i] /\ times[i] <= now
  BY <1>1, <1>2 DEF OfTheMinute
<1>6. \A i, j \in 1 .. n : i <= j => more[i] <= more[j]
  BY <1>1, <1>2 DEF OfTheMinute
<1>7. more[n + 1] = now /\ now - Minute < now
  BY <1>1, <1>2, <1>4
<1>8. OfTheMinute(more, now)
  <2>1. \A i \in 1 .. n + 1 : now - Minute < more[i] /\ more[i] <= now
    BY <1>2, <1>5, <1>7
  <2>2. ASSUME NEW i \in 1 .. n + 1, NEW j \in 1 .. n + 1, i <= j PROVE more[i] <= more[j]
    <3>1. CASE j = n + 1
      BY <1>7, <2>1, <3>1
    <3>2. CASE j # n + 1
      <4>1. i \in 1 .. n /\ j \in 1 .. n
        BY <1>2, <2>2, <3>2
      <4> QED
        BY <1>6, <2>2, <4>1
    <3> QED
      BY <3>1, <3>2
  <2> QED
    BY <1>3, <2>1, <2>2 DEF OfTheMinute
<1>9. EndsWith(more, more, now)
  <2>1. 0 \in Nat /\ Len(more) = 0 + Len(more) /\ \A i \in DOMAIN more : 0 + i = i
    BY <1>1, <1>2, <1>3
  <2> QED
    BY <2>1 DEF EndsWith
<1> QED
  BY <1>1, <1>2, <1>7, <1>8, <1>9

\* The recent times of a list are those of the minute that it ends with.
LEMMA RecentIsTheMinute ==
  ASSUME NEW list \in Seq(Nat), NEW times \in Seq(Nat), clock \in Nat,
         OfTheMinute(times, clock), EndsWith(list, times, clock)
  PROVE  Recent(list) = times
<1>0. PICK old \in SUBSET (DOMAIN list) : old = {i \in DOMAIN list : list[i] <= clock - Minute}
  OBVIOUS
<1>1. PICK n \in Nat, l \in Nat : n = Len(list) /\ DOMAIN list = 1 .. n
                                  /\ l = Len(times) /\ DOMAIN times = 1 .. l
  OBVIOUS
<1>2. PICK m \in Nat : /\ n = m + l
                       /\ \A i \in 1 .. l : list[m + i] = times[i]
                       /\ \A i \in 1 .. m : list[i] <= clock - Minute
  BY <1>1 DEF EndsWith
<1>3. \A i \in 1 .. l : list[m + i] > clock - Minute
  <2>1. Minute \in Nat
    BY Numbers
  <2>2. \A i \in 1 .. l : times[i] \in Nat /\ clock - Minute < times[i]
    BY <1>1 DEF OfTheMinute
  <2> QED
    BY <1>2, <2>1, <2>2
<1>4. ASSUME NEW i \in 1 .. n PROVE i \in old <=> i <= m
  <2>1. CASE i <= m
    BY <1>0, <1>1, <1>2, <2>1
  <2>2. CASE ~(i <= m)
    <3>1. i - m \in 1 .. l /\ m + (i - m) = i
      BY <1>2, <2>2
    <3>2. list[m + (i - m)] > clock - Minute
      BY <1>3, <3>1
    <3>3. list[i] > clock - Minute
      BY <3>1, <3>2
    <3>4. list[i] \in Nat /\ clock - Minute \in Int
      BY <1>1, Numbers
    <3> QED
      BY <1>0, <1>1, <2>2, <3>3, <3>4
  <2> QED
    BY <2>1, <2>2
<1>5. Recent(list) = After(list, old)
  BY <1>0 DEF Recent
<1>6. PICK k \in 0 .. Len(list) :
        /\ After(list, old) \in Seq(Nat)
        /\ Len(After(list, old)) = Len(list) - k
        /\ \A i \in 1 .. Len(list) - k : After(list, old)[i] = list[k + i]
        /\ k = 0 \/ k \in old
        /\ \A i \in old : i <= k
  BY Dropped
<1>7. /\ Recent(list) \in Seq(Nat) /\ Len(Recent(list)) = n - k
      /\ \A i \in 1 .. n - k : Recent(list)[i] = list[k + i]
      /\ k \in 0 .. n /\ (k = 0 \/ k \in old) /\ \A i \in old : i <= k
  BY <1>1, <1>5, <1>6
<1>8. k = m
  <2>1. k <= m
    BY <1>0, <1>1, <1>4, <1>7
  <2>2. m = 0 \/ m <= k
    BY <1>2, <1>4, <1>7
  <2> QED
    BY <2>1, <2>2
<1>9. Len(Recent(list)) = l /\ \A i \in 1 .. l : Recent(list)[i] = times[i]
  <2>1. n - k = l
    BY <1>2, <1>8
  <2> QED
    BY <1>2, <1>7, <1>8, <2>1
<1> QED
  BY <1>1, <1>7, <1>9, SeqEqual

\* What a tick leaves of some times, and of some calls.
Late(times, now) == After(times, {i \in DOMAIN times : times[i] <= (now + 1) - Minute})
LateCalls(q, now) == After(q, {i \in DOMAIN q : q[i].at <= (now + 1) - Minute})

\* What ended with some times ends with others a tick later.
StillEnds(times, left, now) ==
  \A list \in Seq(Nat) : EndsWith(list, times, now) => EndsWith(list, left, now + 1)

\* Every time is among others.
Among(left, times) == \A i \in DOMAIN left : \E j \in DOMAIN times : left[i] = times[j]

\* Only old calls are forgotten.
KeepsYoung(q, left, now) ==
  \A j \in DOMAIN q : q[j].at > (now + 1) - Minute => \E i \in DOMAIN left : left[i] = q[j]

\* After a tick, the times that are still of the minute end the same list.
LEMMA TickedTimes ==
  ASSUME NEW times \in Seq(Nat), NEW now \in Nat, OfTheMinute(times, now)
  PROVE  /\ Late(times, now) \in Seq(Nat) /\ OfTheMinute(Late(times, now), now + 1)
         /\ Len(Late(times, now)) <= Len(times)
         /\ StillEnds(times, Late(times, now), now) /\ Among(Late(times, now), times)
<1>a. PICK left : left = Late(times, now)
  OBVIOUS
<1>0. PICK old \in SUBSET (DOMAIN times) :
        old = {i \in DOMAIN times : times[i] <= (now + 1) - Minute}
  OBVIOUS
<1>1. PICK n \in Nat : /\ n = Len(times) /\ DOMAIN times = 1 .. n
                       /\ \A i \in 1 .. n : times[i] \in Nat
  OBVIOUS
<1>2. left = After(times, old) /\ \A i \in 1 .. n : i \in old <=> times[i] <= (now + 1) - Minute
  BY <1>0, <1>1, <1>a DEF Late
<1>3. PICK k \in 0 .. Len(times) :
        /\ After(times, old) \in Seq(Nat)
        /\ Len(After(times, old)) = Len(times) - k
        /\ \A i \in 1 .. Len(times) - k : After(times, old)[i] = times[k + i]
        /\ k = 0 \/ k \in old
        /\ \A i \in old : i <= k
  BY Dropped
<1>4. PICK rest \in Seq(Nat) :
        /\ rest = left /\ Len(rest) = n - k
        /\ \A i \in 1 .. n - k : rest[i] = times[k + i]
        /\ k \in 0 .. n /\ (k = 0 \/ k \in old) /\ \A i \in old : i <= k
  BY <1>1, <1>2, <1>3
<1>5. PICK l \in Nat : l = n - k /\ DOMAIN rest = 1 .. l /\ Len(rest) = l
  <2>1. n - k \in Nat
    BY <1>4
  <2>2. DOMAIN rest = 1 .. Len(rest)
    OBVIOUS
  <2> QED
    BY <1>4, <2>1, <2>2
<1>6. \A i \in 1 .. l : k + i \in 1 .. n /\ rest[i] = times[k + i]
  <2>1. \A i \in 1 .. l : rest[i] = times[k + i]
    BY <1>4, <1>5
  <2>2. k \in Nat /\ n = k + l
    BY <1>4, <1>5
  <2> QED
    BY <2>1, <2>2
<1>7. Minute \in Nat /\ (now + 1) - Minute \in Int
  BY Numbers
<1>8. \A i \in 1 .. n : /\ now - Minute < times[i] /\ times[i] <= now
                        /\ \A j \in 1 .. n : i <= j => times[i] <= times[j]
  BY <1>1 DEF OfTheMinute
<1>9. OfTheMinute(rest, now + 1)
  <2>1. ASSUME NEW i \in 1 .. l
        PROVE  (now + 1) - Minute < rest[i] /\ rest[i] <= now + 1
    <3>1. k + i \notin old
      BY <1>4, <1>6
    <3>2. times[k + i] \in Nat /\ ~(times[k + i] <= (now + 1) - Minute) /\ times[k + i] <= now
      BY <1>1, <1>2, <1>6, <1>8, <3>1
    <3> QED
      BY <1>6, <1>7, <3>2
  <2>2. ASSUME NEW i \in 1 .. l, NEW j \in 1 .. l, i <= j PROVE rest[i] <= rest[j]
    <3>1. k + i <= k + j
      BY <2>2
    <3> QED
      BY <1>6, <1>8, <3>1
  <2>3. \A i \in DOMAIN rest : (now + 1) - Minute < rest[i] /\ rest[i] <= now + 1
    BY <1>5, <2>1
  <2>4. \A i, j \in DOMAIN rest : i <= j => rest[i] <= rest[j]
    BY <1>5, <2>2
  <2> QED
    BY <2>3, <2>4 DEF OfTheMinute
<1>10. ASSUME NEW list \in Seq(Nat), EndsWith(list, times, now)
       PROVE  EndsWith(list, rest, now + 1)
  <2>1. PICK m \in Nat : /\ Len(list) = m + n
                         /\ \A i \in 1 .. n : list[m + i] = times[i]
                         /\ \A i \in 1 .. m : list[i] <= now - Minute
    BY <1>1, <1>10 DEF EndsWith
  <2>2. m + k \in Nat /\ Len(list) = m + k + l
    BY <1>5, <2>1
  <2>3. ASSUME NEW i \in 1 .. l PROVE list[m + k + i] = rest[i]
    <3>1. m + k + i = m + (k + i)
      OBVIOUS
    <3> QED
      BY <1>6, <2>1, <3>1
  <2>4. ASSUME NEW i \in 1 .. m + k PROVE list[i] <= (now + 1) - Minute
    <3>1. CASE i <= m
      <4>1. list[i] <= now - Minute /\ list[i] \in Nat
        <5>1. i \in 1 .. m /\ i \in 1 .. Len(list)
          BY <2>2, <3>1
        <5> QED
          BY <2>1, <5>1
      <4> QED
        BY <1>7, <4>1
    <3>2. CASE ~(i <= m)
      <4>1. i - m \in 1 .. k /\ m + (i - m) = i /\ k # 0
        BY <3>2
      <4>2. k \in old /\ k \in 1 .. n /\ i - m \in 1 .. n
        BY <1>4, <4>1
      <4>3. times[k] <= (now + 1) - Minute /\ times[i - m] <= times[k]
        BY <1>2, <1>8, <4>1, <4>2
      <4>4. list[i] = times[i - m] /\ times[i - m] \in Nat /\ times[k] \in Nat
        BY <1>1, <2>1, <4>1, <4>2
      <4> QED
        BY <1>7, <4>3, <4>4
    <3> QED
      BY <3>1, <3>2
  <2> QED
    BY <1>5, <2>2, <2>3, <2>4 DEF EndsWith
<1>11. Len(rest) <= Len(times) /\ \A i \in DOMAIN rest : \E j \in DOMAIN times : rest[i] = times[j]
  <2>1. n - k <= n
    BY <1>4
  <2> QED
    BY <1>1, <1>5, <1>6, <2>1
<1> QED
  BY <1>a, <1>4, <1>9, <1>10, <1>11 DEF StillEnds, Among

\* The times of a list of calls.
LEMMA TimesOfCalls ==
  ASSUME NEW q \in Seq(OutsideCalls)
  PROVE  /\ Times(q) \in Seq(Nat) /\ Len(Times(q)) = Len(q) /\ DOMAIN Times(q) = DOMAIN q
         /\ \A i \in DOMAIN q : Times(q)[i] = q[i].at /\ q[i].at \in Nat
<1>1. \A i \in DOMAIN q : q[i].at \in Nat
  <2>1. \A i \in DOMAIN q : q[i] \in OutsideCalls
    OBVIOUS
  <2> QED
    BY <2>1 DEF OutsideCalls
<1>2. PICK n \in Nat : n = Len(q) /\ DOMAIN q = 1 .. n
  OBVIOUS
<1>3. Times(q) \in [1 .. n -> Nat] /\ \A i \in 1 .. n : Times(q)[i] = q[i].at
  BY <1>1, <1>2 DEF Times
<1>4. Times(q) \in Seq(Nat) /\ Len(Times(q)) = n /\ DOMAIN Times(q) = 1 .. n
  BY <1>3
<1> QED
  BY <1>1, <1>2, <1>3, <1>4

\* A call more.
LEMMA TimesOfOneMore ==
  ASSUME NEW q \in Seq(OutsideCalls), NEW o \in OutsideCalls
  PROVE  Times(Append(q, o)) = Append(Times(q), o.at)
<1>1. PICK more \in Seq(OutsideCalls) :
        /\ more = Append(q, o) /\ Len(more) = Len(q) + 1
        /\ \A i \in 1 .. Len(q) : more[i] = q[i]
        /\ more[Len(q) + 1] = o
  BY AppendProperties
<1>2. o.at \in Nat
  BY DEF OutsideCalls
<1>3. /\ Times(q) \in Seq(Nat) /\ Len(Times(q)) = Len(q)
      /\ \A i \in 1 .. Len(q) : Times(q)[i] = q[i].at
  <2>1. DOMAIN q = 1 .. Len(q)
    OBVIOUS
  <2> QED
    BY <2>1, TimesOfCalls
<1>4. PICK t \in Seq(Nat) :
        /\ t = Append(Times(q), o.at) /\ Len(t) = Len(q) + 1
        /\ \A i \in 1 .. Len(q) : t[i] = q[i].at
        /\ t[Len(q) + 1] = o.at
  <2>1. /\ Append(Times(q), o.at) \in Seq(Nat)
        /\ Len(Append(Times(q), o.at)) = Len(Times(q)) + 1
        /\ \A i \in 1 .. Len(Times(q)) : Append(Times(q), o.at)[i] = Times(q)[i]
        /\ Append(Times(q), o.at)[Len(Times(q)) + 1] = o.at
    BY <1>2, <1>3, AppendProperties
  <2> QED
    BY <1>3, <2>1
<1>5. /\ Times(more) \in Seq(Nat) /\ Len(Times(more)) = Len(more)
      /\ \A i \in 1 .. Len(more) : Times(more)[i] = more[i].at
  <2>1. DOMAIN more = 1 .. Len(more)
    OBVIOUS
  <2> QED
    BY <2>1, TimesOfCalls
<1>6. \A i \in 1 .. Len(t) : t[i] = Times(more)[i]
  <2>1. PICK n \in Nat : n = Len(q)
    OBVIOUS
  <2>2. ASSUME NEW i \in 1 .. n + 1 PROVE t[i] = Times(more)[i]
    <3>1. CASE i = n + 1
      BY <1>1, <1>4, <1>5, <2>1, <3>1
    <3>2. CASE i # n + 1
      <4>1. i \in 1 .. n
        BY <3>2
      <4> QED
        BY <1>1, <1>4, <1>5, <2>1, <4>1
    <3> QED
      BY <3>1, <3>2
  <2> QED
    BY <1>4, <2>1, <2>2
<1>7. t = Times(more)
  BY <1>1, <1>4, <1>5, <1>6, SeqEqual
<1> QED
  BY <1>1, <1>4, <1>7

\* The calls that are still of the minute after a tick.
LEMMA TickedCalls ==
  ASSUME NEW q \in Seq(OutsideCalls), NEW now \in Nat, OfTheMinute(Times(q), now)
  PROVE  /\ LateCalls(q, now) \in Seq(OutsideCalls)
         /\ OfTheMinute(Times(LateCalls(q, now)), now + 1)
         /\ Len(LateCalls(q, now)) <= Len(q)
         /\ StillEnds(Times(q), Times(LateCalls(q, now)), now)
         /\ KeepsYoung(q, LateCalls(q, now), now)
<1>0. PICK left : left = LateCalls(q, now)
  OBVIOUS
<1>1. PICK times \in Seq(Nat) : /\ times = Times(q) /\ Len(times) = Len(q)
                                /\ DOMAIN times = DOMAIN q
                                /\ \A i \in DOMAIN q : times[i] = q[i].at
  BY TimesOfCalls
<1>2. PICK old \in SUBSET (DOMAIN q) :
        /\ old = {i \in DOMAIN q : q[i].at <= (now + 1) - Minute}
        /\ old = {i \in DOMAIN times : times[i] <= (now + 1) - Minute}
  BY <1>1
<1>3. PICK k \in 0 .. Len(q) :
        /\ After(q, old) \in Seq(OutsideCalls)
        /\ Len(After(q, old)) = Len(q) - k
        /\ \A i \in 1 .. Len(q) - k : After(q, old)[i] = q[k + i]
        /\ k = 0 \/ k \in old
        /\ \A i \in old : i <= k
  BY Dropped
<1>4. old \in SUBSET (DOMAIN times)
  BY <1>1
<1>5. PICK m \in 0 .. Len(times) :
        /\ After(times, old) \in Seq(Nat)
        /\ Len(After(times, old)) = Len(times) - m
        /\ \A i \in 1 .. Len(times) - m : After(times, old)[i] = times[m + i]
        /\ m = 0 \/ m \in old
        /\ \A i \in old : i <= m
  BY <1>4, Dropped
<1>6. k = m /\ k \in Nat
  BY <1>3, <1>5
<1>7. PICK n \in Nat, l \in Nat : n = Len(q) /\ n = k + l /\ DOMAIN q = 1 .. n
  <2>1. Len(q) - k \in Nat
    BY <1>3
  <2> QED
    BY <1>6, <2>1
<1>8. PICK rest \in Seq(OutsideCalls) :
        /\ rest = left /\ Len(rest) = l /\ DOMAIN rest = 1 .. l
        /\ \A i \in 1 .. l : rest[i] = q[k + i]
  <2>1. After(q, old) = left
    BY <1>0, <1>2 DEF LateCalls
  <2>2. Len(q) - k = l
    BY <1>6, <1>7
  <2>3. left \in Seq(OutsideCalls) /\ Len(left) = l /\ \A i \in 1 .. l : left[i] = q[k + i]
    BY <1>3, <2>1, <2>2
  <2>4. DOMAIN left = 1 .. l
    BY <2>3
  <2> QED
    BY <2>3, <2>4
<1>9. PICK late \in Seq(Nat) :
        /\ late = After(times, old) /\ Len(late) = l
        /\ \A i \in 1 .. l : late[i] = times[k + i]
  <2>1. Len(times) - m = l
    BY <1>1, <1>6, <1>7
  <2> QED
    BY <1>5, <1>6, <2>1
<1>10. late = Times(rest)
  <2>1. /\ Times(rest) \in Seq(Nat) /\ Len(Times(rest)) = l
        /\ \A i \in 1 .. l : Times(rest)[i] = rest[i].at
    BY <1>8, TimesOfCalls
  <2>2. \A i \in 1 .. l : late[i] = Times(rest)[i]
    <3>1. \A i \in 1 .. l : k + i \in DOMAIN q
      BY <1>6, <1>7
    <3> QED
      BY <1>1, <1>8, <1>9, <2>1, <3>1
  <2> QED
    BY <1>9, <2>1, <2>2, SeqEqual
<1>11. late = Late(times, now)
  BY <1>2, <1>9 DEF Late
<1>12. OfTheMinute(times, now)
  BY <1>1
<1>13. OfTheMinute(late, now + 1) /\ StillEnds(times, late, now)
  BY <1>11, <1>12, TickedTimes
<1>14. ASSUME NEW j \in DOMAIN q, q[j].at > (now + 1) - Minute
       PROVE  \E i \in DOMAIN rest : rest[i] = q[j]
  <2>1. ~(j <= k)
    <3> SUFFICES ASSUME j <= k PROVE FALSE
      OBVIOUS
    <3>1. k \in old /\ k \in DOMAIN q
      BY <1>3, <1>6, <1>7
    <3>2. PICK x \in Int : x = (now + 1) - Minute
      BY Numbers
    <3>3. PICK a \in Nat : a = times[j]
      BY <1>1
    <3>4. PICK b \in Nat : b = times[k]
      BY <1>1, <3>1
    <3>5. b <= x
      BY <1>2, <3>1, <3>2, <3>4
    <3>6. a <= b
      BY <1>1, <1>12, <3>1, <3>3, <3>4 DEF OfTheMinute
    <3>7. a > x
      BY <1>1, <1>14, <3>2, <3>3
    <3> QED
      BY <3>5, <3>6, <3>7
  <2>2. j - k \in 1 .. l /\ k + (j - k) = j
    BY <1>6, <1>7, <2>1
  <2> QED
    BY <1>8, <2>2
<1>15. Len(rest) <= Len(q)
  BY <1>6, <1>7, <1>8
<1> QED
  BY <1>0, <1>1, <1>8, <1>10, <1>13, <1>14, <1>15 DEF KeepsYoung
-----------------------------------------------------------------------------
(* Values, and what a step leaves alone. *)

\* The fields of an entry of the cache.
LEMMA EntryFields ==
  ASSUME NEW e \in Entries
  PROVE  /\ e.token \in Tokens /\ e.kind \in {"yes", "no"}
         /\ e.kind = "yes" => /\ e.token \in Staff /\ e.checkedAt \in Nat
                              /\ e.ends \in Nat /\ e.freshUntil \in Nat
BY DEF Entries, YesEntries, NoEntries, Tokens

\* The fields of a check or redeem that is under way.
LEMMA TripFields ==
  ASSUME NEW x \in Trips \cup {Idle}, x.at # "idle"
  PROVE  /\ x \in Trips /\ x.token \in Tokens /\ x.since \in Nat
         /\ x.says \in {"nothing", "yes", "no"}
BY DEF Trips, Idle

\* An answer and its fields.
LEMMA AnswerFields ==
  ASSUME NEW t \in Tokens,
         NEW w \in {"in", "refused", "busy", "unavailable"},
         NEW h \in {"cache", "grace", "limit", "asked", "cookie"}, Answer(w, h, t)
  PROVE  last' \in Answers /\ last'.what = w /\ last'.how = h /\ last'.token = t
BY DEF Answer, Answers

\* An answer that lets nobody in.
LEMMA NotIn ==
  ASSUME NEW t \in Tokens, NEW w \in {"refused", "busy", "unavailable"},
         NEW h \in {"cache", "grace", "limit", "asked", "cookie"}, Answer(w, h, t)
  PROVE  last' \in Answers /\ AnswerInv'
<1>1. last' \in Answers /\ last'.what = w
  BY AnswerFields
<1> QED
  BY <1>1 DEF AnswerInv, SessionEndHolds, NoGraceAfterNo

\* An answer that lets a token in needs its session to last, and for the grace
\* a yes as the last definite answer.
LEMMA LetIn ==
  ASSUME NEW t \in Tokens, NEW h \in {"cache", "grace", "limit", "asked", "cookie"},
         Answer("in", h, t), UNCHANGED clock, clock < SessionEnd[t],
         h = "grace" => verdict'[t].kind = "yes"
  PROVE  last' \in Answers /\ AnswerInv'
<1>1. last' \in Answers /\ last'.how = h /\ last'.token = t
  BY AnswerFields
<1> QED
  BY <1>1 DEF AnswerInv, SessionEndHolds, NoGraceAfterNo

\* A step without an answer.
LEMMA NoAnswer == ASSUME last' = Nothing PROVE AnswerInv'
BY DEF AnswerInv, SessionEndHolds, NoGraceAfterNo, Nothing

\* Credentials nobody touches.
LEMMA SessionKept == ASSUME SessionInv, UNCHANGED <<cache, thread, jar>> PROVE SessionInv'
BY DEF SessionInv

\* A cache nobody touches.
LEMMA CacheKept == ASSUME CacheInv, UNCHANGED <<cache, verdict>> PROVE CacheInv'
BY DEF CacheInv

\* A limiter nobody asks.
LEMMA LimiterKept ==
  ASSUME MemoryInv, TrackedInv, CallsWithinLimit,
         UNCHANGED <<clock, calls, clientCalls, outside, callers>>
  PROVE  MemoryInv' /\ TrackedInv' /\ CallsWithinLimit'
BY DEF MemoryInv, TrackedInv, CallsWithinLimit, LastUse

-----------------------------------------------------------------------------
(* The cache. *)

\* A fresh or recent yes is of a session that lasts.
LEMMA YesLasts ==
  ASSUME IInv, NEW t \in Tokens, CachedYes(t) \/ InGrace(EntriesOf(t))
  PROVE  clock < SessionEnd[t] /\ verdict[t].kind = "yes"
<1>1. PICK e \in EntriesOf(t) : e.kind = "yes" /\ (clock < e.freshUntil \/ e.ends > clock)
  BY DEF CachedYes, InGrace
<1>2. PICK i \in DOMAIN cache : cache[i] = e /\ e.token = t
  BY <1>1 DEF EntriesOf, ToSet
<1>3. e \in Entries
  BY <1>2 DEF IInv, TypeInv
<1>4. e.ends \in Nat /\ e.freshUntil \in Nat /\ clock \in Nat
  BY <1>1, <1>3, EntryFields DEF IInv, TypeInv
<1>5. e.ends = SessionEnd[t] /\ e.freshUntil <= e.ends
  BY <1>1, <1>2 DEF IInv, SessionInv
<1>6. verdict[t].kind = "yes"
  BY <1>1, <1>2 DEF IInv, CacheInv
<1>7. clock < e.ends
  BY <1>1, <1>4, <1>5
<1> QED
  BY <1>5, <1>6, <1>7

\* A store: the new entry is the only one of its token, the others were there.
LEMMA StoreKeeps ==
  ASSUME TypeInv, CacheInv, NEW e \in Entries, NEW new, new = Stored(e)
  PROVE  /\ new \in Seq(Entries) /\ Len(new) <= MaxEntries
         /\ \A i, j \in DOMAIN new : new[i].token = new[j].token => i = j
         /\ \A i \in DOMAIN new :
              new[i] = e \/ (new[i].token # e.token /\ \E j \in DOMAIN cache : new[i] = cache[j])
<1>1. PICK places \in SUBSET (DOMAIN cache) :
        places = {i \in DOMAIN cache : cache[i].token = e.token}
  OBVIOUS
<1>2. /\ cache \in Seq(Entries) /\ Len(cache) <= MaxEntries /\ MaxEntries \in Nat \ {0}
      /\ AtMostOne(places)
  BY <1>1, Numbers DEF TypeInv, CacheInv, AtMostOne
<1>3. PICK long : long = Renewed(cache, places, e, MaxEntries)
  OBVIOUS
<1>4. /\ long \in Seq(Entries) /\ Len(long) \in 1 .. MaxEntries /\ long[Len(long)] = e
      /\ KeepsOthers(long, cache, places, MaxEntries)
  BY <1>2, <1>3, RenewedKeeps
<1>5. PICK l \in Nat : l = Len(long) - 1 /\ DOMAIN long = 1 .. l + 1 /\ Len(long) = l + 1
  <2>1. Len(long) - 1 \in Nat /\ Len(long) = Len(long) - 1 + 1
    BY <1>4
  <2>2. DOMAIN long = 1 .. Len(long)
    BY <1>4
  <2> QED
    BY <2>1, <2>2
<1>6. PICK f \in [1 .. l -> DOMAIN cache \ places] :
        /\ \A i, j \in 1 .. l : i < j => f[i] < f[j]
        /\ \A i \in 1 .. l : long[i] = cache[f[i]]
  BY <1>4, <1>5 DEF KeepsOthers
<1>7. DOMAIN cache \subseteq Nat
  BY <1>2
<1>8. \A i \in 1 .. l : f[i] \in DOMAIN cache /\ f[i] \notin places /\ f[i] \in Nat
  BY <1>7
<1>9. \A i \in 1 .. l : long[i].token # e.token /\ \E j \in DOMAIN cache : long[i] = cache[j]
  BY <1>1, <1>6, <1>8
<1>10. long[l + 1] = e
  BY <1>4, <1>5
<1>11. ASSUME NEW i \in 1 .. l + 1, NEW j \in 1 .. l + 1, long[i].token = long[j].token, i < j
       PROVE  FALSE
  <2>1. i \in 1 .. l
    BY <1>11
  <2>2. CASE j = l + 1
    BY <1>9, <1>10, <1>11, <2>1, <2>2
  <2>3. CASE j # l + 1
    <3>1. j \in 1 .. l
      BY <2>3
    <3>2. f[i] = f[j] /\ f[i] < f[j]
      BY <1>6, <1>8, <1>11, <2>1, <3>1 DEF CacheInv
    <3> QED
      BY <1>8, <2>1, <3>1, <3>2
  <2> QED
    BY <2>2, <2>3
<1>12. \A i, j \in DOMAIN long : long[i].token = long[j].token => i = j
  <2> SUFFICES ASSUME NEW i \in 1 .. l + 1, NEW j \in 1 .. l + 1, long[i].token = long[j].token
               PROVE  i = j
    BY <1>5
  <2>1. ~(i < j) /\ ~(j < i)
    BY <1>11
  <2> QED
    BY <2>1
<1>13. \A i \in DOMAIN long :
         \/ long[i] = e
         \/ long[i].token # e.token /\ \E j \in DOMAIN cache : long[i] = cache[j]
  <2> SUFFICES ASSUME NEW i \in 1 .. l + 1
               PROVE  \/ long[i] = e
                      \/ long[i].token # e.token /\ \E j \in DOMAIN cache : long[i] = cache[j]
    BY <1>5
  <2>1. i = l + 1 \/ i \in 1 .. l
    OBVIOUS
  <2> QED
    BY <1>9, <1>10, <2>1
<1>14. new = long
  BY <1>1, <1>3 DEF Stored
<1> QED
  BY <1>4, <1>12, <1>13, <1>14
-----------------------------------------------------------------------------
(* The limiter. *)

\* A list of uses of a client is of its calls of the minute; the last one is of
\* the minute exactly if the client has such calls.
LEMMA LastOfTheMinute ==
  ASSUME NEW list \in Seq(Nat), NEW times \in Seq(Nat), NEW now \in Nat, list # <<>>,
         OfTheMinute(times, now), EndsWith(list, times, now)
  PROVE  /\ times # <<>> => list[Len(list)] > now - Minute
         /\ times = <<>> => list[Len(list)] <= now - Minute
<1>1. PICK n \in Nat, l \in Nat : n = Len(list) /\ l = Len(times) /\ DOMAIN times = 1 .. l /\ n # 0
  OBVIOUS
<1>2. PICK m \in Nat : /\ n = m + l
                       /\ \A i \in 1 .. l : list[m + i] = times[i]
                       /\ \A i \in 1 .. m : list[i] <= now - Minute
  BY <1>1 DEF EndsWith
<1>3. CASE l = 0
  <2>1. n \in 1 .. m /\ times = <<>>
    BY <1>1, <1>2, <1>3
  <2> QED
    BY <1>1, <1>2, <2>1
<1>4. CASE l # 0
  <2>1. l \in 1 .. l /\ times # <<>> /\ times[l] \in Nat
    BY <1>1, <1>4
  <2>2. now - Minute < times[l]
    BY <1>1, <2>1 DEF OfTheMinute
  <2>3. list[n] = times[l]
    BY <1>2, <2>1
  <2>4. now - Minute \in Int
    BY Numbers
  <2> QED
    BY <1>1, <2>1, <2>2, <2>3, <2>4
<1> QED
  BY <1>3, <1>4

\* The limiter forgets the client it heard of least recently.  If that one had
\* a call in the minute, all tracked clients had one: more than there can be.
LEMMA OldestIsQuiet ==
  ASSUME TypeInv, MemoryInv, TrackedInv, Len(outside) < MaxChecks,
         Len(clientCalls) = MaxTracked
  PROVE  callers[clientCalls[1].client] = <<>>
<1>1. PICK n \in Nat, k \in Nat :
        /\ n = MaxTracked /\ DOMAIN clientCalls = 1 .. n /\ n # 0
        /\ k = Len(outside) /\ DOMAIN outside = 1 .. k /\ k < n
  <2>1. Len(outside) \in Nat /\ DOMAIN outside = 1 .. Len(outside)
    BY DEF TypeInv
  <2>2. DOMAIN clientCalls = 1 .. MaxTracked
    BY DEF TypeInv
  <2>3. MaxChecks \in Nat \ {0} /\ MaxTracked \in Nat /\ MaxTracked >= MaxChecks
    BY Numbers, TrackedAssumption
  <2>4. MaxTracked # 0 /\ Len(outside) < MaxTracked
    BY <2>1, <2>3
  <2> QED
    BY <2>1, <2>2, <2>3, <2>4
<1>2. \A i \in 1 .. n : clientCalls[i].client \in Clients /\ clientCalls[i].times \in Seq(Nat)
  <2>1. \A i \in DOMAIN clientCalls : clientCalls[i] \in Uses
    BY DEF TypeInv
  <2> QED
    BY <1>1, <2>1 DEF Uses
<1>3. ASSUME NEW i \in 1 .. n
      PROVE  /\ callers[clientCalls[i].client] # <<>> => LastUse(i) > clock - Minute
             /\ callers[clientCalls[i].client] = <<>> => LastUse(i) <= clock - Minute
             /\ LastUse(i) \in Nat
  <2>1. PICK list \in Seq(Nat) : list = clientCalls[i].times /\ list # <<>>
    BY <1>1, <1>2 DEF TrackedInv
  <2>2. PICK times \in Seq(Nat) : times = callers[clientCalls[i].client]
    BY <1>2 DEF TypeInv
  <2>3. clock \in Nat /\ OfTheMinute(times, clock) /\ EndsWith(list, times, clock)
    BY <1>1, <1>2, <2>1, <2>2 DEF TypeInv, MemoryInv
  <2>4. /\ times # <<>> => list[Len(list)] > clock - Minute
        /\ times = <<>> => list[Len(list)] <= clock - Minute
    BY <2>1, <2>3, LastOfTheMinute
  <2>5. list[Len(list)] \in Nat
    BY <2>1
  <2> QED
    BY <2>1, <2>2, <2>4, <2>5 DEF LastUse
<1> SUFFICES ASSUME callers[clientCalls[1].client] # <<>> PROVE FALSE
  OBVIOUS
<1>4. ASSUME NEW i \in 1 .. n PROVE callers[clientCalls[i].client] # <<>>
  <2>1. 1 \in 1 .. n /\ 1 <= i
    BY <1>1
  <2>2. LastUse(1) <= LastUse(i)
    BY <1>1, <2>1 DEF TrackedInv
  <2>3. LastUse(1) > clock - Minute /\ LastUse(1) \in Nat /\ LastUse(i) \in Nat
    BY <1>3, <2>1
  <2>4. clock - Minute \in Int
    BY Numbers DEF TypeInv
  <2>5. ~(LastUse(i) <= clock - Minute)
    BY <2>2, <2>3, <2>4
  <2> QED
    BY <1>3, <2>5
<1>5. ASSUME NEW i \in 1 .. n
      PROVE  \E j \in 1 .. k : outside[j].client = clientCalls[i].client
  <2>1. PICK times \in Seq(Nat) : times = callers[clientCalls[i].client] /\ times # <<>>
    BY <1>2, <1>4 DEF TypeInv
  <2>2. 1 \in DOMAIN times
    BY <2>1
  <2>3. \A d \in Clients : \A h \in DOMAIN callers[d] :
          \E j \in DOMAIN outside : outside[j].client = d
    BY DEF MemoryInv
  <2>4. clientCalls[i].client \in Clients /\ 1 \in DOMAIN callers[clientCalls[i].client]
    BY <1>2, <2>1, <2>2
  <2>5. \E j \in DOMAIN outside : outside[j].client = clientCalls[i].client
    BY <2>3, <2>4
  <2> QED
    BY <1>1, <2>5
<1> DEFINE g == [i \in 1 .. n |-> CHOOSE j \in 1 .. k : outside[j].client = clientCalls[i].client]
<1>6. \A i \in 1 .. n : g[i] \in 1 .. k /\ outside[g[i]].client = clientCalls[i].client
  BY <1>5
<1>7. g \in [1 .. n -> 1 .. k]
  BY <1>6
<1> HIDE DEF g
<1>8. \A i, j \in 1 .. n : g[i] = g[j] => i = j
  BY <1>1, <1>6 DEF TrackedInv
<1>9. /\ IsFiniteSet(1 .. k) /\ Cardinality(1 .. k) = k
      /\ IsFiniteSet(1 .. n) /\ Cardinality(1 .. n) = n
  <2>1. \A x \in Nat : IsFiniteSet(1 .. x) /\ Cardinality(1 .. x) = x
    <3> TAKE x \in Nat
    <3>1. 1 \in Int /\ x \in Int
      OBVIOUS
    <3>2. IsFiniteSet(1 .. x) /\ Cardinality(1 .. x) = IF 1 > x THEN 0 ELSE x - 1 + 1
      BY <3>1, FS_Interval
    <3> QED
      BY <3>2
  <2> QED
    BY <2>1
<1>10. Cardinality(1 .. k) < Cardinality(1 .. n)
  BY <1>1, <1>9
<1>11. \E x, y \in 1 .. n : x # y /\ g[x] = g[y]
  BY <1>7, <1>9, <1>10, FS_PigeonHole
<1> QED
  BY <1>8, <1>11
\* What the limiter counts before it grants a slot is what really happened.
LEMMA SlotMeans ==
  ASSUME IInv, NEW c \in Clients \cup {NoClient}, SlotFree(c)
  PROVE  /\ Recent(calls) = Times(outside) /\ Len(outside) < MaxChecks
         /\ c # NoClient =>
              c \in Clients /\ CallsOf(c) = callers[c] /\ Len(callers[c]) < ClientCap
<1>1. clock \in Nat /\ calls \in Seq(Nat) /\ outside \in Seq(OutsideCalls)
  BY DEF IInv, TypeInv
<1>2. PICK times \in Seq(Nat) : times = Times(outside) /\ Len(times) = Len(outside)
  BY <1>1, TimesOfCalls
<1>3. OfTheMinute(times, clock) /\ EndsWith(calls, times, clock)
  BY <1>2 DEF IInv, MemoryInv
<1>4. Recent(calls) = times
  BY <1>1, <1>3, RecentIsTheMinute
<1>5. ASSUME c # NoClient PROVE CallsOf(c) = callers[c]
  <2>1. PICK own \in Seq(Nat) : own = callers[c]
    BY <1>5 DEF IInv, TypeInv
  <2>2. CASE Tracked(c) = {}
    <3>1. \A i \in DOMAIN clientCalls : clientCalls[i].client # c
      BY <2>2 DEF Tracked
    <3> QED
      BY <1>5, <2>2, <3>1 DEF CallsOf, IInv, MemoryInv
  <2>3. CASE Tracked(c) # {}
    <3>1. PICK i \in DOMAIN clientCalls :
            i = (CHOOSE j \in Tracked(c) : TRUE) /\ clientCalls[i].client = c
      BY <2>3 DEF Tracked
    <3>2. clientCalls[i] \in Uses
      BY <3>1 DEF IInv, TypeInv
    <3>3. PICK list \in Seq(Nat) : list = clientCalls[i].times
      BY <3>2 DEF Uses
    <3>4. OfTheMinute(own, clock) /\ EndsWith(list, own, clock)
      BY <1>5, <2>1, <3>1, <3>3 DEF IInv, MemoryInv
    <3>5. Recent(list) = own
      BY <1>1, <3>4, RecentIsTheMinute
    <3> QED
      BY <2>1, <2>3, <3>1, <3>3, <3>5 DEF CallsOf
  <2> QED
    BY <2>2, <2>3
<1> QED
  BY <1>2, <1>4, <1>5 DEF SlotFree

\* One more call, in all.
LEMMA OneMoreCall ==
  ASSUME IInv, NEW c \in Clients \cup {NoClient}, SlotFree(c),
         outside' = Append(outside, [at |-> clock, client |-> c]),
         calls' = Append(Recent(calls), clock)
  PROVE  /\ outside' \in Seq(OutsideCalls) /\ calls' \in Seq(Nat) /\ Len(outside') <= MaxChecks
         /\ OfTheMinute(Times(outside'), clock) /\ EndsWith(calls', Times(outside'), clock)
         /\ \A j \in DOMAIN outside : j \in DOMAIN outside' /\ outside'[j] = outside[j]
         /\ \E j \in DOMAIN outside' : outside'[j].client = c /\ outside'[j].at = clock
<1>1. clock \in Nat /\ outside \in Seq(OutsideCalls)
  BY DEF IInv, TypeInv
<1>2. PICK o \in OutsideCalls : o = [at |-> clock, client |-> c]
  BY <1>1 DEF OutsideCalls
<1>3. /\ outside' \in Seq(OutsideCalls) /\ Len(outside') = Len(outside) + 1
      /\ \A i \in 1 .. Len(outside) : outside'[i] = outside[i]
      /\ outside'[Len(outside) + 1] = o
  BY <1>1, <1>2, AppendProperties
<1>4. PICK n \in Nat : /\ n = Len(outside) /\ DOMAIN outside = 1 .. n
                       /\ DOMAIN outside' = 1 .. n + 1 /\ Len(outside') = n + 1
  BY <1>1, <1>3
<1>5. n < MaxChecks /\ MaxChecks \in Nat
  BY <1>4, SlotMeans, Numbers
<1>6. PICK times \in Seq(Nat) : times = Times(outside)
  BY <1>1, TimesOfCalls
<1>7. Times(outside') = Append(times, o.at) /\ o.at = clock /\ o.client = c
  BY <1>1, <1>2, <1>6, TimesOfOneMore
<1>8. calls' = Append(times, clock)
  BY <1>6, SlotMeans
<1>9. OfTheMinute(times, clock)
  BY <1>6 DEF IInv, MemoryInv
<1>10. calls' \in Seq(Nat) /\ OfTheMinute(calls', clock) /\ EndsWith(calls', calls', clock)
  BY <1>1, <1>8, <1>9, CallAdded
<1>11. Times(outside') = calls'
  BY <1>7, <1>8
<1>12. \A j \in DOMAIN outside : j \in DOMAIN outside' /\ outside'[j] = outside[j]
  BY <1>3, <1>4
<1>13. n + 1 \in DOMAIN outside' /\ outside'[n + 1].client = c /\ outside'[n + 1].at = clock
  BY <1>3, <1>4, <1>7
<1>14. Len(outside') <= MaxChecks
  BY <1>4, <1>5
<1> QED
  BY <1>3, <1>10, <1>11, <1>12, <1>13, <1>14

\* A use that is remembered.
LEMMA UseRemembered ==
  ASSUME clientCalls \in Seq(Uses), Len(clientCalls) <= MaxTracked, MaxTracked \in Nat \ {0},
         NEW use \in Uses, NEW places \in SUBSET (DOMAIN clientCalls), AtMostOne(places),
         NEW long, long = Renewed(clientCalls, places, use, MaxTracked)
  PROVE  /\ long \in Seq(Uses) /\ Len(long) \in 1 .. MaxTracked /\ long[Len(long)] = use
         /\ KeepsOthers(long, clientCalls, places, MaxTracked)
BY RenewedKeeps

\* One more call of a client: it is the last of the tracked ones, and if another
\* is forgotten for it, that one has no call in the minute.
LEMMA OneMoreUse ==
  ASSUME IInv, NEW c \in Clients, SlotFree(c), UNCHANGED clock,
         NEW more, more = Append(callers[c], clock),
         callers' = [callers EXCEPT ![c] = more],
         clientCalls' = Renewed(clientCalls, Tracked(c),
                                [client |-> c, times |-> more], MaxTracked)
  PROVE  /\ clientCalls' \in Seq(Uses) /\ TrackedInv'
         /\ callers' \in [Clients -> Seq(Nat)]
         /\ \A d \in Clients : OfTheMinute(callers'[d], clock) /\ Len(callers'[d]) <= ClientCap
         /\ \A i \in DOMAIN clientCalls' :
              EndsWith(clientCalls'[i].times, callers'[clientCalls'[i].client], clock)
         /\ \A d \in Clients :
              (\A i \in DOMAIN clientCalls' : clientCalls'[i].client # d) => callers'[d] = <<>>
<1>1. clock \in Nat /\ clientCalls \in Seq(Uses) /\ callers \in [Clients -> Seq(Nat)]
  BY DEF IInv, TypeInv
<1>2. PICK own \in Seq(Nat) : own = callers[c] /\ OfTheMinute(own, clock)
  BY <1>1 DEF IInv, MemoryInv
<1>3. Len(own) < ClientCap /\ Len(outside) < MaxChecks /\ ClientCap \in Nat
  <2>1. c # NoClient
    BY Numbers
  <2>2. Len(callers[c]) < ClientCap /\ Len(outside) < MaxChecks
    BY <2>1, SlotMeans
  <2>3. MaxChecks \in Nat
    BY Numbers
  <2>4. ClientCap \in Nat
    BY <2>3 DEF ClientCap
  <2> QED
    BY <1>2, <2>2, <2>4
<1>4. /\ more \in Seq(Nat) /\ more # <<>>
      /\ OfTheMinute(more, clock) /\ EndsWith(more, more, clock) /\ more[Len(more)] = clock
  BY <1>1, <1>2, CallAdded
<1>5. Len(more) <= ClientCap
  <2>1. Len(more) = Len(own) + 1
    BY <1>2, AppendProperties
  <2> QED
    BY <1>3, <2>1
<1>6. /\ callers' \in [Clients -> Seq(Nat)] /\ callers'[c] = more
      /\ \A d \in Clients : d # c => callers'[d] = callers[d]
  BY <1>1, <1>4
<1>7. \A d \in Clients : OfTheMinute(callers'[d], clock) /\ Len(callers'[d]) <= ClientCap
  BY <1>4, <1>5, <1>6 DEF IInv, MemoryInv, CallsWithinLimit
<1>8. PICK use \in Uses : use = [client |-> c, times |-> more]
  BY <1>4 DEF Uses
<1>9. PICK places \in SUBSET (DOMAIN clientCalls) :
        /\ places = Tracked(c)
        /\ \A i \in DOMAIN clientCalls : i \in places <=> clientCalls[i].client = c
  <2>1. Tracked(c) \in SUBSET (DOMAIN clientCalls)
    BY DEF Tracked
  <2>2. \A i \in DOMAIN clientCalls : i \in Tracked(c) <=> clientCalls[i].client = c
    BY DEF Tracked
  <2> QED
    BY <2>1, <2>2
<1>10. AtMostOne(places) /\ MaxTracked \in Nat \ {0} /\ Len(clientCalls) <= MaxTracked
  <2>1. MaxTracked \in Nat \ {0}
    BY Numbers, TrackedAssumption
  <2>2. Len(clientCalls) <= MaxTracked
    BY DEF IInv, TrackedInv
  <2>3. \A i, j \in DOMAIN clientCalls : clientCalls[i].client = clientCalls[j].client => i = j
    BY DEF IInv, TrackedInv
  <2>4. AtMostOne(places)
    BY <1>9, <2>3 DEF AtMostOne
  <2> QED
    BY <2>1, <2>2, <2>4
<1>11. PICK long : long = Renewed(clientCalls, places, use, MaxTracked)
  OBVIOUS
<1>12. /\ long \in Seq(Uses) /\ Len(long) \in 1 .. MaxTracked /\ long[Len(long)] = use
       /\ KeepsOthers(long, clientCalls, places, MaxTracked)
  BY <1>1, <1>10, <1>11, UseRemembered
<1>13. PICK l \in Nat : /\ l = Len(long) - 1 /\ DOMAIN long = 1 .. l + 1 /\ long = clientCalls'
                        /\ Len(long) = l + 1 /\ long[l + 1] = use
  <2>1. Len(long) - 1 \in Nat /\ Len(long) = Len(long) - 1 + 1
    BY <1>12
  <2>2. DOMAIN long = 1 .. Len(long)
    BY <1>12
  <2>3. long = clientCalls'
    BY <1>8, <1>9, <1>11
  <2> QED
    BY <1>12, <2>1, <2>2, <2>3
<1>14. PICK f \in [1 .. l -> DOMAIN clientCalls \ places] :
         /\ \A i, j \in 1 .. l : i < j => f[i] < f[j]
         /\ \A i \in 1 .. l : long[i] = clientCalls[f[i]]
         /\ \A j \in DOMAIN clientCalls \ places :
              \/ \E i \in 1 .. l : f[i] = j
              \/ j = 1 /\ places = {} /\ Len(clientCalls) = MaxTracked
  <2>1. l = Len(long) - 1
    BY <1>13
  <2>2. \E f \in [1 .. l -> DOMAIN clientCalls \ places] :
          /\ \A i, j \in 1 .. l : i < j => f[i] < f[j]
          /\ \A i \in 1 .. l : long[i] = clientCalls[f[i]]
          /\ \A j \in DOMAIN clientCalls \ places :
               \/ \E i \in 1 .. l : f[i] = j
               \/ j = 1 /\ places = {} /\ Len(clientCalls) = MaxTracked
    BY <1>12, <2>1, Zenon DEF KeepsOthers
  <2> QED
    BY <2>2
<1>15. DOMAIN clientCalls \subseteq Nat
  BY <1>1
<1>16. \A i \in 1 .. l : /\ f[i] \in DOMAIN clientCalls /\ f[i] \in Nat
                         /\ long[i].client # c /\ long[i].client \in Clients
                         /\ long[i] = clientCalls[f[i]]
  <2>1. \A i \in DOMAIN clientCalls : clientCalls[i].client \in Clients
    <3>1. \A i \in DOMAIN clientCalls : clientCalls[i] \in Uses
      BY <1>1
    <3> QED
      BY <3>1 DEF Uses
  <2> SUFFICES ASSUME NEW i \in 1 .. l
               PROVE  /\ f[i] \in DOMAIN clientCalls /\ f[i] \in Nat
                      /\ long[i].client # c /\ long[i].client \in Clients
                      /\ long[i] = clientCalls[f[i]]
    OBVIOUS
  <2>2. f[i] \in DOMAIN clientCalls /\ f[i] \notin places
    BY <1>14
  <2>3. long[i] = clientCalls[f[i]]
    BY <1>14
  <2>4. clientCalls[f[i]].client # c
    BY <1>9, <2>2
  <2>5. clientCalls[f[i]].client \in Clients
    BY <2>1, <2>2
  <2>6. f[i] \in Nat
    BY <1>15, <2>2
  <2> QED
    BY <2>2, <2>3, <2>4, <2>5, <2>6
<1>17. use.client = c /\ use.times = more
  BY <1>8
<1>18. \A i \in 1 .. l + 1 : i = l + 1 \/ i \in 1 .. l
  OBVIOUS
<1>19. TrackedInv'
  <2> DEFINE Lately(i) == long[i].times[Len(long[i].times)]
  <2>1. ASSUME NEW i \in 1 .. l + 1, NEW j \in 1 .. l + 1, long[i].client = long[j].client
        PROVE  i = j
    <3>1. CASE i \in 1 .. l /\ j \in 1 .. l
      <4>1. f[i] = f[j]
        BY <1>16, <2>1, <3>1 DEF IInv, TrackedInv
      <4>2. ~(i < j) /\ ~(j < i)
        BY <1>14, <1>16, <3>1, <4>1
      <4> QED
        BY <3>1, <4>2
    <3>2. CASE ~(i \in 1 .. l /\ j \in 1 .. l)
      <4>1. CASE i = l + 1 /\ j \in 1 .. l
        BY <1>13, <1>16, <1>17, <2>1, <4>1
      <4>2. CASE i \in 1 .. l /\ j = l + 1
        BY <1>13, <1>16, <1>17, <2>1, <4>2
      <4> QED
        BY <1>18, <3>2, <4>1, <4>2
    <3> QED
      BY <3>1, <3>2
  <2>2. ASSUME NEW i \in 1 .. l
        PROVE  /\ long[i].times # <<>> /\ Lately(i) <= clock /\ Lately(i) \in Nat
               /\ Lately(i) = LastUse(f[i])
    <3>1. long[i].times # <<>> /\ LastUse(f[i]) <= clock
      BY <1>16 DEF IInv, TrackedInv
    <3>2. long[i] \in Uses
      BY <1>12, <1>13
    <3>3. PICK list \in Seq(Nat) : list = long[i].times
      BY <3>2 DEF Uses
    <3>4. list[Len(list)] \in Nat
      BY <3>1, <3>3
    <3> QED
      BY <1>16, <3>1, <3>3, <3>4 DEF LastUse
  <2>3. long[l + 1].times # <<>> /\ Lately(l + 1) = clock
    BY <1>4, <1>13, <1>17
  <2> HIDE DEF Lately
  <2>4. ASSUME NEW i \in 1 .. l + 1, NEW j \in 1 .. l + 1, i <= j
        PROVE  Lately(i) <= Lately(j)
    <3>1. CASE j = l + 1
      <4>1. Lately(i) <= clock
        <5>1. clock <= clock
          BY <1>1
        <5> QED
          BY <1>18, <2>2, <2>3, <5>1
      <4> QED
        BY <2>3, <3>1, <4>1
    <3>2. CASE j \in 1 .. l
      <4>1. i \in 1 .. l
        BY <2>4, <3>2
      <4>2. f[i] <= f[j]
        <5>1. i = j \/ i < j
          BY <2>4
        <5> QED
          BY <1>14, <1>16, <3>2, <4>1, <5>1
      <4>3. LastUse(f[i]) <= LastUse(f[j])
        BY <1>16, <3>2, <4>1, <4>2 DEF IInv, TrackedInv
      <4> QED
        BY <2>2, <3>2, <4>1, <4>3
    <3> QED
      BY <1>18, <3>1, <3>2
  <2>5. \A i \in 1 .. l + 1 : long[i].times # <<>> /\ Lately(i) <= clock
    BY <1>1, <1>18, <2>2, <2>3
  <2>6. Len(long) <= MaxTracked
    BY <1>12
  <2> QED
    <3>1. \A i : LastUse(i)' = Lately(i)
      BY <1>13 DEF LastUse, Lately
    <3>2. clientCalls' = long /\ clock' = clock /\ DOMAIN long = 1 .. l + 1
      BY <1>13
    <3> HIDE DEF Lately
    <3> QED
      BY <2>1, <2>4, <2>5, <2>6, <3>1, <3>2 DEF TrackedInv
<1>20. \A i \in 1 .. l + 1 : EndsWith(long[i].times, callers'[long[i].client], clock)
  <2>1. EndsWith(long[l + 1].times, callers'[long[l + 1].client], clock)
    BY <1>4, <1>6, <1>13, <1>17
  <2>2. \A i \in 1 .. l : EndsWith(long[i].times, callers'[long[i].client], clock)
    BY <1>6, <1>16 DEF IInv, MemoryInv
  <2> QED
    BY <1>18, <2>1, <2>2
<1>21. ASSUME NEW d \in Clients, \A i \in 1 .. l + 1 : long[i].client # d
       PROVE  callers'[d] = <<>>
  <2>1. l + 1 \in 1 .. l + 1 /\ 1 .. l \subseteq 1 .. l + 1
    OBVIOUS
  <2>2. d # c
    BY <1>13, <1>17, <1>21, <2>1
  <2>3. CASE \E j \in DOMAIN clientCalls : clientCalls[j].client = d
    <3>1. PICK j \in DOMAIN clientCalls : clientCalls[j].client = d
      BY <2>3
    <3>2. j \in DOMAIN clientCalls \ places
      BY <1>9, <2>2, <3>1
    <3>3. ~(\E i \in 1 .. l : f[i] = j)
      BY <1>16, <1>21, <2>1, <3>1
    <3>4. j = 1 /\ Len(clientCalls) = MaxTracked
      BY <1>14, <3>2, <3>3
    <3>5. callers[clientCalls[1].client] = <<>>
      BY <1>3, <3>4, OldestIsQuiet DEF IInv
    <3> QED
      BY <1>6, <2>2, <3>1, <3>4, <3>5
  <2>4. CASE ~(\E j \in DOMAIN clientCalls : clientCalls[j].client = d)
    BY <1>6, <2>2, <2>4 DEF IInv, MemoryInv
  <2> QED
    BY <2>3, <2>4
<1> QED
  BY <1>6, <1>7, <1>12, <1>13, <1>19, <1>20, <1>21
-----------------------------------------------------------------------------
(* Steps. *)

\* A thread comes back.
LEMMA BackToIdle ==
  ASSUME TypeInv, SessionInv, NEW r \in Threads, thread' = [thread EXCEPT ![r] = Idle]
  PROVE  /\ thread' \in [Threads -> Trips \cup {Idle}]
         /\ \A s \in Threads :
              thread'[s].at = "decided" /\ thread'[s].says = "yes" => thread'[s].token \in Staff
<1>1. Idle \in Trips \cup {Idle} /\ Idle.at # "decided"
  BY DEF Idle
<1>2. thread' \in [Threads -> Trips \cup {Idle}]
  BY <1>1 DEF TypeInv
<1>3. \A s \in Threads : thread'[s] = IF s = r THEN Idle ELSE thread[s]
  BY DEF TypeInv
<1> QED
  BY <1>1, <1>2, <1>3 DEF SessionInv

\* A step that only moves threads, changes KloudC's mind and gives an answer.
LEMMA OnlyAnswers ==
  ASSUME IInv, UNCHANGED <<clock, site, outside, callers, verdict>>,
         mind' \in [Staff -> [says : {"yes", "no"}, flips : Nat]],
         thread' \in [Threads -> Trips \cup {Idle}],
         \A s \in Threads :
           thread'[s].at = "decided" /\ thread'[s].says = "yes" => thread'[s].token \in Staff,
         last' \in Answers \cup {Nothing}, AnswerInv'
  PROVE  IInv'
<1>1. UNCHANGED <<clock, cache, calls, clientCalls, jar, outside, callers, verdict>>
  BY DEF site
<1>2. TypeInv'
  BY <1>1 DEF IInv, TypeInv
<1>3. SessionInv'
  BY <1>1 DEF IInv, SessionInv
<1>4. CacheInv'
  BY <1>1, CacheKept DEF IInv
<1>5. MemoryInv' /\ TrackedInv' /\ CallsWithinLimit'
  BY <1>1, LimiterKept DEF IInv
<1> QED
  BY <1>2, <1>3, <1>4, <1>5 DEF IInv

\* A token the cache knows.
LEMMA CheckHitStep ==
  ASSUME IInv, NEW r \in Threads, NEW t \in Tokens, CheckHit(r, t)
  PROVE  IInv'
<1>1. last' \in Answers /\ AnswerInv'
  <2>1. CASE Answer("refused", "cache", t)
    BY <2>1, NotIn
  <2>2. CASE CachedYes(t) /\ Answer("in", "cache", t)
    <3>1. clock < SessionEnd[t]
      BY <2>2, YesLasts
    <3> QED
      BY <2>2, <3>1, LetIn DEF CheckHit
  <2> QED
    BY <2>1, <2>2 DEF CheckHit
<1>2. UNCHANGED <<clock, mind, site, thread, outside, callers, verdict>>
  BY DEF CheckHit
<1> QED
  BY <1>1, <1>2, OnlyAnswers DEF IInv, TypeInv, SessionInv

\* A token let in by the grace, or not let in for want of an answer.
LEMMA GraceOrNot ==
  ASSUME IInv, NEW t \in Tokens, UNCHANGED <<clock, verdict>>,
         NEW w \in {"busy", "unavailable"}, NEW h \in {"limit", "asked"},
         IF InGrace(EntriesOf(t)) THEN Answer("in", "grace", t) ELSE Answer(w, h, t)
  PROVE  last' \in Answers /\ AnswerInv'
<1>1. CASE InGrace(EntriesOf(t))
  <2>1. clock < SessionEnd[t] /\ verdict[t].kind = "yes"
    BY <1>1, YesLasts
  <2> QED
    BY <1>1, <2>1, LetIn
<1>2. CASE ~InGrace(EntriesOf(t))
  BY <1>2, NotIn
<1> QED
  BY <1>1, <1>2

\* No slot left.
LEMMA CheckDeniedStep ==
  ASSUME IInv, NEW r \in Threads, NEW t \in Tokens, NEW c \in Clients \cup {NoClient},
         CheckDenied(r, t, c)
  PROVE  IInv'
<1>1. UNCHANGED <<clock, mind, site, thread, outside, callers, verdict>>
  BY DEF CheckDenied
<1>2. IF InGrace(EntriesOf(t)) THEN Answer("in", "grace", t) ELSE Answer("busy", "limit", t)
  BY DEF CheckDenied
<1>3. last' \in Answers /\ AnswerInv'
  BY <1>1, <1>2, GraceOrNot
<1> QED
  BY <1>1, <1>3, OnlyAnswers DEF IInv, TypeInv, SessionInv

\* No answer from KloudC.
LEMMA CheckUnreachedStep ==
  ASSUME IInv, NEW r \in Threads, CheckUnreached(r)
  PROVE  IInv'
<1>1. /\ UNCHANGED <<clock, mind, site, outside, callers, verdict>>
      /\ thread' = [thread EXCEPT ![r] = Idle] /\ thread[r].at # "idle"
  BY DEF CheckUnreached
<1>2. PICK t \in Tokens : t = thread[r].token
  BY <1>1, TripFields DEF IInv, TypeInv
<1>3. IF InGrace(EntriesOf(t)) THEN Answer("in", "grace", t)
      ELSE Answer("unavailable", "asked", t)
  BY <1>2 DEF CheckUnreached
<1>4. last' \in Answers /\ AnswerInv'
  BY <1>1, <1>3, GraceOrNot
<1>5. /\ thread' \in [Threads -> Trips \cup {Idle}]
      /\ \A s \in Threads :
           thread'[s].at = "decided" /\ thread'[s].says = "yes" => thread'[s].token \in Staff
  BY <1>1, BackToIdle DEF IInv
<1> QED
  BY <1>1, <1>4, <1>5, OnlyAnswers DEF IInv, TypeInv

\* A redemption that gives nothing.
LEMMA RedeemFailsStep ==
  ASSUME IInv, NEW r \in Threads, RedeemFails(r)
  PROVE  IInv'
<1>1. /\ UNCHANGED <<clock, mind, site, outside, callers, verdict>>
      /\ thread' = [thread EXCEPT ![r] = Idle] /\ last' = Nothing
  BY DEF RedeemFails
<1>2. /\ thread' \in [Threads -> Trips \cup {Idle}]
      /\ \A s \in Threads :
           thread'[s].at = "decided" /\ thread'[s].says = "yes" => thread'[s].token \in Staff
  BY <1>1, BackToIdle DEF IInv
<1> QED
  BY <1>1, <1>2, NoAnswer, OnlyAnswers DEF IInv, TypeInv

\* KloudC decides: a yes only for a session it knows.
LEMMA KloudcDecidesStep ==
  ASSUME IInv, NEW r \in Threads, KloudcDecides(r)
  PROVE  IInv'
<1>1. PICK trip \in Trips : trip = thread[r] /\ trip.at = "asking"
  <2>1. thread[r] \in Trips \cup {Idle} /\ thread[r].at = "asking"
    BY DEF IInv, TypeInv, KloudcDecides
  <2> QED
    BY <2>1 DEF Idle
<1>2. PICK yes \in {"yes", "no"} :
        /\ yes = "yes" => trip.token \in Staff
        /\ thread' = [thread EXCEPT ![r] = [@ EXCEPT !.at = "decided", !.says = yes]]
  BY <1>1 DEF KloudcDecides
<1>3. PICK decided \in Trips :
        /\ decided = [trip EXCEPT !.at = "decided", !.says = yes]
        /\ decided.token = trip.token /\ decided.says = yes
  <2>1. \A x \in Trips :
          /\ [x EXCEPT !.at = "decided", !.says = yes] \in Trips
          /\ [x EXCEPT !.at = "decided", !.says = yes].token = x.token
          /\ [x EXCEPT !.at = "decided", !.says = yes].says = yes
    BY DEF Trips
  <2> QED
    BY <2>1
<1>4. thread' = [thread EXCEPT ![r] = decided]
  BY <1>1, <1>2, <1>3
<1>5. thread \in [Threads -> Trips \cup {Idle}]
  BY DEF IInv, TypeInv
<1>6. /\ thread' \in [Threads -> Trips \cup {Idle}]
      /\ \A s \in Threads : thread'[s] = IF s = r THEN decided ELSE thread[s]
  BY <1>4, <1>5
<1>7. \A s \in Threads :
        thread'[s].at = "decided" /\ thread'[s].says = "yes" => thread'[s].token \in Staff
  BY <1>2, <1>3, <1>6 DEF IInv, SessionInv
<1>8. /\ UNCHANGED <<clock, mind, site, outside, callers, verdict>> /\ last' = Nothing
  BY DEF KloudcDecides
<1> QED
  BY <1>6, <1>7, <1>8, NoAnswer, OnlyAnswers DEF IInv, TypeInv

\* KloudC changes its mind.
LEMMA ChangeMindStep ==
  ASSUME IInv, NEW t \in Staff, ChangeMind(t)
  PROVE  IInv'
<1>1. UNCHANGED <<clock, site, thread, outside, callers, verdict>> /\ last' = Nothing
  BY DEF ChangeMind
<1>2. mind \in [Staff -> [says : {"yes", "no"}, flips : Nat]]
  BY DEF IInv, TypeInv
<1>3. mind' = [mind EXCEPT ![t] = [says |-> IF @.says = "yes" THEN "no" ELSE "yes",
                                   flips |-> @.flips + 1]]
  BY DEF ChangeMind
<1>4. mind' \in [Staff -> [says : {"yes", "no"}, flips : Nat]]
  BY <1>2, <1>3
<1> QED
  BY <1>1, <1>4, NoAnswer, OnlyAnswers DEF IInv, TypeInv, SessionInv

\* The cookie ends with the session at the latest.
LEMMA UseCookieStep ==
  ASSUME IInv, UseCookie
  PROVE  IInv'
<1>1. jar \in Cookies /\ jar # NoCookie /\ clock < jar.exp
  BY DEF IInv, TypeInv, UseCookie
<1>2. jar.token \in Staff /\ jar.exp \in Nat /\ clock \in Nat /\ SessionEnd[jar.token] \in Nat
  BY <1>1, Numbers DEF Cookies, IInv, TypeInv
<1>3. jar.exp <= SessionEnd[jar.token]
  BY <1>1 DEF IInv, SessionInv
<1>4. PICK t \in Tokens : t = jar.token
  BY <1>2 DEF Tokens
<1>5. clock < SessionEnd[t]
  BY <1>1, <1>2, <1>3, <1>4
<1>6. UNCHANGED <<clock, mind, site, thread, outside, callers, verdict>>
      /\ Answer("in", "cookie", t)
  BY <1>4 DEF UseCookie
<1>7. last' \in Answers /\ AnswerInv'
  BY <1>5, <1>6, LetIn
<1> QED
  BY <1>6, <1>7, OnlyAnswers DEF IInv, TypeInv, SessionInv

\* A code that was good.
LEMMA RedeemYesStep ==
  ASSUME IInv, NEW r \in Threads, RedeemYes(r)
  PROVE  IInv'
<1>1. /\ UNCHANGED <<clock, mind, cache, calls, clientCalls, outside, callers, verdict>>
      /\ thread' = [thread EXCEPT ![r] = Idle] /\ last' = Nothing
      /\ thread[r].at = "decided" /\ thread[r].says = "yes"
      /\ jar' = [token |-> thread[r].token, exp |-> CookieEnd(thread[r].token)]
  BY DEF RedeemYes, Back, Accepted
<1>2. PICK t \in Staff : t = thread[r].token
  BY <1>1 DEF IInv, SessionInv
<1>3. CookieEnd(t) \in Nat /\ CookieEnd(t) <= SessionEnd[t]
  <2>1. SessionEnd[t] \in Nat /\ clock \in Nat /\ HandoffAge \in Nat
    BY Numbers DEF IInv, TypeInv
  <2> QED
    BY <2>1 DEF CookieEnd
<1>4. jar' \in Cookies /\ jar'.token = t /\ jar'.exp <= SessionEnd[t]
  BY <1>1, <1>2, <1>3 DEF Cookies
<1>5. /\ thread' \in [Threads -> Trips \cup {Idle}]
      /\ \A s \in Threads :
           thread'[s].at = "decided" /\ thread'[s].says = "yes" => thread'[s].token \in Staff
  BY <1>1, BackToIdle DEF IInv
<1>6. TypeInv'
  BY <1>1, <1>4, <1>5 DEF IInv, TypeInv
<1>7. SessionInv'
  BY <1>1, <1>4, <1>5 DEF IInv, SessionInv
<1>8. CacheInv' /\ MemoryInv' /\ TrackedInv' /\ CallsWithinLimit'
  BY <1>1, CacheKept, LimiterKept DEF IInv
<1> QED
  BY <1>1, <1>6, <1>7, <1>8, NoAnswer DEF IInv
\* The new entry of a store: a verdict with the same kind, no longer than the session.
EntryFits(e, t) ==
  /\ e \in Entries /\ e.token = t
  /\ e.kind = "yes" => e.ends = SessionEnd[t] /\ e.freshUntil <= e.ends

\* The last answer for a token and its entry in the cache are stored together.
LEMMA StoreStep ==
  ASSUME IInv, NEW r \in Threads, NEW t \in Tokens, NEW e, EntryFits(e, t),
         cache' = Stored(e), verdict' = [verdict EXCEPT ![t] = [kind |-> e.kind, at |-> clock]],
         thread' = [thread EXCEPT ![r] = Idle],
         UNCHANGED <<clock, mind, calls, clientCalls, jar, outside, callers>>,
         last' \in Answers, AnswerInv'
  PROVE  IInv'
<1>1. e \in Entries /\ e.token = t /\ e.kind \in {"yes", "no"} /\ clock \in Nat
  BY EntryFields DEF EntryFits, IInv, TypeInv
<1>2. verdict \in [Tokens -> [kind : {"none", "yes", "no"}, at : Nat]]
  BY DEF IInv, TypeInv
<1>3. /\ verdict' \in [Tokens -> [kind : {"none", "yes", "no"}, at : Nat]]
      /\ verdict'[t].kind = e.kind
      /\ \A u \in Tokens : u # t => verdict'[u] = verdict[u]
  BY <1>1, <1>2
<1>4. PICK new : new = Stored(e) /\ new = cache'
  OBVIOUS
<1>5. /\ new \in Seq(Entries) /\ Len(new) <= MaxEntries
      /\ \A i, j \in DOMAIN new : new[i].token = new[j].token => i = j
      /\ \A i \in DOMAIN new :
           \/ new[i] = e
           \/ new[i].token # e.token /\ \E j \in DOMAIN cache : new[i] = cache[j]
  BY <1>1, <1>4, StoreKeeps DEF IInv
<1>6. /\ thread' \in [Threads -> Trips \cup {Idle}]
      /\ \A s \in Threads :
           thread'[s].at = "decided" /\ thread'[s].says = "yes" => thread'[s].token \in Staff
  BY BackToIdle DEF IInv
<1>7. TypeInv'
  BY <1>3, <1>4, <1>5, <1>6 DEF IInv, TypeInv
<1>8. ASSUME NEW i \in DOMAIN new
      PROVE  /\ new[i].kind = verdict'[new[i].token].kind
             /\ new[i].kind = "yes" =>
                  new[i].ends = SessionEnd[new[i].token] /\ new[i].freshUntil <= new[i].ends
  <2>1. CASE new[i] = e
    BY <1>1, <1>3, <2>1 DEF EntryFits
  <2>2. CASE new[i] # e
    <3>1. PICK j \in DOMAIN cache : new[i] = cache[j] /\ cache[j].token # t
      BY <1>1, <1>5, <2>2
    <3>2. cache[j] \in Entries
      BY <3>1 DEF IInv, TypeInv
    <3>3. cache[j].token \in Tokens
      BY <3>2, EntryFields
    <3>4. cache[j].kind = verdict[cache[j].token].kind
      BY <3>1 DEF IInv, CacheInv
    <3>5. cache[j].kind = "yes" =>
            /\ cache[j].ends = SessionEnd[cache[j].token]
            /\ cache[j].freshUntil <= cache[j].ends
      BY <3>1 DEF IInv, SessionInv
    <3> QED
      BY <1>3, <3>1, <3>3, <3>4, <3>5
  <2> QED
    BY <2>1, <2>2
<1>9. SessionInv'
  BY <1>4, <1>6, <1>8 DEF IInv, SessionInv
<1>10. CacheInv'
  BY <1>4, <1>5, <1>8 DEF CacheInv
<1>11. MemoryInv' /\ TrackedInv' /\ CallsWithinLimit'
  BY LimiterKept DEF IInv
<1> QED
  BY <1>7, <1>9, <1>10, <1>11 DEF IInv

\* KloudC said yes.
LEMMA CheckStoresYesStep ==
  ASSUME IInv, NEW r \in Threads, CheckStoresYes(r)
  PROVE  IInv'
<1>1. /\ thread[r].at = "decided" /\ thread[r].says = "yes"
      /\ thread' = [thread EXCEPT ![r] = Idle]
      /\ UNCHANGED <<clock, mind, calls, clientCalls, jar, outside, callers>>
      /\ SessionEnd[thread[r].token] > clock
  BY DEF CheckStoresYes, Back, Accepted
<1>2. PICK t \in Staff : t = thread[r].token
  BY <1>1 DEF IInv, SessionInv
<1>3. t \in Tokens /\ t \in Staff /\ clock \in Nat /\ SessionEnd[t] \in Nat /\ CacheTtl \in Nat
  BY Numbers DEF Tokens, IInv, TypeInv
<1>4. PICK ttl \in Nat : cache' = Stored(YesEntry(t, ttl))
  BY <1>2, <1>3 DEF CheckStoresYes
<1>5. PICK e : e = YesEntry(t, ttl)
  OBVIOUS
<1>6. EntryFits(e, t) /\ e.kind = "yes"
  <2>1. PICK fresh \in Nat :
          /\ fresh = IF SessionEnd[t] < clock + ttl THEN SessionEnd[t] ELSE clock + ttl
          /\ fresh <= SessionEnd[t]
    BY <1>3
  <2>2. e = [token |-> t, kind |-> "yes", checkedAt |-> clock, ends |-> SessionEnd[t],
             freshUntil |-> fresh]
    BY <1>5, <2>1 DEF YesEntry
  <2>3. e \in YesEntries
    BY <1>3, <2>1, <2>2 DEF YesEntries
  <2> QED
    BY <2>1, <2>2, <2>3 DEF EntryFits, Entries
<1>7. verdict' = [verdict EXCEPT ![t] = [kind |-> e.kind, at |-> clock]]
  BY <1>2, <1>6 DEF CheckStoresYes
<1>8. Answer("in", "asked", t)
  BY <1>2 DEF CheckStoresYes
<1>9. clock < SessionEnd[t]
  BY <1>1, <1>2, <1>3
<1>10. last' \in Answers /\ AnswerInv'
  BY <1>1, <1>3, <1>8, <1>9, LetIn
<1> QED
  BY <1>1, <1>3, <1>4, <1>5, <1>6, <1>7, <1>10, StoreStep

\* KloudC said no, or yes for a session that has ended.
LEMMA CheckStoresNoStep ==
  ASSUME IInv, NEW r \in Threads, CheckStoresNo(r)
  PROVE  IInv'
<1>1. /\ thread[r].at = "decided"
      /\ thread' = [thread EXCEPT ![r] = Idle]
      /\ UNCHANGED <<clock, mind, calls, clientCalls, jar, outside, callers>>
  BY DEF CheckStoresNo, Back
<1>2. PICK t \in Tokens : t = thread[r].token
  BY <1>1, TripFields DEF IInv, TypeInv
<1>3. PICK e : e = NoEntry(t)
  OBVIOUS
<1>4. EntryFits(e, t) /\ e.kind = "no"
  <2>1. clock + NegTtl \in Nat
    BY Numbers DEF IInv, TypeInv
  <2>2. e = [token |-> t, kind |-> "no", until |-> clock + NegTtl]
    BY <1>3 DEF NoEntry
  <2>3. e \in NoEntries
    BY <2>1, <2>2 DEF NoEntries
  <2> QED
    BY <2>2, <2>3 DEF EntryFits, Entries
<1>5. cache' = Stored(e) /\ Answer("refused", "asked", t)
  BY <1>2, <1>3 DEF CheckStoresNo
<1>6. verdict' = [verdict EXCEPT ![t] = [kind |-> e.kind, at |-> clock]]
  BY <1>2, <1>4 DEF CheckStoresNo
<1>7. last' \in Answers /\ AnswerInv'
  BY <1>5, NotIn
<1> QED
  BY <1>1, <1>4, <1>5, <1>6, <1>7, StoreStep
\* A call is made.
LEMMA AskStep ==
  ASSUME IInv, NEW r \in Threads, NEW what \in {"check", "redeem"}, NEW t \in Tokens,
         NEW c \in Clients \cup {NoClient}, SlotFree(c), Ask(r, what, t, c),
         UNCHANGED <<clock, mind, cache, jar, verdict>>
  PROVE  IInv'
<1>1. clock \in Nat /\ thread \in [Threads -> Trips \cup {Idle}]
      /\ callers \in [Clients -> Seq(Nat)] /\ outside \in Seq(OutsideCalls)
  BY DEF IInv, TypeInv
<1>2. PICK out, list : outside' = out /\ calls' = list
  OBVIOUS
<1>3. /\ out \in Seq(OutsideCalls) /\ list \in Seq(Nat) /\ Len(out) <= MaxChecks
      /\ OfTheMinute(Times(out), clock) /\ EndsWith(list, Times(out), clock)
      /\ \A j \in DOMAIN outside : j \in DOMAIN out /\ out[j] = outside[j]
      /\ \E j \in DOMAIN out : out[j].client = c /\ out[j].at = clock
  <2>1. /\ outside' = Append(outside, [at |-> clock, client |-> c])
        /\ calls' = Append(Recent(calls), clock)
    BY DEF Ask, TakeSlot
  <2>2. /\ outside' \in Seq(OutsideCalls) /\ calls' \in Seq(Nat) /\ Len(outside') <= MaxChecks
        /\ OfTheMinute(Times(outside'), clock) /\ EndsWith(calls', Times(outside'), clock)
        /\ \A j \in DOMAIN outside : j \in DOMAIN outside' /\ outside'[j] = outside[j]
        /\ \E j \in DOMAIN outside' : outside'[j].client = c /\ outside'[j].at = clock
    BY <2>1, OneMoreCall
  <2> QED
    BY <1>2, <2>2
<1>4. ASSUME NEW d \in Clients, NEW i \in DOMAIN callers[d]
      PROVE  \E j \in DOMAIN out : out[j].client = d /\ out[j].at = callers[d][i]
  <2>1. PICK j \in DOMAIN outside : outside[j].client = d /\ outside[j].at = callers[d][i]
    BY DEF IInv, MemoryInv
  <2> QED
    BY <1>3, <2>1
<1>5. /\ clientCalls' \in Seq(Uses) /\ TrackedInv'
      /\ callers' \in [Clients -> Seq(Nat)]
      /\ \A d \in Clients : OfTheMinute(callers'[d], clock) /\ Len(callers'[d]) <= ClientCap
      /\ \A i \in DOMAIN clientCalls' :
           EndsWith(clientCalls'[i].times, callers'[clientCalls'[i].client], clock)
      /\ \A d \in Clients :
           (\A i \in DOMAIN clientCalls' : clientCalls'[i].client # d) => callers'[d] = <<>>
      /\ \A d \in Clients : \A i \in DOMAIN callers'[d] :
           \E j \in DOMAIN out : out[j].client = d /\ out[j].at = callers'[d][i]
  <2>1. CASE c = NoClient
    <3>1. UNCHANGED <<clock, clientCalls, callers>>
      BY <2>1 DEF Ask, TakeSlot
    <3>2. TrackedInv'
      BY <3>1 DEF IInv, TrackedInv, LastUse
    <3>3. \A d \in Clients : OfTheMinute(callers'[d], clock) /\ Len(callers'[d]) <= ClientCap
      BY <3>1 DEF IInv, MemoryInv, CallsWithinLimit
    <3>4. \A i \in DOMAIN clientCalls' :
            EndsWith(clientCalls'[i].times, callers'[clientCalls'[i].client], clock)
      BY <3>1 DEF IInv, MemoryInv
    <3>5. \A d \in Clients :
            (\A i \in DOMAIN clientCalls' : clientCalls'[i].client # d) => callers'[d] = <<>>
      BY <3>1 DEF IInv, MemoryInv
    <3> QED
      BY <1>4, <3>1, <3>2, <3>3, <3>4, <3>5 DEF IInv, TypeInv
  <2>2. CASE c # NoClient
    <3>1. c \in Clients /\ CallsOf(c) = callers[c]
      BY <2>2, SlotMeans
    <3>2. PICK more : more = Append(callers[c], clock)
      OBVIOUS
    <3>3. callers' = [callers EXCEPT ![c] = more]
      BY <2>2, <3>2 DEF Ask
    <3>4. clientCalls' = Renewed(clientCalls, Tracked(c),
                                 [client |-> c, times |-> more], MaxTracked)
      BY <2>2, <3>1, <3>2 DEF Ask, TakeSlot
    <3>5. /\ clientCalls' \in Seq(Uses) /\ TrackedInv'
          /\ callers' \in [Clients -> Seq(Nat)]
          /\ \A d \in Clients : OfTheMinute(callers'[d], clock) /\ Len(callers'[d]) <= ClientCap
          /\ \A i \in DOMAIN clientCalls' :
               EndsWith(clientCalls'[i].times, callers'[clientCalls'[i].client], clock)
          /\ \A d \in Clients :
               (\A i \in DOMAIN clientCalls' : clientCalls'[i].client # d) => callers'[d] = <<>>
      BY <3>1, <3>2, <3>3, <3>4, OneMoreUse
    <3>6. callers'[c] = more /\ \A d \in Clients : d # c => callers'[d] = callers[d]
      BY <1>1, <3>1, <3>3
    <3>7. PICK own \in Seq(Nat) : own = callers[c]
      BY <1>1, <3>1
    <3>8. /\ DOMAIN more = 1 .. Len(own) + 1
          /\ \A i \in 1 .. Len(own) : more[i] = own[i]
          /\ more[Len(own) + 1] = clock
      BY <1>1, <3>2, <3>7, AppendProperties
    <3>9. ASSUME NEW i \in DOMAIN more
          PROVE  \E j \in DOMAIN out : out[j].client = c /\ out[j].at = more[i]
      <4>1. CASE i = Len(own) + 1
        BY <1>3, <3>8, <4>1
      <4>2. CASE i # Len(own) + 1
        <5>1. PICK n \in Nat : n = Len(own) /\ DOMAIN own = 1 .. n
          OBVIOUS
        <5>2. i \in 1 .. n
          BY <3>8, <4>2, <5>1
        <5> QED
          BY <1>4, <3>1, <3>7, <3>8, <5>1, <5>2
      <4> QED
        BY <4>1, <4>2
    <3>10. ASSUME NEW d \in Clients, NEW i \in DOMAIN callers'[d]
           PROVE  \E j \in DOMAIN out : out[j].client = d /\ out[j].at = callers'[d][i]
      <4>1. CASE d = c
        BY <3>6, <3>9, <4>1
      <4>2. CASE d # c
        BY <1>4, <3>6, <4>2
      <4> QED
        BY <4>1, <4>2
    <3> QED
      BY <3>5, <3>10
  <2> QED
    BY <2>1, <2>2
<1>6. PICK trip \in Trips :
        /\ trip = [at |-> "asking", for |-> what, token |-> t, since |-> clock,
                   says |-> "nothing"]
        /\ trip.at = "asking"
  <2>1. [at |-> "asking", for |-> what, token |-> t, since |-> clock, says |-> "nothing"]
          \in Trips
    BY <1>1 DEF Trips
  <2> QED
    BY <2>1
<1>7. thread' = [thread EXCEPT ![r] = trip] /\ last' = Nothing
  BY <1>6 DEF Ask
<1>8. /\ thread' \in [Threads -> Trips \cup {Idle}]
      /\ \A s \in Threads : thread'[s] = IF s = r THEN trip ELSE thread[s]
  BY <1>1, <1>7
<1>9. TypeInv'
  BY <1>2, <1>3, <1>5, <1>7, <1>8 DEF IInv, TypeInv
<1>10. SessionInv'
  BY <1>6, <1>8 DEF IInv, SessionInv
<1>11. MemoryInv'
  BY <1>2, <1>3, <1>5 DEF MemoryInv
<1>12. CallsWithinLimit'
  BY <1>2, <1>3, <1>5 DEF CallsWithinLimit
<1>13. CacheInv' /\ AnswerInv'
  BY <1>7, CacheKept, NoAnswer DEF IInv
<1> QED
  BY <1>5, <1>9, <1>10, <1>11, <1>12, <1>13 DEF IInv

\* Time passes: what is older than a minute is forgotten.
LEMMA TickStep ==
  ASSUME IInv, Tick
  PROVE  IInv'
<1>1. PICK now \in Nat : now = clock /\ clock' = now + 1
  BY DEF Tick, IInv, TypeInv
<1>2. UNCHANGED <<mind, cache, calls, clientCalls, jar, thread, verdict>> /\ last' = Nothing
  BY DEF Tick, site
<1>3. outside \in Seq(OutsideCalls) /\ callers \in [Clients -> Seq(Nat)] /\ calls \in Seq(Nat)
  BY DEF IInv, TypeInv
<1>4. PICK left : left = LateCalls(outside, now) /\ outside' = left
  BY <1>1 DEF Tick, LateCalls
<1>5. OfTheMinute(Times(outside), now) /\ EndsWith(calls, Times(outside), now)
  BY <1>1 DEF IInv, MemoryInv
<1>6. /\ left \in Seq(OutsideCalls) /\ OfTheMinute(Times(left), now + 1)
      /\ Len(left) <= Len(outside)
      /\ StillEnds(Times(outside), Times(left), now) /\ KeepsYoung(outside, left, now)
  BY <1>3, <1>4, <1>5, TickedCalls
<1>7. EndsWith(calls, Times(left), now + 1)
  BY <1>3, <1>5, <1>6 DEF StillEnds
<1>8. Len(left) <= MaxChecks
  <2>1. Len(outside) <= MaxChecks /\ Len(outside) \in Nat /\ Len(left) \in Nat
    BY <1>3, <1>6 DEF IInv, CallsWithinLimit
  <2> QED
    BY <1>6, <2>1, Numbers
<1>9. callers' = [c \in Clients |-> Late(callers[c], now)]
  BY <1>1 DEF Tick, Late
<1>10. ASSUME NEW c \in Clients
       PROVE  /\ callers'[c] \in Seq(Nat) /\ OfTheMinute(callers'[c], now + 1)
              /\ Len(callers'[c]) <= ClientCap
              /\ StillEnds(callers[c], callers'[c], now)
              /\ callers[c] = <<>> => callers'[c] = <<>>
              /\ \A i \in DOMAIN callers'[c] :
                   \E j \in DOMAIN left : left[j].client = c /\ left[j].at = callers'[c][i]
  <2>1. PICK times \in Seq(Nat) : times = callers[c]
    BY <1>3
  <2>2. PICK rest : rest = Late(times, now) /\ callers'[c] = rest
    BY <1>9, <2>1
  <2>3. OfTheMinute(times, now) /\ Len(times) <= ClientCap
    BY <1>1, <2>1 DEF IInv, MemoryInv, CallsWithinLimit
  <2>4. /\ rest \in Seq(Nat) /\ OfTheMinute(rest, now + 1) /\ Len(rest) <= Len(times)
        /\ StillEnds(times, rest, now) /\ Among(rest, times)
    BY <2>2, <2>3, TickedTimes
  <2>5. Len(rest) <= ClientCap /\ (times = <<>> => rest = <<>>)
    <3>1. MaxChecks \in Nat
      BY Numbers
    <3>2. ClientCap \in Nat
      BY <3>1 DEF ClientCap
    <3>3. Len(rest) <= ClientCap
      BY <2>3, <2>4, <3>2
    <3>4. ASSUME times = <<>> PROVE rest = <<>>
      <4>1. Len(rest) = 0
        BY <2>4, <3>4
      <4> QED
        BY <2>4, <4>1
    <3> QED
      BY <3>3, <3>4
  <2>6. ASSUME NEW i \in DOMAIN rest
        PROVE  \E j \in DOMAIN left : left[j].client = c /\ left[j].at = rest[i]
    <3>1. PICK k \in DOMAIN times : rest[i] = times[k]
      BY <2>4 DEF Among
    <3>2. PICK j \in DOMAIN outside : outside[j].client = c /\ outside[j].at = rest[i]
      BY <2>1, <3>1 DEF IInv, MemoryInv
    <3>3. rest[i] \in Nat /\ (now + 1) - Minute \in Int
      <4>1. Minute \in Nat
        BY Numbers
      <4>2. rest \in Seq(Nat)
        BY <2>4
      <4> QED
        BY <4>1, <4>2
    <3>4. (now + 1) - Minute < rest[i]
      BY <2>4 DEF OfTheMinute
    <3>5. outside[j].at > (now + 1) - Minute
      BY <3>2, <3>3, <3>4
    <3>6. \E k1 \in DOMAIN left : left[k1] = outside[j]
      BY <1>6, <3>5 DEF KeepsYoung
    <3> QED
      BY <3>2, <3>6
  <2> QED
    BY <2>1, <2>2, <2>4, <2>5, <2>6
<1>11. callers' \in [Clients -> Seq(Nat)]
  BY <1>9, <1>10
<1>12. TypeInv'
  BY <1>1, <1>2, <1>4, <1>6, <1>11 DEF IInv, TypeInv
<1>13. SessionInv' /\ CacheInv' /\ AnswerInv'
  BY <1>2, SessionKept, CacheKept, NoAnswer DEF IInv
<1>14. CallsWithinLimit'
  BY <1>4, <1>8, <1>10 DEF CallsWithinLimit
<1>15. ASSUME NEW i \in DOMAIN clientCalls
       PROVE  /\ EndsWith(clientCalls[i].times, callers'[clientCalls[i].client], now + 1)
              /\ clientCalls[i].times # <<>> /\ LastUse(i) <= now + 1
  <2>1. clientCalls[i] \in Uses
    BY DEF IInv, TypeInv
  <2>2. PICK c \in Clients, list \in Seq(Nat) : c = clientCalls[i].client /\ list = clientCalls[i].times
    BY <2>1 DEF Uses
  <2>3. EndsWith(list, callers[c], now)
    BY <1>1, <2>2 DEF IInv, MemoryInv
  <2>4. EndsWith(list, callers'[c], now + 1)
    BY <1>10, <2>3 DEF StillEnds
  <2>5. list # <<>> /\ LastUse(i) <= now /\ LastUse(i) = list[Len(list)]
    BY <1>1, <2>2 DEF IInv, TrackedInv, LastUse
  <2>6. list[Len(list)] \in Nat
    BY <2>5
  <2> QED
    BY <2>2, <2>4, <2>5, <2>6
<1>16. TrackedInv'
  <2>1. \A i : LastUse(i)' = LastUse(i)
    BY <1>2 DEF LastUse
  <2> QED
    BY <1>1, <1>2, <1>15, <2>1 DEF IInv, TrackedInv
<1>17. ASSUME NEW c \in Clients, \A i \in DOMAIN clientCalls : clientCalls[i].client # c
       PROVE  callers'[c] = <<>>
  <2>1. callers[c] = <<>>
    BY <1>17 DEF IInv, MemoryInv
  <2> QED
    BY <1>10, <2>1
<1>18. MemoryInv'
  BY <1>1, <1>2, <1>4, <1>6, <1>7, <1>10, <1>15, <1>17 DEF MemoryInv
<1> QED
  BY <1>12, <1>13, <1>14, <1>16, <1>18 DEF IInv
\* Nothing changes.
LEMMA Stutter == ASSUME IInv, UNCHANGED vars PROVE IInv'
<1>1. UNCHANGED <<clock, mind, cache, calls, clientCalls, jar, thread, last, outside, callers,
                  verdict>>
  BY DEF vars, site, history
<1>2. TypeInv'
  BY <1>1 DEF IInv, TypeInv
<1>3. AnswerInv'
  BY <1>1 DEF IInv, AnswerInv, SessionEndHolds, NoGraceAfterNo
<1> QED
  BY <1>1, <1>2, <1>3, SessionKept, CacheKept, LimiterKept DEF IInv

\* The invariant holds at first: nobody has called.
LEMMA Start == Init => IInv
<1> SUFFICES ASSUME Init PROVE IInv
  OBVIOUS
<1>1. /\ clock = 0 /\ cache = <<>> /\ calls = <<>> /\ clientCalls = <<>> /\ jar = NoCookie
      /\ last = Nothing /\ outside = <<>> /\ callers = [c \in Clients |-> <<>>]
      /\ thread = [r \in Threads |-> Idle]
      /\ mind = [t \in Staff |-> [says |-> "yes", flips |-> 0]]
      /\ verdict = [t \in Tokens |-> [kind |-> "none", at |-> 0]]
  BY DEF Init
<1>2. \A S : <<>> \in Seq(S) /\ Len(<<>>) = 0 /\ DOMAIN <<>> = {}
  <2> TAKE S
  <2>1. <<>> \in Seq(S) /\ Len(<<>>) = 0
    OBVIOUS
  <2>2. DOMAIN <<>> = {}
    OBVIOUS
  <2> QED
    BY <2>1, <2>2
<1>3. \A r \in Threads : thread[r] = Idle
  BY <1>1
<1>4. TypeInv
  <2>1. clock \in Nat /\ cache \in Seq(Entries) /\ calls \in Seq(Nat)
        /\ clientCalls \in Seq(Uses) /\ outside \in Seq(OutsideCalls)
    BY <1>1, <1>2
  <2>2. callers \in [Clients -> Seq(Nat)]
    BY <1>1, <1>2
  <2>3. jar \in Cookies \cup {NoCookie} /\ last \in Answers \cup {Nothing}
    BY <1>1
  <2>4. thread \in [Threads -> Trips \cup {Idle}]
    BY <1>1
  <2>5. mind \in [Staff -> [says : {"yes", "no"}, flips : Nat]]
    BY <1>1
  <2>6. verdict \in [Tokens -> [kind : {"none", "yes", "no"}, at : Nat]]
    BY <1>1
  <2> QED
    BY <2>1, <2>2, <2>3, <2>4, <2>5, <2>6 DEF TypeInv
<1>5. SessionInv
  BY <1>1, <1>2, <1>3 DEF SessionInv, Idle
<1>6. CacheInv
  BY <1>1, <1>2, Numbers DEF CacheInv
<1>7. AnswerInv
  BY <1>1 DEF AnswerInv, SessionEndHolds, NoGraceAfterNo
<1>8. Times(<<>>) = <<>>
  BY DEF Times
<1>9. \A now : OfTheMinute(<<>>, now)
  BY <1>2 DEF OfTheMinute
<1>10. EndsWith(<<>>, <<>>, clock)
  <2>1. 0 \in Nat /\ Len(<<>>) = 0 + Len(<<>>) /\ 1 .. 0 = {}
    BY <1>2
  <2> QED
    BY <1>2, <2>1 DEF EndsWith
<1>11. \A c \in Clients : callers[c] = <<>>
  BY <1>1
<1>12. MemoryInv
  BY <1>1, <1>2, <1>8, <1>9, <1>10, <1>11 DEF MemoryInv
<1>13. TrackedInv
  BY <1>1, <1>2, TrackedAssumption DEF TrackedInv
<1>14. CallsWithinLimit
  <2>1. MaxChecks \in Nat
    BY Numbers
  <2>2. ClientCap \in Nat
    BY <2>1 DEF ClientCap
  <2>3. 0 <= MaxChecks /\ 0 <= ClientCap
    BY <2>1, <2>2
  <2> QED
    BY <1>1, <1>2, <1>11, <2>3 DEF CallsWithinLimit
<1> QED
  BY <1>4, <1>5, <1>6, <1>7, <1>12, <1>13, <1>14 DEF IInv

\* Every step keeps it.
LEMMA StepKeeps == IInv /\ [Next]_vars => IInv'
<1> SUFFICES ASSUME IInv, [Next]_vars PROVE IInv'
  OBVIOUS
<1>1. ASSUME NEW r \in Threads, Check(r) PROVE IInv'
  <2>1. PICK t \in Tokens, c \in Clients \cup {NoClient} :
          CheckHit(r, t) \/ CheckDenied(r, t, c) \/ CheckAsk(r, t, c)
    BY <1>1 DEF Check
  <2>2. ASSUME CheckAsk(r, t, c) PROVE IInv'
    <3>1. SlotFree(c) /\ Ask(r, "check", t, c) /\ UNCHANGED <<clock, mind, cache, jar, verdict>>
      BY <2>2 DEF CheckAsk
    <3> QED
      BY <3>1, AskStep
  <2> QED
    BY <2>1, <2>2, CheckHitStep, CheckDeniedStep
<1>2. ASSUME NEW r \in Threads, NEW t \in Staff, NEW c \in Clients, RedeemAsk(r, t, c)
      PROVE  IInv'
  <2>1. SlotFree(c) /\ Ask(r, "redeem", t, c) /\ UNCHANGED <<clock, mind, cache, jar, verdict>>
    BY <1>2 DEF RedeemAsk
  <2>2. t \in Tokens
    BY DEF Tokens
  <2> QED
    BY <2>1, <2>2, AskStep
<1>3. ASSUME NEW r \in Threads, KloudcDecides(r) PROVE IInv'
  BY <1>3, KloudcDecidesStep
<1>4. ASSUME NEW r \in Threads, Return(r) PROVE IInv'
  <2>1. CASE CheckStoresYes(r)
    BY <2>1, CheckStoresYesStep
  <2>2. CASE CheckStoresNo(r)
    BY <2>2, CheckStoresNoStep
  <2>3. CASE CheckUnreached(r)
    BY <2>3, CheckUnreachedStep
  <2>4. CASE RedeemYes(r)
    BY <2>4, RedeemYesStep
  <2>5. CASE RedeemFails(r)
    BY <2>5, RedeemFailsStep
  <2> QED
    BY <1>4, <2>1, <2>2, <2>3, <2>4, <2>5 DEF Return
<1>5. ASSUME UseCookie PROVE IInv'
  BY <1>5, UseCookieStep
<1>6. ASSUME NEW t \in Staff, ChangeMind(t) PROVE IInv'
  BY <1>6, ChangeMindStep
<1>7. ASSUME Tick PROVE IInv'
  BY <1>7, TickStep
<1>8. CASE UNCHANGED vars
  BY <1>8, Stutter
<1>9. CASE Next
  BY <1>1, <1>2, <1>3, <1>4, <1>5, <1>6, <1>7, <1>9 DEF Next
<1> QED
  BY <1>8, <1>9

-----------------------------------------------------------------------------
(* Theorems. *)

\* Every state of the sign-in satisfies the invariant.
THEOREM Inductive == Spec => []IInv
<1>1. Init => IInv
  BY Start
<1>2. IInv /\ [Next]_vars => IInv'
  BY StepKeeps
<1> QED
  BY <1>1, <1>2, PTL DEF Spec

\* Nobody is let in after the end of the session behind the credential, by a
\* cached yes, the grace or the hand-off cookie.
THEOREM SessionsEnd == Spec => []SessionEndHolds
<1>1. IInv => SessionEndHolds
  BY DEF IInv, AnswerInv
<1> QED
  BY <1>1, Inductive, PTL

\* Who is let in by the grace had a yes as the last definite answer.
THEOREM NoIsFinalForTheGrace == Spec => []NoGraceAfterNo
<1>1. IInv => NoGraceAfterNo
  BY DEF IInv, AnswerInv
<1> QED
  BY <1>1, Inductive, PTL

\* No minute holds more outside calls than the limit, nor more of one caller than
\* its share, although the limiter forgets callers.
THEOREM LimitsHold == Spec => []CallsWithinLimit
<1>1. IInv => CallsWithinLimit
  BY DEF IInv
<1> QED
  BY <1>1, Inductive, PTL
-----------------------------------------------------------------------------
(* The grace.  Its argument needs all calls ever made, which no variable    *)
(* keeps: the invariant says that there is such a list.                     *)

\* When an entry was stored.
StoredAt(e) == IF e.kind = "yes" THEN e.checkedAt ELSE e.until - NegTtl

\* The threads that are out, and the tokens the cache knows.
Busy == {r \in Threads : thread[r] # Idle}
Kept == {t \in Tokens : \E i \in DOMAIN cache : cache[i].token = t}

\* Times in order, none after now, at most MaxChecks of them in any Minute.
Paced(asked, now) ==
  /\ asked \in Seq(Nat)
  /\ \A i \in DOMAIN asked : asked[i] <= now
  /\ \A i, j \in DOMAIN asked : i <= j => asked[i] <= asked[j]
  /\ \A k \in Nat : \A i, j \in DOMAIN asked :
       i + MaxChecks * k <= j => asked[i] + Minute * k <= asked[j]

\* The call a thread is out for and the one that led to a token's entry are in
\* that list, and are all different ones.
Traced(asked, stored, out) ==
  /\ \A r \in Busy : out[r] \in DOMAIN asked /\ asked[out[r]] = thread[r].since
  /\ \A r, s \in Busy : out[r] = out[s] => r = s
  /\ \A t \in Kept : stored[t] \in DOMAIN asked
  /\ \A t \in Kept, r \in Busy : stored[t] # out[r]
  /\ \A t, u \in Kept : stored[t] = stored[u] => t = u
  /\ \A i \in DOMAIN cache : StoredAt(cache[i]) <= asked[stored[cache[i].token]] + Timeout

\* There is a list of all calls ever made that this can be said of.
TraceInv ==
  \E asked \in Seq(Nat), stored \in [Tokens -> Nat], out \in [Threads -> Nat] :
    /\ Paced(asked, clock)
    /\ EndsWith(asked, Times(outside), clock)
    /\ Traced(asked, stored, out)

\* No call is out for longer than Timeout.
TripInv == \A r \in Busy : clock <= thread[r].since + Timeout

\* The cache is in the order of storing, and knows when a yes was given.
OrderInv ==
  /\ \A i \in DOMAIN cache : StoredAt(cache[i]) \in Int /\ StoredAt(cache[i]) <= clock
  /\ \A i, j \in DOMAIN cache : i <= j => StoredAt(cache[i]) <= StoredAt(cache[j])
  /\ \A i \in DOMAIN cache :
       cache[i].kind = "yes" => cache[i].checkedAt = verdict[cache[i].token].at

\* A yes in its grace is in the cache.
KeptInv == \A t \in Tokens : verdict[t].kind = "yes" /\ clock - verdict[t].at <= Grace => t \in Kept

\* The inductive invariant of the grace, relative to IInv.
GraceInv == TraceInv /\ TripInv /\ OrderInv /\ KeptInv /\ RecentYesStillWorks

\* The limits outlast the grace.
LEMMA GraceNumbers ==
  /\ Grace \in Nat /\ Timeout \in Nat \ {0} /\ NegTtl \in Nat
  /\ Minute \in Nat \ {0} /\ MaxChecks \in Nat \ {0} /\ MaxEntries \in Nat \ {0}
  /\ \E k \in Nat : MaxChecks * k \in Nat /\ Minute * k \in Nat
                    /\ MaxChecks * k <= MaxEntries /\ Grace + Timeout < Minute * k
<1>1. Grace \in Nat /\ Timeout \in Nat \ {0}
  BY TimesAssumption
<1>2. /\ NegTtl \in Nat
      /\ Minute \in Nat \ {0} /\ MaxChecks \in Nat \ {0} /\ MaxEntries \in Nat \ {0}
  BY Numbers
<1>3. PICK g \in Nat : g = Grace + Timeout
  BY <1>1
<1>4. PICK d \in Nat : d = g \div Minute /\ g < Minute * (d + 1)
  <2>1. g \div Minute \in Nat /\ g < Minute * (g \div Minute + 1)
    BY <1>2
  <2> QED
    BY <2>1
<1>5. MaxChecks * (d + 1) <= MaxEntries
  BY <1>3, <1>4, CacheOutlastsGrace
<1>6. d + 1 \in Nat /\ MaxChecks * (d + 1) \in Nat /\ Minute * (d + 1) \in Nat
  BY <1>2
<1> QED
  BY <1>1, <1>2, <1>3, <1>4, <1>5, <1>6

\* Whatever was asked so late that its answer may still be in the grace is one of
\* the last MaxEntries calls.
LEMMA LateCallsAreFew ==
  ASSUME NEW asked \in Seq(Nat), NEW now \in Nat, Paced(asked, now),
         NEW i \in DOMAIN asked, now <= asked[i] + Grace + Timeout
  PROVE  i \in (Len(asked) - MaxEntries) + 1 .. Len(asked)
<1>1. PICK n \in Nat : n = Len(asked) /\ DOMAIN asked = 1 .. n
  OBVIOUS
<1>2. SUFFICES ASSUME i <= n - MaxEntries PROVE FALSE
  <2>1. i \in Int /\ n \in Int /\ MaxEntries \in Int /\ i <= n
    BY <1>1, GraceNumbers
  <2> QED
    BY <1>1, <1>2, <2>1
<1>3. PICK k \in Nat : /\ MaxChecks * k \in Nat /\ Minute * k \in Nat
                       /\ MaxChecks * k <= MaxEntries /\ Grace + Timeout < Minute * k
  BY GraceNumbers
<1>4. PICK c \in Nat, m \in Nat : c = MaxChecks * k /\ m = Minute * k
  BY <1>3
<1>5. i + c <= n /\ n \in 1 .. n /\ i \in 1 .. n
  BY <1>1, <1>2, <1>3, <1>4, GraceNumbers
<1>6. asked[i] + m <= asked[n]
  BY <1>1, <1>4, <1>5 DEF Paced
<1>7. asked[n] <= now /\ asked[n] \in Nat /\ asked[i] \in Nat
  BY <1>1, <1>5 DEF Paced
<1>8. Grace + Timeout < m /\ Grace \in Nat /\ Timeout \in Nat
  BY <1>3, <1>4, GraceNumbers
<1>9. PICK x \in Nat, y \in Nat : x = asked[i] /\ y = asked[n]
  BY <1>7
<1>10. x + m <= y /\ y <= now /\ now <= (x + Grace) + Timeout
  BY <1>6, <1>7, <1>9
<1> QED
  BY <1>8, <1>10

\* A call more, when fewer than MaxChecks were made in the last minute.
LEMMA PacedMore ==
  ASSUME NEW asked \in Seq(Nat), NEW now \in Nat, Paced(asked, now),
         NEW times \in Seq(Nat), EndsWith(asked, times, now), Len(times) < MaxChecks
  PROVE  /\ Append(asked, now) \in Seq(Nat) /\ Len(Append(asked, now)) = Len(asked) + 1
         /\ \A i \in DOMAIN asked : Append(asked, now)[i] = asked[i]
         /\ Append(asked, now)[Len(asked) + 1] = now
         /\ Paced(Append(asked, now), now)
         /\ EndsWith(Append(asked, now), Append(times, now), now)
<1>1. PICK n \in Nat : n = Len(asked) /\ DOMAIN asked = 1 .. n
  OBVIOUS
<1>2. PICK more \in Seq(Nat) :
        /\ more = Append(asked, now) /\ Len(more) = n + 1 /\ DOMAIN more = 1 .. n + 1
        /\ \A i \in 1 .. n : more[i] = asked[i]
        /\ more[n + 1] = now
  <2>1. /\ Append(asked, now) \in Seq(Nat) /\ Len(Append(asked, now)) = Len(asked) + 1
        /\ \A i \in 1 .. Len(asked) : Append(asked, now)[i] = asked[i]
        /\ Append(asked, now)[Len(asked) + 1] = now
    BY AppendProperties
  <2>2. DOMAIN Append(asked, now) = 1 .. Len(Append(asked, now))
    BY <2>1
  <2> QED
    BY <1>1, <2>1, <2>2
<1>3. PICK m \in Nat : /\ n = m + Len(times)
                       /\ \A i \in DOMAIN times : asked[m + i] = times[i]
                       /\ \A i \in 1 .. m : asked[i] <= now - Minute
  BY <1>1 DEF EndsWith
<1>4. \A i \in 1 .. n : asked[i] \in Nat /\ asked[i] <= now
  <2>1. \A i \in 1 .. n : asked[i] \in Nat
    BY <1>1
  <2>2. \A i \in 1 .. n : asked[i] <= now
    BY <1>1 DEF Paced
  <2> QED
    BY <2>1, <2>2
<1>5. \A i \in 1 .. n + 1 : i \in 1 .. n \/ i = n + 1
  BY <1>1
<1>6. \A i \in 1 .. n + 1 : more[i] <= now /\ more[i] \in Nat
  BY <1>2, <1>4, <1>5
<1>7. ASSUME NEW i \in 1 .. n + 1, NEW j \in 1 .. n + 1, i <= j PROVE more[i] <= more[j]
  <2>1. CASE j = n + 1
    BY <1>2, <1>6, <2>1
  <2>2. CASE j # n + 1
    <3>1. i \in 1 .. n /\ j \in 1 .. n
      BY <1>7, <2>2
    <3> QED
      BY <1>1, <1>2, <1>7, <3>1 DEF Paced
  <2> QED
    BY <2>1, <2>2
<1>8. ASSUME NEW k \in Nat, NEW i \in 1 .. n + 1, NEW j \in 1 .. n + 1, i + MaxChecks * k <= j
      PROVE  more[i] + Minute * k <= more[j]
  <2>0. Minute \in Nat \ {0} /\ MaxChecks \in Nat \ {0}
    BY GraceNumbers
  <2>1. CASE k = 0
    <3>1. MaxChecks * k = 0 /\ Minute * k = 0
      BY <2>0, <2>1
    <3>2. more[i] <= more[j] /\ more[i] \in Nat
      BY <1>6, <1>7, <1>8, <3>1
    <3> QED
      BY <3>1, <3>2
  <2>2. CASE k # 0 /\ j # n + 1
    <3>1. MaxChecks * k \in Nat
      BY <2>0
    <3>2. i \in 1 .. n /\ j \in 1 .. n
      BY <1>8, <2>2, <3>1
    <3> QED
      BY <1>1, <1>2, <1>8, <3>2 DEF Paced
  <2>3. CASE k # 0 /\ j = n + 1
    <3>1. PICK h \in Nat : h = k - 1
      BY <2>3
    <3>2. PICK c \in Nat, t \in Nat : c = MaxChecks * h /\ t = Minute * h
      BY <2>0
    <3>3. MaxChecks * k = c + MaxChecks /\ Minute * k = t + Minute
      BY <2>0, <3>1, <3>2
    <3>4. PICK b \in Int : b = n + 1 - MaxChecks
      BY <2>0
    <3>10. i + (c + MaxChecks) <= n + 1
      BY <1>8, <2>3, <3>3
    <3>5. i + c <= b /\ b \in 1 .. n /\ i \in 1 .. n
      BY <2>0, <3>4, <3>10
    <3>6. asked[i] + t <= asked[b]
      BY <1>1, <3>2, <3>5 DEF Paced
    <3>7. b \in 1 .. m
      <4>1. PICK l \in Nat : l = Len(times)
        OBVIOUS
      <4> QED
        BY <1>3, <2>0, <3>4, <3>5, <4>1
    <3>8. asked[b] <= now - Minute /\ asked[b] \in Nat /\ asked[i] \in Nat
      BY <1>3, <1>4, <3>5, <3>7
    <3>9. more[i] = asked[i] /\ more[j] = now
      BY <1>2, <2>3, <3>5
    <3>12. PICK x \in Nat, y \in Nat : x = asked[i] /\ y = asked[b]
      BY <3>8
    <3>13. x + t <= y /\ y <= now - Minute
      BY <3>6, <3>8, <3>12
    <3>14. x + (t + Minute) <= now
      BY <2>0, <3>13
    <3>11. asked[i] + (t + Minute) <= now
      BY <3>12, <3>14
    <3> QED
      BY <3>3, <3>9, <3>11
  <2> QED
    BY <2>1, <2>2, <2>3
<1>9. Paced(more, now)
  BY <1>2, <1>6, <1>7, <1>8 DEF Paced
<1>10. EndsWith(more, Append(times, now), now)
  <2>1. PICK l \in Nat : l = Len(times) /\ DOMAIN times = 1 .. l
    OBVIOUS
  <2>2. PICK long \in Seq(Nat) :
          /\ long = Append(times, now) /\ Len(long) = l + 1 /\ DOMAIN long = 1 .. l + 1
          /\ \A i \in 1 .. l : long[i] = times[i]
          /\ long[l + 1] = now
    <3>1. /\ Append(times, now) \in Seq(Nat) /\ Len(Append(times, now)) = Len(times) + 1
          /\ \A i \in 1 .. Len(times) : Append(times, now)[i] = times[i]
          /\ Append(times, now)[Len(times) + 1] = now
      BY AppendProperties
    <3>2. DOMAIN Append(times, now) = 1 .. Len(Append(times, now))
      BY <3>1
    <3> QED
      BY <2>1, <3>1, <3>2
  <2>3. Len(more) = m + Len(long)
    BY <1>2, <1>3, <2>1, <2>2
  <2>4. ASSUME NEW i \in DOMAIN long PROVE more[m + i] = long[i]
    <3>0. n = m + l /\ DOMAIN long = 1 .. l + 1
      BY <1>3, <2>1, <2>2
    <3>1. CASE i = l + 1
      BY <1>2, <1>3, <2>1, <2>2, <3>1
    <3>2. CASE i # l + 1
      <4>1. i \in 1 .. l /\ m + i \in 1 .. n
        BY <2>4, <3>0, <3>2
      <4> QED
        BY <1>2, <1>3, <2>1, <2>2, <4>1
    <3> QED
      BY <3>1, <3>2
  <2>5. \A i \in 1 .. m : more[i] <= now - Minute
    <3>1. \A i \in 1 .. m : i \in 1 .. n
      BY <1>3, <2>1
    <3> QED
      BY <1>2, <1>3, <3>1
  <2> QED
    BY <2>2, <2>3, <2>4, <2>5 DEF EndsWith
<1> QED
  BY <1>1, <1>2, <1>9, <1>10

\* An entry that is dropped for a new one has outlived its grace.
LEMMA DroppedIsOld ==
  ASSUME IInv, TripInv, OrderInv, TraceInv,
         NEW r \in Busy, NEW t \in Tokens, t \notin Kept, Len(cache) = MaxEntries
  PROVE  StoredAt(cache[1]) + Grace < clock
<1>1. PICK asked \in Seq(Nat), stored \in [Tokens -> Nat], out \in [Threads -> Nat] :
        Paced(asked, clock) /\ Traced(asked, stored, out)
  BY DEF TraceInv
<1>2. PICK n \in Nat : n = MaxEntries /\ 1 <= n /\ DOMAIN cache = 1 .. n
  <2>1. cache \in Seq(Entries)
    BY DEF IInv, TypeInv
  <2> QED
    BY <2>1, GraceNumbers
<1>3. clock \in Nat /\ Grace \in Nat /\ Timeout \in Nat
  BY GraceNumbers DEF IInv, TypeInv
<1>4. PICK first \in Int : first = StoredAt(cache[1])
  BY <1>2 DEF OrderInv
<1>5. SUFFICES ASSUME clock <= first + Grace PROVE FALSE
  BY <1>3, <1>4, <1>5
<1>6. \A i \in 1 .. n : cache[i].token \in Kept
  <2>1. \A i \in 1 .. n : cache[i] \in Entries
    BY <1>2 DEF IInv, TypeInv
  <2> QED
    BY <1>2, <2>1, EntryFields DEF Kept
<1>7. PICK l \in Nat : l = Len(asked)
  OBVIOUS
<1>8. ASSUME NEW i \in 1 .. n PROVE stored[cache[i].token] \in (l - n) + 1 .. l
  <2>1. PICK j \in DOMAIN asked : j = stored[cache[i].token]
    BY <1>1, <1>6 DEF Traced
  <2>2. StoredAt(cache[i]) <= asked[j] + Timeout
    BY <1>1, <1>2, <2>1 DEF Traced
  <2>3. first <= StoredAt(cache[i]) /\ StoredAt(cache[i]) \in Int
    <3>1. 1 \in 1 .. n /\ 1 <= i
      BY <1>2
    <3> QED
      BY <1>2, <1>4, <3>1 DEF OrderInv
  <2>4. asked[j] \in Nat
    OBVIOUS
  <2>5. clock <= asked[j] + Grace + Timeout
    BY <1>3, <1>5, <2>2, <2>3, <2>4
  <2>6. Paced(asked, clock)
    BY <1>1
  <2>7. j \in (Len(asked) - MaxEntries) + 1 .. Len(asked)
    BY <1>3, <2>5, <2>6, LateCallsAreFew
  <2> QED
    BY <1>2, <1>7, <2>1, <2>7
<1>9. out[r] \in (l - n) + 1 .. l
  <2>1. PICK j \in DOMAIN asked : j = out[r] /\ asked[j] = thread[r].since
    BY <1>1 DEF Traced
  <2>2. clock <= thread[r].since + Timeout /\ asked[j] \in Nat
    BY DEF TripInv
  <2>3. clock <= asked[j] + Grace + Timeout
    <3>1. PICK x \in Nat : x = asked[j] /\ clock <= x + Timeout
      BY <2>1, <2>2
    <3>2. clock <= x + Grace + Timeout
      BY <1>3, <3>1
    <3> QED
      BY <3>1, <3>2
  <2> QED
    BY <1>1, <1>2, <1>3, <1>7, <2>1, <2>3, LateCallsAreFew
<1> DEFINE h == [i \in 1 .. n + 1 |-> IF i = n + 1 THEN out[r] ELSE stored[cache[i].token]]
<1>10. \A i \in 1 .. n + 1 : i = n + 1 \/ i \in 1 .. n
  OBVIOUS
<1>11. h[n + 1] = out[r] /\ \A i \in 1 .. n : h[i] = stored[cache[i].token]
  OBVIOUS
<1>12. h \in [1 .. n + 1 -> (l - n) + 1 .. l]
  BY <1>8, <1>9, <1>10
<1> HIDE DEF h
<1>13. PICK i \in 1 .. n + 1, j \in 1 .. n + 1 : i # j /\ h[i] = h[j]
  <2>1. 1 \in Int /\ n + 1 \in Int /\ (l - n) + 1 \in Int /\ l \in Int
    OBVIOUS
  <2>2. IsFiniteSet(1 .. n + 1) /\ Cardinality(1 .. n + 1) = n + 1
    <3>1. /\ IsFiniteSet(1 .. n + 1)
          /\ Cardinality(1 .. n + 1) = IF 1 > n + 1 THEN 0 ELSE (n + 1) - 1 + 1
      BY <2>1, FS_Interval
    <3> QED
      BY <3>1
  <2>3. /\ IsFiniteSet((l - n) + 1 .. l)
        /\ Cardinality((l - n) + 1 .. l) =
             IF (l - n) + 1 > l THEN 0 ELSE l - ((l - n) + 1) + 1
    BY <2>1, FS_Interval
  <2>4. Cardinality((l - n) + 1 .. l) < Cardinality(1 .. n + 1)
    BY <1>2, <2>2, <2>3
  <2> QED
    BY <1>12, <2>2, <2>3, <2>4, FS_PigeonHole
<1>14. ASSUME NEW a \in 1 .. n, NEW b \in 1 .. n + 1, h[a] = h[b] PROVE a = b
  <2>1. CASE b = n + 1
    <3>1. stored[cache[a].token] # out[r]
      BY <1>1, <1>6 DEF Traced
    <3> QED
      BY <1>11, <1>14, <2>1, <3>1
  <2>2. CASE b # n + 1
    <3>1. b \in 1 .. n
      BY <2>2
    <3>2. cache[a].token = cache[b].token
      <4>1. stored[cache[a].token] = stored[cache[b].token]
        BY <1>11, <1>14, <3>1
      <4>2. \A u, v \in Kept : stored[u] = stored[v] => u = v
        BY <1>1 DEF Traced
      <4> QED
        BY <1>6, <3>1, <4>1, <4>2
    <3> QED
      BY <1>2, <3>1, <3>2 DEF IInv, CacheInv
  <2> QED
    BY <2>1, <2>2
<1> QED
  BY <1>10, <1>13, <1>14

\* No answer in want of one for a token whose yes is in its grace.
LEMMA GraceWorks ==
  ASSUME IInv, OrderInv, KeptInv, NEW t \in Tokens, ~InGrace(EntriesOf(t))
  PROVE  \/ verdict[t].kind # "yes"
         \/ clock - verdict[t].at > Grace
         \/ SessionEnd[t] <= clock
<1>1. clock \in Nat /\ Grace \in Nat /\ verdict[t].at \in Nat
  BY GraceNumbers DEF IInv, TypeInv
<1>2. SUFFICES ASSUME verdict[t].kind = "yes", clock - verdict[t].at <= Grace, SessionEnd[t] > clock
               PROVE  FALSE
  <2>1. SUFFICES ASSUME verdict[t].kind = "yes", ~(clock - verdict[t].at > Grace)
                 PROVE  SessionEnd[t] <= clock
    OBVIOUS
  <2>2. clock - verdict[t].at <= Grace
    BY <1>1, <2>1
  <2>3. t \in Kept
    BY <2>1, <2>2 DEF KeptInv
  <2>4. PICK i \in DOMAIN cache : cache[i].token = t
    BY <2>3 DEF Kept
  <2>5. cache[i] \in Entries /\ cache[i].kind = "yes"
    BY <2>1, <2>4 DEF IInv, TypeInv, CacheInv
  <2>6. t \in Staff
    BY <2>4, <2>5, EntryFields
  <2>7. SessionEnd[t] \in Nat
    BY <2>6, Numbers
  <2> QED
    BY <1>1, <1>2, <2>1, <2>2, <2>7
<1>3. t \in Kept
  BY <1>2 DEF KeptInv
<1>4. PICK i \in DOMAIN cache : cache[i].token = t
  BY <1>3 DEF Kept
<1>5. cache[i].kind = "yes" /\ cache[i].ends = SessionEnd[t]
  BY <1>2, <1>4 DEF IInv, CacheInv, SessionInv
<1>6. cache[i].checkedAt = verdict[t].at
  BY <1>4, <1>5 DEF OrderInv
<1>7. cache[i] \in EntriesOf(t)
  BY <1>4 DEF EntriesOf, ToSet
<1> QED
  BY <1>2, <1>5, <1>6, <1>7 DEF InGrace

\* What RecentYesStillWorks says of the next state when no answer is missing.
LEMMA NothingMissing ==
  ASSUME last' = Nothing \/ last'.what \in {"in", "refused"}
  PROVE  RecentYesStillWorks'
BY DEF RecentYesStillWorks, Nothing

\* Calls that are still out, or whose thread is back.
LEMMA TripsKept ==
  ASSUME TraceInv, TripInv, UNCHANGED <<clock, cache, outside>>,
         \A r \in Threads : thread'[r] # Idle =>
           thread[r] # Idle /\ thread'[r].since = thread[r].since
  PROVE  TraceInv' /\ TripInv'
<1>1. PICK asked \in Seq(Nat), stored \in [Tokens -> Nat], out \in [Threads -> Nat] :
        /\ Paced(asked, clock)
        /\ EndsWith(asked, Times(outside), clock)
        /\ Traced(asked, stored, out)
  BY DEF TraceInv
<1>2. Busy' \subseteq Busy /\ \A r \in Busy' : thread'[r].since = thread[r].since
  BY DEF Busy
<1>3. Kept' = Kept /\ \A i \in DOMAIN cache : StoredAt(cache'[i]) = StoredAt(cache[i])
  BY DEF Kept
<1>4. Traced(asked, stored, out)'
  BY <1>1, <1>2, <1>3 DEF Traced
<1>5. Paced(asked, clock') /\ EndsWith(asked, Times(outside'), clock')
  BY <1>1
<1>6. TraceInv'
  BY <1>4, <1>5 DEF TraceInv
<1>7. TripInv'
  BY <1>2 DEF TripInv
<1> QED
  BY <1>6, <1>7

\* A step that stores nothing.
LEMMA NothingStored ==
  ASSUME GraceInv, UNCHANGED <<clock, cache, outside, verdict>>, RecentYesStillWorks',
         \A r \in Threads : thread'[r] # Idle =>
           thread[r] # Idle /\ thread'[r].since = thread[r].since
  PROVE  GraceInv'
<1>1. TraceInv' /\ TripInv'
  BY TripsKept DEF GraceInv
<1>2. OrderInv'
  BY DEF GraceInv, OrderInv
<1>3. Kept' = Kept
  BY DEF Kept
<1>4. KeptInv'
  BY <1>3 DEF GraceInv, KeptInv
<1> QED
  BY <1>1, <1>2, <1>4 DEF GraceInv

\* What a thread that comes back leaves of the others.
LEMMA OthersStayOut ==
  ASSUME TypeInv, NEW r \in Threads, thread' = [thread EXCEPT ![r] = Idle]
  PROVE  /\ \A s \in Threads : thread'[s] = IF s = r THEN Idle ELSE thread[s]
         /\ \A s \in Threads : thread'[s] # Idle =>
              thread[s] # Idle /\ thread'[s].since = thread[s].since
BY DEF TypeInv

\* An answer of the grace, or the lack of one, when nothing else changes.
LEMMA GraceAnswers ==
  ASSUME IInv, OrderInv, KeptInv, NEW t \in Tokens, UNCHANGED <<clock, verdict>>,
         NEW w \in {"busy", "unavailable"}, NEW h \in {"limit", "asked"},
         IF InGrace(EntriesOf(t)) THEN Answer("in", "grace", t) ELSE Answer(w, h, t)
  PROVE  RecentYesStillWorks'
<1>1. CASE InGrace(EntriesOf(t))
  <2>1. last'.what = "in"
    BY <1>1 DEF Answer
  <2> QED
    BY <2>1, NothingMissing
<1>2. CASE ~InGrace(EntriesOf(t))
  <2>1. last'.token = t
    BY <1>2 DEF Answer
  <2> QED
    BY <1>2, <2>1, GraceWorks DEF RecentYesStillWorks
<1> QED
  BY <1>1, <1>2

\* The steps of a check or redemption that store nothing.
LEMMA QuietSteps ==
  ASSUME IInv, GraceInv, NEW r \in Threads, NEW t \in Tokens, NEW c \in Clients \cup {NoClient},
         \/ CheckHit(r, t) \/ CheckDenied(r, t, c) \/ CheckUnreached(r)
         \/ RedeemYes(r) \/ RedeemFails(r)
  PROVE  GraceInv'
<1>1. CASE CheckHit(r, t)
  <2>1. UNCHANGED <<clock, cache, thread, outside, verdict>> /\ last'.what \in {"in", "refused"}
    BY <1>1 DEF CheckHit, site, Answer
  <2> QED
    BY <2>1, NothingMissing, NothingStored
<1>2. CASE CheckDenied(r, t, c)
  <2>1. /\ UNCHANGED <<clock, cache, thread, outside, verdict>>
        /\ IF InGrace(EntriesOf(t)) THEN Answer("in", "grace", t) ELSE Answer("busy", "limit", t)
    BY <1>2 DEF CheckDenied, site
  <2>2. RecentYesStillWorks'
    BY <2>1, GraceAnswers DEF GraceInv
  <2> QED
    BY <2>1, <2>2, NothingStored
<1>3. CASE CheckUnreached(r)
  <2>1. /\ UNCHANGED <<clock, cache, outside, verdict>> /\ thread[r].at # "idle"
        /\ thread' = [thread EXCEPT ![r] = Idle]
    BY <1>3 DEF CheckUnreached, site
  <2>2. PICK u \in Tokens : u = thread[r].token
    BY <2>1, TripFields DEF IInv, TypeInv
  <2>3. IF InGrace(EntriesOf(u)) THEN Answer("in", "grace", u)
        ELSE Answer("unavailable", "asked", u)
    BY <1>3, <2>2 DEF CheckUnreached
  <2>4. RecentYesStillWorks'
    BY <2>1, <2>3, GraceAnswers DEF GraceInv
  <2>5. \A s \in Threads : thread'[s] # Idle =>
          thread[s] # Idle /\ thread'[s].since = thread[s].since
    BY <2>1, OthersStayOut DEF IInv
  <2> QED
    BY <2>1, <2>4, <2>5, NothingStored
<1>4. CASE RedeemYes(r) \/ RedeemFails(r)
  <2>1. /\ UNCHANGED <<clock, cache, outside, verdict>> /\ last' = Nothing
        /\ thread' = [thread EXCEPT ![r] = Idle]
    BY <1>4 DEF RedeemYes, RedeemFails, site
  <2>2. \A s \in Threads : thread'[s] # Idle =>
          thread[s] # Idle /\ thread'[s].since = thread[s].since
    BY <2>1, OthersStayOut DEF IInv
  <2> QED
    BY <2>1, <2>2, NothingMissing, NothingStored
<1> QED
  BY <1>1, <1>2, <1>3, <1>4

\* The steps of KloudC, and of a browser with its cookie.
LEMMA OutsideSteps ==
  ASSUME IInv, GraceInv,
         \/ UseCookie \/ (\E t \in Staff : ChangeMind(t)) \/ \E r \in Threads : KloudcDecides(r)
  PROVE  GraceInv'
<1>1. CASE UseCookie \/ \E t \in Staff : ChangeMind(t)
  <2>1. /\ UNCHANGED <<clock, cache, thread, outside, verdict>>
        /\ last' = Nothing \/ last'.what \in {"in", "refused"}
    BY <1>1 DEF UseCookie, ChangeMind, site, Answer
  <2> QED
    BY <2>1, NothingMissing, NothingStored
<1>2. ASSUME NEW r \in Threads, KloudcDecides(r) PROVE GraceInv'
  <2>1. PICK trip \in Trips : trip = thread[r] /\ trip.at = "asking"
    <3>1. thread[r] \in Trips \cup {Idle} /\ thread[r].at = "asking"
      BY <1>2 DEF IInv, TypeInv, KloudcDecides
    <3> QED
      BY <3>1 DEF Idle
  <2>2. PICK yes : thread' = [thread EXCEPT ![r] = [@ EXCEPT !.at = "decided", !.says = yes]]
    BY <1>2 DEF KloudcDecides
  <2>3. PICK decided : /\ decided = [trip EXCEPT !.at = "decided", !.says = yes]
                       /\ decided.since = trip.since
    <3>1. [trip EXCEPT !.at = "decided", !.says = yes].since = trip.since
      BY DEF Trips
    <3> QED
      BY <3>1
  <2>4. \A s \in Threads : thread'[s] = IF s = r THEN decided ELSE thread[s]
    BY <2>1, <2>2, <2>3 DEF IInv, TypeInv
  <2>5. thread[r] # Idle
    BY <2>1 DEF Idle
  <2>6. \A s \in Threads : thread'[s] # Idle =>
          thread[s] # Idle /\ thread'[s].since = thread[s].since
    BY <2>1, <2>3, <2>4, <2>5
  <2>7. UNCHANGED <<clock, cache, outside, verdict>> /\ last' = Nothing
    BY <1>2 DEF KloudcDecides, site
  <2> QED
    BY <2>6, <2>7, NothingMissing, NothingStored
<1> QED
  BY <1>1, <1>2

\* One more call is out.
LEMMA AskKeepsGrace ==
  ASSUME IInv, GraceInv, NEW r \in Threads, NEW what, NEW t \in Tokens,
         NEW c \in Clients \cup {NoClient}, thread[r] = Idle, SlotFree(c), Ask(r, what, t, c),
         UNCHANGED <<clock, mind, cache, jar, verdict>>
  PROVE  GraceInv'
<1>1. clock \in Nat /\ outside \in Seq(OutsideCalls)
  BY DEF IInv, TypeInv
<1>2. PICK asked \in Seq(Nat), stored \in [Tokens -> Nat], out \in [Threads -> Nat] :
        /\ Paced(asked, clock)
        /\ EndsWith(asked, Times(outside), clock)
        /\ Traced(asked, stored, out)
  BY DEF GraceInv, TraceInv
<1>3. PICK times \in Seq(Nat) : times = Times(outside) /\ Len(times) < MaxChecks
  <2>1. Times(outside) \in Seq(Nat) /\ Len(Times(outside)) = Len(outside)
    BY <1>1, TimesOfCalls
  <2>2. Len(outside) < MaxChecks
    BY SlotMeans
  <2> QED
    BY <2>1, <2>2
<1>4. PICK n \in Nat : n = Len(asked) /\ DOMAIN asked = 1 .. n
  OBVIOUS
<1>5. PICK more \in Seq(Nat) :
        /\ Len(more) = n + 1 /\ \A i \in DOMAIN asked : more[i] = asked[i]
        /\ more[n + 1] = clock /\ Paced(more, clock)
        /\ EndsWith(more, Append(times, clock), clock)
  BY <1>1, <1>2, <1>3, <1>4, PacedMore
<1>6. DOMAIN more = 1 .. n + 1 /\ DOMAIN asked \subseteq DOMAIN more /\ n + 1 \notin DOMAIN asked
  BY <1>4, <1>5
<1>7. Times(outside') = Append(times, clock)
  <2>1. PICK o \in OutsideCalls : o = [at |-> clock, client |-> c] /\ o.at = clock
    <3>1. [at |-> clock, client |-> c] \in OutsideCalls
      BY <1>1 DEF OutsideCalls
    <3> QED
      BY <3>1
  <2>2. outside' = Append(outside, o)
    BY <2>1 DEF Ask
  <2> QED
    BY <1>1, <1>3, <2>1, <2>2, TimesOfOneMore
<1>8. PICK trip : thread' = [thread EXCEPT ![r] = trip] /\ trip.since = clock
  <2>1. PICK trip : /\ trip = [at |-> "asking", for |-> what, token |-> t, since |-> clock,
                               says |-> "nothing"]
                    /\ trip.since = clock
    <3>1. \A x : [at |-> "asking", for |-> what, token |-> t, since |-> x,
                  says |-> "nothing"].since = x
      OBVIOUS
    <3> QED
      BY <3>1
  <2>2. thread' = [thread EXCEPT ![r] = trip]
    BY <2>1 DEF Ask
  <2> QED
    BY <2>1, <2>2
<1>9. \A s \in Threads : thread'[s] = IF s = r THEN trip ELSE thread[s]
  BY <1>8 DEF IInv, TypeInv
<1>10. PICK back \in [Threads -> Nat] : /\ back[r] = n + 1
                                        /\ \A s \in Threads : s # r => back[s] = out[s]
  <2>1. /\ [out EXCEPT ![r] = n + 1] \in [Threads -> Nat]
        /\ [out EXCEPT ![r] = n + 1][r] = n + 1
        /\ \A s \in Threads : s # r => [out EXCEPT ![r] = n + 1][s] = out[s]
    OBVIOUS
  <2> QED
    BY <2>1
<1>11. Kept' = Kept /\ \A i \in DOMAIN cache : StoredAt(cache'[i]) = StoredAt(cache[i])
  BY DEF Kept
<1>12. \A s \in Busy' : s = r \/ (s \in Busy /\ s # r)
  BY <1>9 DEF Busy
<1>13. /\ \A s \in Busy : out[s] \in DOMAIN asked /\ asked[out[s]] = thread[s].since
       /\ \A s, u \in Busy : out[s] = out[u] => s = u
       /\ \A u \in Kept : stored[u] \in DOMAIN asked
       /\ \A u \in Kept, s \in Busy : stored[u] # out[s]
       /\ \A u, v \in Kept : stored[u] = stored[v] => u = v
       /\ \A i \in DOMAIN cache : StoredAt(cache[i]) <= asked[stored[cache[i].token]] + Timeout
  BY <1>2 DEF Traced
<1>14. \A s \in Busy' : back[s] \in DOMAIN more /\ more[back[s]] = thread'[s].since
  <2>1. r \in Busy' => back[r] \in DOMAIN more /\ more[back[r]] = thread'[r].since
    BY <1>5, <1>6, <1>8, <1>9, <1>10
  <2>2. ASSUME NEW s \in Busy, s # r
        PROVE  back[s] \in DOMAIN more /\ more[back[s]] = thread'[s].since
    <3>1. s \in Threads /\ thread'[s] = thread[s] /\ back[s] = out[s]
      BY <1>9, <1>10, <2>2 DEF Busy
    <3> QED
      BY <1>5, <1>6, <1>13, <3>1
  <2> QED
    BY <1>12, <2>1, <2>2
<1>15. \A s, u \in Busy' : back[s] = back[u] => s = u
  <2>1. \A s \in Busy : s # r => back[s] = out[s] /\ out[s] # n + 1
    BY <1>6, <1>10, <1>13 DEF Busy
  <2> SUFFICES ASSUME NEW s \in Busy', NEW u \in Busy', back[s] = back[u] PROVE s = u
    OBVIOUS
  <2>2. back[r] = n + 1
    BY <1>10
  <2>3. CASE s = r \/ u = r
    BY <1>12, <2>1, <2>2, <2>3
  <2>4. CASE s # r /\ u # r
    <3>1. s \in Busy /\ u \in Busy /\ out[s] = out[u]
      BY <1>12, <2>1, <2>4
    <3> QED
      BY <1>13, <3>1
  <2> QED
    BY <2>3, <2>4
<1>16. \A u \in Kept : stored[u] \in DOMAIN more
  BY <1>6, <1>13
<1>17. \A u \in Kept, s \in Busy' : stored[u] # back[s]
  <2>1. \A u \in Kept : stored[u] # n + 1
    BY <1>6, <1>13
  <2>2. \A s \in Busy : s # r => back[s] = out[s]
    BY <1>10 DEF Busy
  <2> QED
    <3> SUFFICES ASSUME NEW u \in Kept, NEW s \in Busy' PROVE stored[u] # back[s]
      OBVIOUS
    <3>1. CASE s = r
      BY <1>10, <2>1, <3>1
    <3>2. CASE s \in Busy /\ s # r
      <4>1. stored[u] # out[s]
        BY <1>13, <3>2
      <4> QED
        BY <2>2, <3>2, <4>1
    <3> QED
      BY <1>12, <3>1, <3>2
<1>18. \A i \in DOMAIN cache : StoredAt(cache[i]) <= more[stored[cache[i].token]] + Timeout
  <2>1. ASSUME NEW i \in DOMAIN cache PROVE cache[i].token \in Kept
    <3>1. cache[i] \in Entries
      BY DEF IInv, TypeInv
    <3> QED
      BY <3>1, EntryFields DEF Kept
  <2> QED
    BY <1>5, <1>13, <2>1
<1>19. Traced(more, stored, back)'
  BY <1>11, <1>13, <1>14, <1>15, <1>16, <1>17, <1>18 DEF Traced
<1>20. TraceInv'
  BY <1>5, <1>7, <1>19 DEF TraceInv
<1>21. TripInv'
  <2>1. \A s \in Busy : clock <= thread[s].since + Timeout
    BY DEF GraceInv, TripInv
  <2>2. \A s \in Busy : s # r => thread'[s] = thread[s]
    BY <1>9 DEF Busy
  <2>3. r \in Busy' => thread'[r].since = clock
    BY <1>8, <1>9
  <2>4. clock <= clock + Timeout
    BY <1>1, GraceNumbers
  <2> QED
    BY <1>12, <2>1, <2>2, <2>3, <2>4 DEF TripInv
<1>22. OrderInv'
  BY DEF GraceInv, OrderInv
<1>23. KeptInv'
  BY <1>11 DEF GraceInv, KeptInv
<1>24. RecentYesStillWorks'
  BY NothingMissing DEF Ask
<1> QED
  BY <1>20, <1>21, <1>22, <1>23, <1>24 DEF GraceInv

\* Time passes.
LEMMA TickKeepsGrace ==
  ASSUME IInv, GraceInv, Tick
  PROVE  GraceInv'
<1>1. PICK now \in Nat : now = clock /\ clock' = now + 1
  BY DEF Tick, IInv, TypeInv
<1>2. UNCHANGED <<cache, thread, verdict>> /\ last' = Nothing
  BY DEF Tick, site
<1>3. outside \in Seq(OutsideCalls)
  BY DEF IInv, TypeInv
<1>4. StillEnds(Times(outside), Times(outside'), now)
  <2>1. outside' = LateCalls(outside, now)
    BY <1>1 DEF Tick, LateCalls
  <2>2. OfTheMinute(Times(outside), now)
    BY <1>1 DEF IInv, MemoryInv
  <2> QED
    BY <1>3, <2>1, <2>2, TickedCalls
<1>5. PICK asked \in Seq(Nat), stored \in [Tokens -> Nat], out \in [Threads -> Nat] :
        /\ Paced(asked, now)
        /\ EndsWith(asked, Times(outside), now)
        /\ Traced(asked, stored, out)
  BY <1>1 DEF GraceInv, TraceInv
<1>6. Paced(asked, now + 1)
  <2>1. \A i \in DOMAIN asked : asked[i] <= now + 1
    <3>1. \A i \in DOMAIN asked : asked[i] <= now /\ asked[i] \in Nat
      BY <1>5 DEF Paced
    <3> QED
      BY <3>1
  <2> QED
    BY <1>5, <2>1 DEF Paced
<1>7. EndsWith(asked, Times(outside'), now + 1)
  BY <1>4, <1>5 DEF StillEnds
<1>8. Busy' = Busy /\ Kept' = Kept
  BY <1>2 DEF Busy, Kept
<1>9. Traced(asked, stored, out)'
  BY <1>2, <1>5, <1>8 DEF Traced, StoredAt
<1>10. TraceInv'
  BY <1>1, <1>6, <1>7, <1>9 DEF TraceInv
<1>11. TripInv'
  <2>1. ASSUME NEW r \in Busy PROVE now + 1 <= thread[r].since + Timeout
    <3>1. thread[r] # Idle /\ r \in Threads
      BY DEF Busy
    <3>2. now < thread[r].since + Timeout
      BY <1>1, <3>1 DEF Tick
    <3>3. thread[r] \in Trips
      BY <3>1 DEF IInv, TypeInv
    <3>4. thread[r].since \in Nat
      BY <3>3 DEF Trips
    <3>5. Timeout \in Nat
      BY GraceNumbers
    <3> QED
      BY <3>2, <3>4, <3>5
  <2> QED
    BY <1>1, <1>2, <1>8, <2>1 DEF TripInv
<1>12. OrderInv'
  <2>1. \A i \in DOMAIN cache : StoredAt(cache[i]) \in Int /\ StoredAt(cache[i]) <= now
    BY <1>1 DEF GraceInv, OrderInv
  <2>2. \A i \in DOMAIN cache : StoredAt(cache[i]) <= now + 1
    BY <2>1
  <2>3. \A i \in DOMAIN cache : StoredAt(cache[i])' = StoredAt(cache[i])
    BY <1>2
  <2> QED
    BY <1>1, <1>2, <2>1, <2>2 DEF GraceInv, OrderInv, StoredAt
<1>13. KeptInv'
  <2>1. ASSUME NEW t \in Tokens, (now + 1) - verdict[t].at <= Grace PROVE now - verdict[t].at <= Grace
    <3>1. verdict[t].at \in Nat
      BY DEF IInv, TypeInv
    <3>2. Grace \in Nat
      BY GraceNumbers
    <3> QED
      BY <2>1, <3>1, <3>2
  <2> QED
    BY <1>1, <1>2, <1>8, <2>1 DEF GraceInv, KeptInv
<1>14. RecentYesStillWorks'
  BY <1>2, NothingMissing
<1> QED
  BY <1>10, <1>11, <1>12, <1>13, <1>14 DEF GraceInv

\* The new cache is l entries of the old one, in their order, and e: what is left
\* out is the old entry of its token, or else the first of a full cache.
OrderKept(new, e, l) ==
  /\ DOMAIN new = 1 .. l + 1 /\ new[l + 1] = e
  /\ \E f \in [1 .. l -> DOMAIN cache] :
       /\ \A i \in 1 .. l : new[i] = cache[f[i]]
       /\ \A i, j \in 1 .. l : i < j => f[i] < f[j]
       /\ \A j \in DOMAIN cache :
            \/ cache[j].token = e.token
            \/ \E i \in 1 .. l : f[i] = j
            \/ /\ j = 1 /\ Len(cache) = MaxEntries
               /\ \A h \in DOMAIN cache : cache[h].token # e.token

\* A store keeps the order of the others, and drops one only for a new token.
LEMMA StoreOrder ==
  ASSUME TypeInv, CacheInv, NEW e \in Entries, NEW new, new = Stored(e)
  PROVE  \E l \in Nat : OrderKept(new, e, l)
<1>1. PICK places \in SUBSET (DOMAIN cache) :
        /\ places = {i \in DOMAIN cache : cache[i].token = e.token}
        /\ \A i \in DOMAIN cache : i \in places <=> cache[i].token = e.token
  <2> DEFINE places == {i \in DOMAIN cache : cache[i].token = e.token}
  <2>1. places \in SUBSET (DOMAIN cache)
    OBVIOUS
  <2>2. \A i \in DOMAIN cache : i \in places <=> cache[i].token = e.token
    OBVIOUS
  <2> QED
    BY <2>1, <2>2
<1>2. /\ cache \in Seq(Entries) /\ Len(cache) <= MaxEntries /\ MaxEntries \in Nat \ {0}
      /\ AtMostOne(places)
  BY <1>1, Numbers DEF TypeInv, CacheInv, AtMostOne
<1>3. PICK long : long = Renewed(cache, places, e, MaxEntries)
  OBVIOUS
<1>4. /\ long \in Seq(Entries) /\ Len(long) \in 1 .. MaxEntries /\ long[Len(long)] = e
      /\ KeepsOthers(long, cache, places, MaxEntries)
  BY <1>2, <1>3, RenewedKeeps
<1>5. PICK l \in Nat : l = Len(long) - 1 /\ DOMAIN long = 1 .. l + 1 /\ Len(long) = l + 1
  <2>1. Len(long) - 1 \in Nat /\ Len(long) = Len(long) - 1 + 1
    BY <1>4
  <2>2. DOMAIN long = 1 .. Len(long)
    BY <1>4
  <2> QED
    BY <2>1, <2>2
<1>6. PICK f \in [1 .. l -> DOMAIN cache \ places] :
        /\ \A i, j \in 1 .. l : i < j => f[i] < f[j]
        /\ \A i \in 1 .. l : long[i] = cache[f[i]]
        /\ \A j \in DOMAIN cache \ places :
             \/ \E i \in 1 .. l : f[i] = j
             \/ j = 1 /\ places = {} /\ Len(cache) = MaxEntries
  BY <1>4, <1>5 DEF KeepsOthers
<1>7. f \in [1 .. l -> DOMAIN cache]
  OBVIOUS
<1>8. \A j \in DOMAIN cache :
        \/ cache[j].token = e.token
        \/ \E i \in 1 .. l : f[i] = j
        \/ /\ j = 1 /\ Len(cache) = MaxEntries
           /\ \A h \in DOMAIN cache : cache[h].token # e.token
  <2> SUFFICES ASSUME NEW j \in DOMAIN cache, cache[j].token # e.token,
                      ~ \E i \in 1 .. l : f[i] = j
               PROVE  /\ j = 1 /\ Len(cache) = MaxEntries
                      /\ \A h \in DOMAIN cache : cache[h].token # e.token
    OBVIOUS
  <2>1. j \in DOMAIN cache \ places
    BY <1>1
  <2>2. j = 1 /\ places = {} /\ Len(cache) = MaxEntries
    BY <1>6, <2>1
  <2> QED
    BY <1>1, <2>2
<1>9. new = long
  BY <1>1, <1>3 DEF Stored
<1>10. long[l + 1] = e
  BY <1>4, <1>5
<1>11. /\ \A i \in 1 .. l : new[i] = cache[f[i]]
       /\ \A i, j \in 1 .. l : i < j => f[i] < f[j]
  BY <1>6, <1>9
<1>12. DOMAIN new = 1 .. l + 1 /\ new[l + 1] = e
  BY <1>5, <1>9, <1>10
<1>13. OrderKept(new, e, l)
  BY <1>7, <1>8, <1>11, <1>12 DEF OrderKept
<1> QED
  BY <1>13

\* An answer is stored, for a call that was out.
LEMMA StoreKeepsGrace ==
  ASSUME IInv, GraceInv, NEW r \in Threads, thread[r] # Idle, NEW t \in Tokens,
         NEW e \in Entries, e.token = t, StoredAt(e) = clock,
         e.kind = "yes" => e.checkedAt = clock,
         cache' = Stored(e), verdict' = [verdict EXCEPT ![t] = [kind |-> e.kind, at |-> clock]],
         thread' = [thread EXCEPT ![r] = Idle], UNCHANGED <<clock, outside>>,
         last'.what \in {"in", "refused"}
  PROVE  GraceInv'
<1>1. PICK asked \in Seq(Nat), stored \in [Tokens -> Nat], out \in [Threads -> Nat] :
        /\ Paced(asked, clock)
        /\ EndsWith(asked, Times(outside), clock)
        /\ Traced(asked, stored, out)
  BY DEF GraceInv, TraceInv
<1>2. PICK new : new = Stored(e) /\ new = cache'
  OBVIOUS
<1>2a. PICK l \in Nat : OrderKept(new, e, l)
  BY <1>2, StoreOrder DEF IInv
<1>3. PICK f \in [1 .. l -> DOMAIN cache] :
        /\ DOMAIN new = 1 .. l + 1 /\ new[l + 1] = e
        /\ \A i \in 1 .. l : new[i] = cache[f[i]]
        /\ \A i, j \in 1 .. l : i < j => f[i] < f[j]
        /\ \A j \in DOMAIN cache :
             \/ cache[j].token = e.token
             \/ \E i \in 1 .. l : f[i] = j
             \/ /\ j = 1 /\ Len(cache) = MaxEntries
                /\ \A h \in DOMAIN cache : cache[h].token # e.token
  BY <1>2a DEF OrderKept
<1>4. \A i, j \in DOMAIN new : new[i].token = new[j].token => i = j
  BY <1>2, StoreKeeps DEF IInv
<1>5. \A i \in 1 .. l + 1 : i = l + 1 \/ i \in 1 .. l
  OBVIOUS
<1>6. \A i \in 1 .. l : /\ f[i] \in DOMAIN cache /\ new[i] = cache[f[i]]
                        /\ new[i].token # t
  <2> SUFFICES ASSUME NEW i \in 1 .. l
               PROVE  /\ f[i] \in DOMAIN cache /\ new[i] = cache[f[i]]
                      /\ new[i].token # t
    OBVIOUS
  <2>1. i \in DOMAIN new /\ l + 1 \in DOMAIN new /\ i # l + 1
    BY <1>3
  <2>2. new[i].token # new[l + 1].token
    BY <1>4, <2>1
  <2> QED
    BY <1>3, <2>2
<1>7. \A i \in DOMAIN cache : cache[i].token \in Tokens /\ cache[i].token \in Kept
  <2> SUFFICES ASSUME NEW i \in DOMAIN cache
               PROVE  cache[i].token \in Tokens /\ cache[i].token \in Kept
    OBVIOUS
  <2>1. cache[i] \in Entries
    BY DEF IInv, TypeInv
  <2> QED
    BY <2>1, EntryFields DEF Kept
<1>8. /\ verdict'[t] = [kind |-> e.kind, at |-> clock]
      /\ \A u \in Tokens : u # t => verdict'[u] = verdict[u]
  BY DEF IInv, TypeInv
<1>9. /\ r \in Busy /\ r \notin Busy' /\ \A s \in Busy' : s \in Busy /\ s # r
      /\ \A s \in Busy' : thread'[s] = thread[s]
  <2>1. \A s \in Threads : thread'[s] = IF s = r THEN Idle ELSE thread[s]
    BY OthersStayOut DEF IInv
  <2> QED
    BY <2>1 DEF Busy
<1>10. Kept' \subseteq Kept \cup {t} /\ t \in Kept'
  <2>1. \A i \in DOMAIN new : new[i].token = t \/ new[i].token \in Kept
    BY <1>3, <1>5, <1>6, <1>7
  <2>2. l + 1 \in DOMAIN new /\ new[l + 1].token = t
    BY <1>3
  <2> QED
    BY <1>2, <2>1, <2>2 DEF Kept
<1>11. PICK from \in [Tokens -> Nat] : /\ from[t] = out[r]
                                       /\ \A u \in Tokens : u # t => from[u] = stored[u]
  <2>1. /\ [stored EXCEPT ![t] = out[r]] \in [Tokens -> Nat]
        /\ [stored EXCEPT ![t] = out[r]][t] = out[r]
        /\ \A u \in Tokens : u # t => [stored EXCEPT ![t] = out[r]][u] = stored[u]
    OBVIOUS
  <2> QED
    BY <2>1
<1>12. /\ \A s \in Busy : out[s] \in DOMAIN asked /\ asked[out[s]] = thread[s].since
       /\ \A s, u \in Busy : out[s] = out[u] => s = u
       /\ \A u \in Kept : stored[u] \in DOMAIN asked
       /\ \A u \in Kept, s \in Busy : stored[u] # out[s]
       /\ \A u, v \in Kept : stored[u] = stored[v] => u = v
       /\ \A i \in DOMAIN cache : StoredAt(cache[i]) <= asked[stored[cache[i].token]] + Timeout
  BY <1>1 DEF Traced
<1>13. \A u \in Kept' : u = t \/ (u \in Kept /\ u # t /\ from[u] = stored[u])
  BY <1>10, <1>11 DEF Kept
<1>14. \A s \in Busy' : out[s] \in DOMAIN asked /\ asked[out[s]] = thread'[s].since
  BY <1>9, <1>12
<1>15. \A s, u \in Busy' : out[s] = out[u] => s = u
  BY <1>9, <1>12
<1>16. \A u \in Kept' : from[u] \in DOMAIN asked
  BY <1>9, <1>11, <1>12, <1>13
<1>17. \A u \in Kept', s \in Busy' : from[u] # out[s]
  <2> SUFFICES ASSUME NEW u \in Kept', NEW s \in Busy' PROVE from[u] # out[s]
    OBVIOUS
  <2>1. s \in Busy /\ out[s] # out[r]
    BY <1>9, <1>12
  <2>2. CASE u = t
    BY <1>11, <2>1, <2>2
  <2>3. CASE u \in Kept /\ from[u] = stored[u]
    <3>1. stored[u] # out[s]
      BY <1>12, <2>1, <2>3
    <3> QED
      BY <2>3, <3>1
  <2> QED
    BY <1>13, <2>2, <2>3
<1>18. \A u, v \in Kept' : from[u] = from[v] => u = v
  <2> SUFFICES ASSUME NEW u \in Kept', NEW v \in Kept', from[u] = from[v] PROVE u = v
    OBVIOUS
  <2>1. \A w \in Kept : stored[w] # out[r]
    BY <1>9, <1>12
  <2>2. \A w \in Kept' : w # t => from[w] # out[r]
    BY <1>13, <2>1
  <2>3. CASE u = t \/ v = t
    <3>1. from[t] = out[r]
      BY <1>11
    <3> QED
      BY <2>3, <2>2, <3>1
  <2>4. CASE u # t /\ v # t
    BY <1>12, <1>13, <2>4
  <2> QED
    BY <2>3, <2>4
<1>19. \A i \in DOMAIN new : StoredAt(new[i]) <= asked[from[new[i].token]] + Timeout
  <2> SUFFICES ASSUME NEW i \in 1 .. l + 1
               PROVE  StoredAt(new[i]) <= asked[from[new[i].token]] + Timeout
    BY <1>3
  <2>1. CASE i = l + 1
    <3>1. clock <= thread[r].since + Timeout
      BY <1>9 DEF GraceInv, TripInv
    <3> QED
      BY <1>3, <1>9, <1>11, <1>12, <2>1, <3>1
  <2>2. CASE i \in 1 .. l
    <3>1. PICK j \in DOMAIN cache : new[i] = cache[j] /\ cache[j].token # t
      BY <1>6, <2>2
    <3>2. from[cache[j].token] = stored[cache[j].token]
      BY <1>7, <1>11, <3>1
    <3> QED
      BY <1>12, <3>1, <3>2
  <2> QED
    BY <1>5, <2>1, <2>2
<1>20. Traced(asked, from, out)'
  BY <1>2, <1>14, <1>15, <1>16, <1>17, <1>18, <1>19 DEF Traced, StoredAt
<1>21. TraceInv'
  BY <1>1, <1>20 DEF TraceInv
<1>22. TripInv'
  BY <1>9 DEF GraceInv, TripInv
<1>23. OrderInv'
  <2>1. clock \in Nat /\ DOMAIN cache \subseteq Nat
    <3>1. cache \in Seq(Entries)
      BY DEF IInv, TypeInv
    <3> QED
      BY <3>1 DEF IInv, TypeInv
  <2>2. \A i \in DOMAIN cache : StoredAt(cache[i]) \in Int /\ StoredAt(cache[i]) <= clock
    BY DEF GraceInv, OrderInv
  <2>3. \A i \in DOMAIN new : StoredAt(new[i]) \in Int /\ StoredAt(new[i]) <= clock
    <3>1. \A i \in 1 .. l : StoredAt(new[i]) \in Int /\ StoredAt(new[i]) <= clock
      BY <1>6, <2>2
    <3>2. StoredAt(new[l + 1]) \in Int /\ StoredAt(new[l + 1]) <= clock
      BY <1>3, <2>1
    <3> QED
      BY <1>3, <1>5, <3>1, <3>2
  <2>4. ASSUME NEW i \in 1 .. l + 1, NEW j \in 1 .. l + 1, i <= j
        PROVE  StoredAt(new[i]) <= StoredAt(new[j])
    <3>1. CASE j = l + 1
      BY <1>3, <2>3, <3>1
    <3>2. CASE i = j
      <4>1. StoredAt(new[i]) \in Int
        BY <1>3, <2>3
      <4> QED
        BY <3>2, <4>1
    <3>3. CASE i # j /\ j # l + 1
      <4>1. i \in 1 .. l /\ j \in 1 .. l /\ i < j
        BY <2>4, <3>3
      <4>2. f[i] < f[j] /\ f[i] \in DOMAIN cache /\ f[j] \in DOMAIN cache
        BY <1>3, <4>1
      <4>3. f[i] <= f[j]
        BY <2>1, <4>2
      <4>4. StoredAt(cache[f[i]]) <= StoredAt(cache[f[j]])
        BY <4>2, <4>3 DEF GraceInv, OrderInv
      <4> QED
        BY <1>6, <4>1, <4>4
    <3> QED
      BY <3>1, <3>2, <3>3
  <2>5. ASSUME NEW i \in 1 .. l + 1, new[i].kind = "yes"
        PROVE  new[i].checkedAt = verdict'[new[i].token].at
    <3>1. CASE i = l + 1
      BY <1>3, <1>8, <2>5, <3>1
    <3>2. CASE i \in 1 .. l
      <4>1. PICK j \in DOMAIN cache : new[i] = cache[j] /\ cache[j].token # t
        BY <1>6, <3>2
      <4>2. cache[j].checkedAt = verdict[cache[j].token].at
        BY <2>5, <4>1 DEF GraceInv, OrderInv
      <4> QED
        BY <1>7, <1>8, <4>1, <4>2
    <3> QED
      BY <1>5, <3>1, <3>2
  <2>6. cache' = new /\ clock' = clock /\ DOMAIN new = 1 .. l + 1
    BY <1>2, <1>3
  <2>7. \A i \in DOMAIN new :
          new[i].kind = "yes" => new[i].checkedAt = verdict'[new[i].token].at
    BY <2>5, <2>6
  <2>8. \A i, j \in DOMAIN new : i <= j => StoredAt(new[i]) <= StoredAt(new[j])
    BY <2>4, <2>6
  <2>9. \A x : StoredAt(x)' = StoredAt(x)
    BY DEF StoredAt
  <2> QED
    BY <2>3, <2>6, <2>7, <2>8 DEF OrderInv, StoredAt
<1>24. KeptInv'
  <2> SUFFICES ASSUME NEW u \in Tokens, verdict'[u].kind = "yes", clock - verdict'[u].at <= Grace
               PROVE  u \in Kept'
    BY DEF KeptInv
  <2>1. CASE u = t
    BY <1>10, <2>1
  <2>2. CASE u # t
    <3>1. verdict[u].kind = "yes" /\ clock - verdict[u].at <= Grace
      BY <1>8, <2>2
    <3>2. u \in Kept
      BY <3>1 DEF GraceInv, KeptInv
    <3>3. PICK j \in DOMAIN cache : cache[j].token = u
      BY <3>2 DEF Kept
    <3>4. CASE \E i \in 1 .. l : f[i] = j
      <4>1. PICK i \in 1 .. l : new[i].token = u
        BY <1>6, <3>3, <3>4
      <4>2. i \in DOMAIN new
        BY <1>3
      <4> QED
        BY <1>2, <4>1, <4>2 DEF Kept
    <3>5. CASE j = 1 /\ Len(cache) = MaxEntries /\ \A h \in DOMAIN cache : cache[h].token # t
      <4>1. t \notin Kept
        BY <3>5 DEF Kept
      <4>2. StoredAt(cache[1]) + Grace < clock
        BY <1>9, <3>5, <4>1, DroppedIsOld DEF GraceInv
      <4>3. cache[1].kind = "yes"
        BY <3>1, <3>3, <3>5 DEF IInv, CacheInv
      <4>4. StoredAt(cache[1]) = verdict[u].at
        BY <3>3, <3>5, <4>3 DEF GraceInv, OrderInv, StoredAt
      <4>5. verdict[u].at \in Nat /\ clock \in Nat /\ Grace \in Nat
        BY GraceNumbers DEF IInv, TypeInv
      <4> QED
        BY <3>1, <4>2, <4>4, <4>5
    <3> QED
      BY <1>3, <2>2, <3>3, <3>4, <3>5
  <2> QED
    BY <2>1, <2>2
<1>25. RecentYesStillWorks'
  BY NothingMissing
<1> QED
  BY <1>21, <1>22, <1>23, <1>24, <1>25 DEF GraceInv

\* It holds at the start.
LEMMA GraceStart == Init => GraceInv
<1> SUFFICES ASSUME Init PROVE GraceInv
  OBVIOUS
<1>1. /\ clock = 0 /\ cache = <<>> /\ last = Nothing /\ outside = <<>>
      /\ thread = [r \in Threads |-> Idle]
      /\ verdict = [t \in Tokens |-> [kind |-> "none", at |-> 0]]
  BY DEF Init
<1>2. <<>> \in Seq(Nat) /\ Len(<<>>) = 0 /\ DOMAIN <<>> = {}
  <2>1. <<>> \in Seq(Nat) /\ Len(<<>>) = 0
    OBVIOUS
  <2>2. DOMAIN <<>> = {}
    OBVIOUS
  <2> QED
    BY <2>1, <2>2
<1>3. Busy = {} /\ Kept = {}
  <2>1. \A r \in Threads : thread[r] = Idle
    BY <1>1
  <2>2. DOMAIN cache = {}
    BY <1>1, <1>2
  <2> QED
    BY <2>1, <2>2 DEF Busy, Kept
<1>4. Paced(<<>>, clock)
  BY <1>2 DEF Paced
<1>5. Times(outside) = <<>>
  BY <1>1 DEF Times
<1>6. EndsWith(<<>>, Times(outside), clock)
  <2>1. 0 \in Nat /\ Len(<<>>) = 0 + Len(<<>>) /\ 1 .. 0 = {}
    BY <1>2
  <2> QED
    BY <1>2, <1>5, <2>1 DEF EndsWith
<1>7. PICK stored \in [Tokens -> Nat], out \in [Threads -> Nat] : TRUE
  <2>1. [t \in Tokens |-> 0] \in [Tokens -> Nat] /\ [r \in Threads |-> 0] \in [Threads -> Nat]
    OBVIOUS
  <2> QED
    BY <2>1
<1>8. Traced(<<>>, stored, out)
  <2>1. DOMAIN cache = {}
    BY <1>1, <1>2
  <2> QED
    BY <1>3, <2>1 DEF Traced
<1>9. TraceInv
  BY <1>2, <1>4, <1>6, <1>8 DEF TraceInv
<1>10. TripInv
  BY <1>3 DEF TripInv
<1>11. OrderInv
  BY <1>1, <1>2 DEF OrderInv
<1>12. KeptInv
  <2>1. \A t \in Tokens : verdict[t].kind = "none"
    BY <1>1
  <2> QED
    BY <2>1 DEF KeptInv
<1>13. RecentYesStillWorks
  BY <1>1 DEF RecentYesStillWorks
<1> QED
  BY <1>9, <1>10, <1>11, <1>12, <1>13 DEF GraceInv

\* A yes comes back and is stored.
LEMMA YesKeepsGrace ==
  ASSUME IInv, GraceInv, NEW r \in Threads, CheckStoresYes(r)
  PROVE  GraceInv'
<1>1. /\ thread[r].at = "decided" /\ thread[r].says = "yes"
      /\ thread' = [thread EXCEPT ![r] = Idle] /\ UNCHANGED <<clock, outside>>
  BY DEF CheckStoresYes, Back, Accepted
<1>2. PICK t \in Staff : t = thread[r].token
  BY <1>1 DEF IInv, SessionInv
<1>3. t \in Tokens /\ clock \in Nat /\ SessionEnd[t] \in Nat /\ CacheTtl \in Nat
  BY Numbers DEF Tokens, IInv, TypeInv
<1>4. PICK ttl \in Nat : cache' = Stored(YesEntry(t, ttl))
  BY <1>2, <1>3 DEF CheckStoresYes
<1>5. PICK e : e = YesEntry(t, ttl)
  OBVIOUS
<1>6. e \in Entries /\ e.token = t /\ e.kind = "yes" /\ e.checkedAt = clock
  <2>1. PICK fresh \in Nat :
          fresh = IF SessionEnd[t] < clock + ttl THEN SessionEnd[t] ELSE clock + ttl
    BY <1>3
  <2>2. e = [token |-> t, kind |-> "yes", checkedAt |-> clock, ends |-> SessionEnd[t],
             freshUntil |-> fresh]
    BY <1>5, <2>1 DEF YesEntry
  <2>3. e \in YesEntries
    BY <1>3, <2>1, <2>2 DEF YesEntries
  <2> QED
    BY <2>2, <2>3 DEF Entries
<1>7. StoredAt(e) = clock
  BY <1>6 DEF StoredAt
<1>8. verdict' = [verdict EXCEPT ![t] = [kind |-> e.kind, at |-> clock]]
  BY <1>2, <1>6 DEF CheckStoresYes
<1>9. last'.what \in {"in", "refused"} /\ thread[r] # Idle
  BY <1>1 DEF CheckStoresYes, Answer, Idle
<1>10. cache' = Stored(e)
  BY <1>4, <1>5
<1> QED
  BY <1>1, <1>3, <1>6, <1>7, <1>8, <1>9, <1>10, StoreKeepsGrace

\* A no comes back and is stored.
LEMMA NoKeepsGrace ==
  ASSUME IInv, GraceInv, NEW r \in Threads, CheckStoresNo(r)
  PROVE  GraceInv'
<1>1. /\ thread[r].at = "decided"
      /\ thread' = [thread EXCEPT ![r] = Idle] /\ UNCHANGED <<clock, outside>>
  BY DEF CheckStoresNo, Back
<1>2. PICK t \in Tokens : t = thread[r].token
  BY <1>1, TripFields DEF IInv, TypeInv
<1>3. PICK e : e = NoEntry(t)
  OBVIOUS
<1>4. e \in Entries /\ e.token = t /\ e.kind = "no" /\ e.until = clock + NegTtl
  <2>1. clock + NegTtl \in Nat
    BY Numbers DEF IInv, TypeInv
  <2>2. e = [token |-> t, kind |-> "no", until |-> clock + NegTtl]
    BY <1>3 DEF NoEntry
  <2>3. e \in NoEntries
    BY <2>1, <2>2 DEF NoEntries
  <2> QED
    BY <2>2, <2>3 DEF Entries
<1>5. StoredAt(e) = clock
  <2>1. clock \in Nat /\ NegTtl \in Nat
    BY Numbers DEF IInv, TypeInv
  <2>2. (clock + NegTtl) - NegTtl = clock
    BY <2>1
  <2> QED
    BY <1>4, <2>2 DEF StoredAt
<1>6. cache' = Stored(e)
  BY <1>2, <1>3 DEF CheckStoresNo
<1>7. verdict' = [verdict EXCEPT ![t] = [kind |-> e.kind, at |-> clock]]
  BY <1>2, <1>4 DEF CheckStoresNo
<1>8. last'.what \in {"in", "refused"} /\ thread[r] # Idle
  BY <1>1 DEF CheckStoresNo, Answer, Idle
<1>9. e.kind # "yes"
  BY <1>4
<1> QED
  BY <1>1, <1>4, <1>5, <1>6, <1>7, <1>8, <1>9, StoreKeepsGrace

\* Every step keeps it.
LEMMA GraceKeeps == IInv /\ GraceInv /\ [Next]_vars => GraceInv'
<1> SUFFICES ASSUME IInv, GraceInv, [Next]_vars PROVE GraceInv'
  OBVIOUS
<1>1. ASSUME NEW r \in Threads, Check(r) PROVE GraceInv'
  <2>1. PICK t \in Tokens, c \in Clients \cup {NoClient} :
          CheckHit(r, t) \/ CheckDenied(r, t, c) \/ CheckAsk(r, t, c)
    BY <1>1 DEF Check
  <2>2. CASE CheckAsk(r, t, c)
    <3>1. /\ thread[r] = Idle /\ SlotFree(c) /\ Ask(r, "check", t, c)
          /\ UNCHANGED <<clock, mind, cache, jar, verdict>>
      BY <2>2 DEF CheckAsk
    <3> QED
      BY <3>1, AskKeepsGrace
  <2>3. CASE CheckHit(r, t) \/ CheckDenied(r, t, c)
    BY <2>3, QuietSteps
  <2> QED
    BY <2>1, <2>2, <2>3
<1>2. ASSUME NEW r \in Threads, NEW t \in Staff, NEW c \in Clients, RedeemAsk(r, t, c)
      PROVE  GraceInv'
  <2>1. /\ thread[r] = Idle /\ SlotFree(c) /\ Ask(r, "redeem", t, c)
        /\ UNCHANGED <<clock, mind, cache, jar, verdict>>
    BY <1>2 DEF RedeemAsk
  <2>2. t \in Tokens
    BY DEF Tokens
  <2> QED
    BY <2>1, <2>2, AskKeepsGrace
<1>3. ASSUME NEW r \in Threads, KloudcDecides(r) PROVE GraceInv'
  BY <1>3, OutsideSteps
<1>4. ASSUME NEW r \in Threads, Return(r) PROVE GraceInv'
  <2>1. CASE CheckStoresYes(r)
    BY <2>1, YesKeepsGrace
  <2>2. CASE CheckStoresNo(r)
    BY <2>2, NoKeepsGrace
  <2>3. CASE CheckUnreached(r) \/ RedeemYes(r) \/ RedeemFails(r)
    <3>1. thread[r].at # "idle"
      BY <2>3 DEF CheckUnreached, RedeemYes, RedeemFails, Back
    <3>2. PICK t \in Tokens : t = thread[r].token
      BY <3>1, TripFields DEF IInv, TypeInv
    <3> QED
      BY <2>3, <3>2, QuietSteps
  <2> QED
    BY <1>4, <2>1, <2>2, <2>3 DEF Return
<1>5. ASSUME UseCookie PROVE GraceInv'
  BY <1>5, OutsideSteps
<1>6. ASSUME NEW t \in Staff, ChangeMind(t) PROVE GraceInv'
  BY <1>6, OutsideSteps
<1>7. ASSUME Tick PROVE GraceInv'
  BY <1>7, TickKeepsGrace
<1>8. CASE UNCHANGED vars
  <2>1. UNCHANGED <<clock, cache, outside, verdict, thread, last>>
    BY <1>8 DEF vars, site, history
  <2>2. RecentYesStillWorks'
    BY <2>1 DEF GraceInv, RecentYesStillWorks
  <2> QED
    BY <2>1, <2>2, NothingStored
<1>9. CASE Next
  BY <1>1, <1>2, <1>3, <1>4, <1>5, <1>6, <1>7, <1>9 DEF Next
<1> QED
  BY <1>8, <1>9

\* A recent yes is never given up while its session lasts: neither an outage nor
\* a flood of made-up tokens, which uses up the calls, pushes it out of the cache.
THEOREM GraceOutlivesAFlood == Spec => []RecentYesStillWorks
<1>1. Init => GraceInv
  BY GraceStart
<1>2. IInv /\ GraceInv /\ [Next]_vars => GraceInv'
  BY GraceKeeps
<1>3. GraceInv => RecentYesStillWorks
  BY DEF GraceInv
<1> QED
  BY <1>1, <1>2, <1>3, Inductive, PTL DEF Spec
=============================================================================
