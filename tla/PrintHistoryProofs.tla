------------------------- MODULE PrintHistoryProofs -------------------------
(***************************************************************************)
(* The print history shows the price that is on the label, and the warning *)
(* of a reprint is right, for any prices, any windows of time and any      *)
(* number of labels, changes and pauses.                                   *)
(***************************************************************************)
EXTENDS PrintHistory, FiniteSetTheorems, TLAPS

\* What a row of either table may hold.
Values == Prices \cup SalePrices \cup {None}
Variants == {"standard", "sale", None}
LogRows == [old : Prices, new : Prices, at : Nat, source : {"sync", "file"},
            reviewed : Nat \cup {None}, printed : BOOLEAN]
JobRows == [reason : {"price_change", "manual"}, variant : Variants, at : Nat, failed : BOOLEAN,
            price : Values, change : Nat \cup {None}, covers : SUBSET Nat, asked : Values,
            base : BOOLEAN, drawn : SUBSET Values, moved : BOOLEAN]
Works == [kind : {"none", "pass", "panel", "scan"}, step : {"idle", "claimed", "read", "queued"},
          rows : SUBSET Nat, read : Values, variant : Variants]

\* Every variable has its type.
TypeInv ==
  /\ clock \in Nat /\ price \in Prices /\ sale \in SalePrices \cup {None}
  /\ log \in Seq(LogRows) /\ jobs \in Seq(JobRows) /\ work \in Works
  /\ upgraded \in BOOLEAN /\ unlogged \in BOOLEAN

\* Rows of the price log are in the past, no label is marked on one that waits, and
\* the newest says what is on file unless a price was set by hand.
LogInv ==
  /\ \A v \in DOMAIN log : log[v].at < clock
  /\ \A v \in DOMAIN log : log[v].reviewed = None => ~log[v].printed
  /\ ~unlogged /\ log # <<>> => price = log[Len(log)].new

\* What a price log tells of the price at a time.
PriceThen(list, now, at) ==
  LET before == {v \in DOMAIN list : list[v].at <= at}
  IN  IF before # {} THEN list[Newest(before)].new
      ELSE IF list # <<>> THEN list[1].old ELSE now

\* Unless the price moved on the way, the recorded price and all drawn labels are
\* at the effective price of the time of the INSERT.
LabelInv ==
  \A j \in DOMAIN jobs :
    /\ jobs[j].at < clock
    /\ jobs[j].price = None => jobs[j].change = None
    /\ ~jobs[j].moved => /\ jobs[j].price # None => jobs[j].price = jobs[j].asked
                         /\ \A s \in jobs[j].drawn : s = jobs[j].asked

\* Without a sale that is what the price log tells of that time, until a price
\* moves when no log says so.
LegacyInv ==
  \A j \in DOMAIN jobs :
    ~unlogged /\ jobs[j].base => jobs[j].asked = PriceThen(log, price, jobs[j].at)

\* What a pass, a panel click or a scan has read and not yet marked: a pass has
\* claimed its changes together, a click has one change.
WorkInv ==
  /\ work.rows \subseteq DOMAIN log
  /\ work.kind \in {"none", "scan"} => work.rows = {}
  /\ work.kind = "pass" => \A v, w \in work.rows : /\ log[v].reviewed = log[w].reviewed
                                                  /\ log[v].printed = log[w].printed
                                                  /\ log[v].reviewed # None
  /\ work.kind = "panel" => \A v, w \in work.rows : v = w
  /\ work.step = "read" => work.read # None

\* The changes a label covers were logged before it, and were reviewed, and are
\* marked, together, so that no distance in time tells one from another.
CoverInv ==
  \A j \in DOMAIN jobs :
    /\ \A v \in jobs[j].covers : v \in DOMAIN log /\ log[v].at <= jobs[j].at
    /\ \A v, w \in jobs[j].covers : v # w =>
         /\ log[v].reviewed = log[w].reviewed /\ log[v].reviewed # None
         /\ log[v].printed = log[w].printed
         /\ v \in work.rows <=> w \in work.rows

\* The label on the shelf is one that was drawn for its job.
ShelfInv == out # None => out \in DOMAIN jobs /\ shelf \in jobs[out].drawn

\* The inductive invariant.
IInv == TypeInv /\ LogInv /\ LabelInv /\ LegacyInv /\ WorkInv /\ CoverInv /\ ShelfInv

-----------------------------------------------------------------------------
(* Rows and lists.                                                          *)

\* The last of some places of a list.
LEMMA NewestIs ==
  ASSUME NEW n \in Nat, NEW S \in SUBSET (1 .. n), S # {}
  PROVE  Newest(S) \in S /\ \A w \in S : w <= Newest(S)
<1> DEFINE above == {x .. n : x \in S}
<1>1. above # {} /\ above \subseteq FiniteSubsetsOf(Nat)
  <2>1. \A x \in S : x .. n \in SUBSET Nat /\ IsFiniteSet(x .. n)
    BY FS_Interval
  <2> QED
    BY <2>1 DEF FiniteSubsetsOf
<1>2. PICK X \in above : \A Y \in above : <<Y, X>> \notin StrictSubsetOrdering(Nat)
  BY <1>1, FS_StrictSubsetOrderingWellFounded, WFMin
<1>3. PICK x \in S : X = x .. n
  OBVIOUS
<1>4. ASSUME NEW y \in S PROVE y <= x
  <2> SUFFICES ASSUME x < y PROVE FALSE
    OBVIOUS
  <2>1. y .. n \in above /\ y .. n \in SUBSET Nat /\ x .. n \in SUBSET Nat
    OBVIOUS
  <2>2. y .. n \subseteq x .. n
    OBVIOUS
  <2>3. x \in x .. n /\ x \notin y .. n
    OBVIOUS
  <2> QED
    BY <1>2, <1>3, <2>1, <2>2, <2>3 DEF StrictSubsetOrdering
<1> QED
  BY <1>4 DEF Newest

\* What is assumed of the constants, one by one.
LEMMA Numbers ==
  /\ None \notin Nat /\ None \notin Prices /\ None \notin SalePrices
  /\ MatchBefore \in Nat /\ MatchAfter \in Nat /\ Apart \in Nat
BY PrintHistoryAssumption

-----------------------------------------------------------------------------
(* What staff are told.                                                     *)

\* The price log's price of a time is what is worked out for an old label of the
\* standard template.
LEMMA InferredThen ==
  ASSUME TypeInv, NEW j \in DOMAIN jobs, jobs[j].variant = "standard"
  PROVE  InferPrice(j) = PriceThen(log, price, jobs[j].at)
<1> DEFINE before == {v \in DOMAIN log : log[v].at <= jobs[j].at}
           after == DOMAIN log \ before
<1>1. ~OnSaleNow(j)
  BY DEF OnSaleNow
<1>2. before = {} => (after # {} <=> log # <<>>)
  <2>1. log \in Seq(LogRows)
    BY DEF TypeInv
  <2>2. log # <<>> <=> DOMAIN log # {}
    BY <2>1
  <2> QED
    BY <2>2
<1> QED
  BY <1>1, <1>2 DEF InferPrice, PriceThen

\* Of the changes of an old price-change label, the one found is the newest that
\* was logged before.
LEMMA MatchedThen ==
  ASSUME TypeInv, CoverInv, NEW j \in DOMAIN jobs,
         Candidates(j) # {}, ~Ambiguous(j), ~Superseded(j)
  PROVE  /\ MatchLegacy(j) \in DOMAIN log
         /\ log[MatchLegacy(j)].new = PriceThen(log, price, jobs[j].at)
<1> DEFINE before == {v \in DOMAIN log : log[v].at <= jobs[j].at}
<1>1. PICK n \in Nat : DOMAIN log = 1 .. n
  BY DEF TypeInv
<1>2. jobs[j].covers \subseteq before /\ Candidates(j) \subseteq jobs[j].covers
  BY DEF CoverInv, Ambiguous
<1>3. \A v \in before : \E w \in jobs[j].covers : v <= w
  <2>1. \A v \in before : \E w \in jobs[j].covers : ~(w < v)
    BY DEF Superseded
  <2>2. before \subseteq Nat
    BY <1>1
  <2> QED
    BY <1>2, <2>1, <2>2
<1>4. \A v, w \in jobs[j].covers : v = w \/ (log[v].reviewed = log[w].reviewed
                                             /\ log[v].printed = log[w].printed)
  BY DEF CoverInv
<1>5. Candidates(j) = jobs[j].covers
  <2> SUFFICES ASSUME NEW w \in jobs[j].covers PROVE w \in Candidates(j)
    BY <1>2
  <2>1. PICK v \in Candidates(j) : v \in jobs[j].covers
    BY <1>2
  <2>2. CASE v = w
    BY <2>1, <2>2
  <2>3. CASE log[v].reviewed = log[w].reviewed /\ log[v].printed = log[w].printed
    BY <1>2, <2>1, <2>3 DEF Candidates
  <2> QED
    BY <1>4, <2>1, <2>2, <2>3
<1>6. PICK x : x = Newest(jobs[j].covers) /\ x \in jobs[j].covers /\ \A w \in jobs[j].covers : w <= x
  <2>1. jobs[j].covers \in SUBSET (1 .. n) /\ jobs[j].covers # {}
    BY <1>1, <1>2
  <2> QED
    BY <2>1, NewestIs
<1>7. \A v, w \in jobs[j].covers : Gap(v, j) = Gap(w, j)
  BY <1>4 DEF Gap
<1>8. \A v \in jobs[j].covers : ~(Gap(v, j) < Gap(v, j))
  <2> SUFFICES ASSUME NEW v \in Candidates(j) PROVE ~(Gap(v, j) < Gap(v, j))
    BY <1>5
  <2>1. PICK row \in LogRows : row = log[v] /\ row.reviewed # None
    BY DEF TypeInv, Candidates
  <2>2. row.reviewed \in Nat
    BY <2>1 DEF LogRows
  <2>3. jobs[j].at \in Nat
    <3>1. jobs[j] \in JobRows
      BY DEF TypeInv
    <3> QED
      BY <3>1 DEF JobRows
  <2>4. PICK a \in Nat, b \in Nat : a = row.reviewed /\ b = jobs[j].at
    BY <2>2, <2>3
  <2>5. Gap(v, j) \in Int
    BY <2>1, <2>4 DEF Gap
  <2> QED
    BY <2>5
<1> DEFINE Best(v) == /\ v \in Candidates(j)
                      /\ \A w \in Candidates(j) :
                           Gap(v, j) < Gap(w, j) \/ (Gap(v, j) = Gap(w, j) /\ w <= v)
<1>9. Best(x)
  BY <1>5, <1>6, <1>7
<1>10. \A v : Best(v) => v = x
  <2> SUFFICES ASSUME NEW v \in jobs[j].covers, \A w \in jobs[j].covers : w <= v PROVE v = x
    BY <1>5, <1>7, <1>8
  <2>1. v \in Nat /\ x \in Nat
    BY <1>1, <1>2, <1>6
  <2> QED
    BY <1>6, <2>1
<1>11. MatchLegacy(j) = x
  BY <1>9, <1>10 DEF MatchLegacy
<1>12. Newest(before) = x
  <2>1. before \in SUBSET (1 .. n) /\ x \in before
    BY <1>1, <1>2, <1>6
  <2>2. Newest(before) \in before /\ \A w \in before : w <= Newest(before)
    BY <2>1, NewestIs
  <2>3. PICK w \in jobs[j].covers : Newest(before) <= w
    BY <1>3, <2>2
  <2>4. w <= x /\ x <= Newest(before) /\ w \in Nat /\ x \in Nat /\ Newest(before) \in Nat
    BY <1>1, <1>2, <1>6, <2>1, <2>2
  <2> QED
    BY <2>3, <2>4
<1>13. PriceThen(log, price, jobs[j].at) = log[x].new
  BY <1>2, <1>6, <1>12 DEF PriceThen
<1> QED
  BY <1>2, <1>6, <1>11, <1>13

\* The price that is told of a job is the one on its labels.
LEMMA ToldIsShown ==
  ASSUME IInv, NEW j \in DOMAIN jobs, ~jobs[j].moved, Knowable(j), NEW s \in jobs[j].drawn
  PROVE  PriceOf(j) = s
<1>1. s = jobs[j].asked
  BY DEF IInv, LabelInv
<1>2. CASE jobs[j].price # None
  BY <1>1, <1>2 DEF IInv, LabelInv, PriceOf
<1>3. CASE jobs[j].price = None
  <2>1. /\ jobs[j].base /\ jobs[j].variant = "standard" /\ ~unlogged
        /\ jobs[j].reason = "price_change" => ~Ambiguous(j) /\ ~Superseded(j)
    BY <1>3 DEF Knowable
  <2>2. jobs[j].change = None /\ jobs[j].asked = PriceThen(log, price, jobs[j].at)
    BY <1>3, <2>1 DEF IInv, LabelInv, LegacyInv
  <2>3. ~OnSaleNow(j)
    BY <2>1 DEF OnSaleNow
  <2>4. CASE ChangeOf(j) = None
    <3>1. PriceOf(j) = InferPrice(j)
      BY <1>3, <2>4 DEF PriceOf
    <3> QED
      BY <1>1, <2>1, <2>2, <3>1, InferredThen DEF IInv
  <2>5. CASE ChangeOf(j) # None
    <3>1. jobs[j].reason = "price_change" /\ ChangeOf(j) = MatchLegacy(j)
      BY <2>2, <2>5 DEF ChangeOf
    <3>2. Candidates(j) # {}
      BY <2>5, <3>1 DEF MatchLegacy
    <3>3. log[MatchLegacy(j)].new = PriceThen(log, price, jobs[j].at)
      BY <2>1, <3>1, <3>2, MatchedThen DEF IInv
    <3>4. PriceOf(j) = log[ChangeOf(j)].new
      BY <1>3, <2>3, <2>5 DEF PriceOf
    <3> QED
      BY <1>1, <2>2, <3>1, <3>3, <3>4
  <2> QED
    BY <2>4, <2>5
<1> QED
  BY <1>2, <1>3

\* The two properties follow from the invariant.
LEMMA HistoryFollows ==
  ASSUME IInv PROVE HistoryShowsTheLabel
<1>1. PICK n \in Nat : DOMAIN jobs = 1 .. n
  BY DEF IInv, TypeInv
<1>2. PICK rows : rows = [j \in DOMAIN jobs |->
                            [id |-> j, reason |-> jobs[j].reason, price |-> PriceOf(j),
                             change |-> ChangeOf(j)]]
  OBVIOUS
<1>3. Len(rows) = n
  BY <1>1, <1>2
<1>4. Listed = [i \in 1 .. n |-> rows[(n - i) + 1]]
  BY <1>2, <1>3 DEF Listed, Reverse
<1>5. ASSUME NEW i \in DOMAIN Listed
      PROVE  /\ Listed[i].id \in DOMAIN jobs
             /\ Listed[i].price = PriceOf(Listed[i].id)
  <2>1. PICK j \in DOMAIN jobs : j = (n - i) + 1
    BY <1>1, <1>4
  <2>2. Listed[i] = rows[j]
    BY <1>4, <2>1
  <2>3. rows[j].id = j /\ rows[j].price = PriceOf(j)
    BY <1>2
  <2> QED
    BY <2>2, <2>3
<1> QED
  BY <1>5, ToldIsShown DEF HistoryShowsTheLabel

\* The same of the warning.
LEMMA WarningFollows ==
  ASSUME IInv PROVE WarningIsTrue
<1> DEFINE printed == {j \in DOMAIN jobs : ~jobs[j].failed}
<1> SUFFICES ASSUME out # None, ~jobs[out].failed, ~jobs[out].moved, Knowable(out),
                    \A j \in DOMAIN jobs : j > out => jobs[j].failed
             PROVE  AlreadyAtThisPrice <=> shelf = Effective
  BY DEF WarningIsTrue
<1>1. PICK n \in Nat : DOMAIN jobs = 1 .. n
  BY DEF IInv, TypeInv
<1>2. out \in DOMAIN jobs /\ shelf \in jobs[out].drawn
  BY DEF IInv, ShelfInv
<1>3. Newest(printed) = out
  <2>1. printed \in SUBSET (1 .. n) /\ out \in printed
    BY <1>1, <1>2
  <2>2. Newest(printed) \in printed /\ \A w \in printed : w <= Newest(printed)
    BY <2>1, NewestIs
  <2>3. ~(Newest(printed) > out) /\ out <= Newest(printed)
    BY <2>1, <2>2
  <2>4. Newest(printed) \in Nat /\ out \in Nat
    BY <1>1, <1>2, <2>2
  <2> QED
    BY <2>3, <2>4
<1>4. LastPrint = out
  <2>1. printed # {}
    BY <1>2
  <2> QED
    BY <1>3, <2>1 DEF LastPrint
<1>5. PriceOf(out) = shelf
  BY <1>2, ToldIsShown
<1> QED
  BY <1>4, <1>5 DEF AlreadyAtThisPrice, Matches

-----------------------------------------------------------------------------
(* What the steps leave as it is.                                           *)

\* Every row of the price log keeps what was logged.
LogKept ==
  /\ DOMAIN log' = DOMAIN log
  /\ \A v \in DOMAIN log :
       log'[v].at = log[v].at /\ log'[v].old = log[v].old /\ log'[v].new = log[v].new

\* A row that goes with no other in any label.
Alone(v) == log[v].reviewed = None \/ (work.kind = "panel" /\ v \in work.rows)

\* The fields of a row and of a job.
LEMMA RowFields ==
  ASSUME NEW row \in LogRows
  PROVE  /\ row.old \in Prices /\ row.new \in Prices /\ row.at \in Nat
         /\ row.reviewed \in Nat \cup {None} /\ row.printed \in BOOLEAN
BY DEF LogRows

\* The same of a job.
LEMMA JobFields ==
  ASSUME NEW job \in JobRows
  PROVE  /\ job.at \in Nat /\ job.moved \in BOOLEAN /\ job.failed \in BOOLEAN
         /\ job.covers \in SUBSET Nat /\ job.base \in BOOLEAN /\ job.drawn \in SUBSET Values
BY DEF JobRows

\* A list made place by place.
LEMMA ListOf ==
  ASSUME NEW S, NEW n \in Nat, NEW f \in [1 .. n -> S]
  PROVE  f \in Seq(S) /\ Len(f) = n /\ DOMAIN f = 1 .. n
OBVIOUS

\* Some rows are reviewed now.
LEMMA Reviewed ==
  ASSUME TypeInv, NEW vs, NEW p \in BOOLEAN, Review(vs, p)
  PROVE  /\ log' \in Seq(LogRows) /\ LogKept
         /\ \A v \in DOMAIN log : v \in vs => log'[v].reviewed = clock
         /\ \A v \in DOMAIN log : v \notin vs => log'[v] = log[v]
<1>1. PICK n \in Nat : DOMAIN log = 1 .. n
  BY DEF TypeInv
<1>2. \A v \in DOMAIN log : log[v] \in LogRows
  BY DEF TypeInv
<1>3. ASSUME NEW row \in LogRows, NEW b \in BOOLEAN
      PROVE  /\ [row EXCEPT !.reviewed = clock, !.printed = b] \in LogRows
             /\ [row EXCEPT !.reviewed = clock, !.printed = b].reviewed = clock
             /\ [row EXCEPT !.reviewed = clock, !.printed = b].at = row.at
             /\ [row EXCEPT !.reviewed = clock, !.printed = b].old = row.old
             /\ [row EXCEPT !.reviewed = clock, !.printed = b].new = row.new
  BY DEF LogRows, TypeInv
<1>4. /\ log' = [v \in 1 .. n |-> log'[v]]
      /\ \A v \in DOMAIN log : log'[v] =
           IF v \in vs THEN [log[v] EXCEPT !.reviewed = clock, !.printed = log[v].printed \/ p]
                       ELSE log[v]
  BY <1>1 DEF Review
<1>5. ASSUME NEW v \in DOMAIN log, v \in vs
      PROVE  /\ log'[v] \in LogRows /\ log'[v].reviewed = clock
             /\ log'[v].at = log[v].at /\ log'[v].old = log[v].old /\ log'[v].new = log[v].new
  <2>1. PICK b \in BOOLEAN : log'[v] = [log[v] EXCEPT !.reviewed = clock, !.printed = b]
    <3>1. (log[v].printed \/ p) \in BOOLEAN
      OBVIOUS
    <3>2. log'[v] = [log[v] EXCEPT !.reviewed = clock, !.printed = (log[v].printed \/ p)]
      BY <1>4, <1>5
    <3> QED
      BY <3>1, <3>2
  <2>2. PICK row \in LogRows : row = log[v]
    BY <1>2
  <2>3. PICK new : new = [row EXCEPT !.reviewed = clock, !.printed = b]
    OBVIOUS
  <2>4. new \in LogRows /\ new.reviewed = clock
        /\ new.at = row.at /\ new.old = row.old /\ new.new = row.new
    BY <1>3, <2>3
  <2>5. log'[v] = new
    BY <2>1, <2>2, <2>3
  <2> QED
    BY <2>2, <2>4, <2>5
<1>6. \A v \in DOMAIN log : v \notin vs => log'[v] = log[v]
  BY <1>4
<1>7. log' \in [1 .. n -> LogRows]
  BY <1>1, <1>2, <1>4, <1>5, <1>6
<1>8. log' \in Seq(LogRows) /\ DOMAIN log' = 1 .. n
  BY <1>7, ListOf
<1> QED
  BY <1>1, <1>5, <1>6, <1>8 DEF LogKept

\* The price of a time does not change when rows are reviewed ...
LEMMA ThenKept ==
  ASSUME TypeInv, LogKept, log' \in Seq(LogRows), NEW at
  PROVE  PriceThen(log', price, at) = PriceThen(log, price, at)
<1> DEFINE before == {v \in DOMAIN log : log[v].at <= at}
           later == {v \in DOMAIN log' : log'[v].at <= at}
<1>1. later = before
  BY DEF LogKept
<1>2. log' = <<>> <=> log = <<>>
  <2>1. log \in Seq(LogRows) /\ DOMAIN log' = DOMAIN log
    BY DEF TypeInv, LogKept
  <2> QED
    BY <2>1
<1>3. CASE before # {}
  <2>1. PICK n \in Nat : before \in SUBSET (1 .. n) /\ DOMAIN log = 1 .. n
    BY DEF TypeInv
  <2>2. Newest(before) \in DOMAIN log
    BY <1>3, <2>1, NewestIs
  <2> QED
    BY <1>1, <1>3, <2>2 DEF PriceThen, LogKept
<1>4. CASE before = {} /\ log # <<>>
  <2>1. 1 \in DOMAIN log
    <3>1. log \in Seq(LogRows)
      BY DEF TypeInv
    <3> QED
      BY <1>4, <3>1
  <2> QED
    BY <1>1, <1>2, <1>4, <2>1 DEF PriceThen, LogKept
<1>5. CASE before = {} /\ log = <<>>
  BY <1>1, <1>2, <1>5 DEF PriceThen
<1> QED
  BY <1>3, <1>4, <1>5

\* ... nor when a move is logged later.
LEMMA ThenGrows ==
  ASSUME TypeInv, NEW p, NEW row \in LogRows, log' = Append(log, row), row.at = clock,
         log # <<>> \/ row.old = price, NEW at \in Nat, at < clock
  PROVE  PriceThen(log', p, at) = PriceThen(log, price, at)
<1>1. PICK n \in Nat : n = Len(log) /\ DOMAIN log = 1 .. n
  BY DEF TypeInv
<1>3. /\ DOMAIN log' = 1 .. n + 1 /\ log'[n + 1] = row
      /\ \A v \in 1 .. n : log'[v] = log[v]
  <2>1. log \in Seq(LogRows) /\ log' = Append(log, row)
    BY DEF TypeInv
  <2>2. Len(log') = n + 1 /\ log' \in Seq(LogRows)
    BY <1>1, <2>1
  <2> QED
    BY <1>1, <2>1, <2>2
<1> DEFINE before == {v \in DOMAIN log : log[v].at <= at}
           later == {v \in DOMAIN log' : log'[v].at <= at}
<1>4. later = before
  <2>1. \A v \in 1 .. n + 1 : v \in 1 .. n \/ v = n + 1
    OBVIOUS
  <2>2. ~(clock <= at)
    BY DEF TypeInv
  <2> QED
    BY <1>1, <1>3, <2>1, <2>2
<1>5. 1 \in DOMAIN log' /\ log' # <<>>
  BY <1>3
<1>6. CASE before # {}
  <2>1. Newest(before) \in 1 .. n
    BY <1>1, <1>6, NewestIs
  <2> QED
    BY <1>3, <1>4, <1>6, <2>1 DEF PriceThen
<1>7. CASE before = {} /\ log # <<>>
  <2>1. 1 \in 1 .. n
    <3>1. log \in Seq(LogRows)
      BY DEF TypeInv
    <3> QED
      BY <1>1, <1>7, <3>1
  <2> QED
    BY <1>3, <1>4, <1>5, <1>7, <2>1 DEF PriceThen
<1>8. CASE before = {} /\ log = <<>>
  <2>1. n = 0
    BY <1>1, <1>8
  <2>2. log'[1] = row
    BY <1>3, <2>1
  <2> QED
    BY <1>4, <1>5, <1>8, <2>2 DEF PriceThen
<1> QED
  BY <1>6, <1>7, <1>8

\* The price of now is the price.
LEMMA ThenNow ==
  ASSUME TypeInv, LogInv, ~unlogged
  PROVE  PriceThen(log, price, clock) = price
<1>1. PICK n \in Nat : n = Len(log) /\ DOMAIN log = 1 .. n
  BY DEF TypeInv
<1> DEFINE before == {v \in DOMAIN log : log[v].at <= clock}
<1>2. before = 1 .. n
  <2>1. \A v \in 1 .. n : log[v].at <= clock
    <3> SUFFICES ASSUME NEW v \in 1 .. n PROVE log[v].at <= clock
      OBVIOUS
    <3>1. log[v].at < clock /\ log[v] \in LogRows /\ clock \in Nat
      BY <1>1 DEF LogInv, TypeInv
    <3> QED
      BY <3>1, RowFields
  <2> QED
    BY <1>1, <2>1
<1>3. CASE log # <<>>
  <2>1. n \in before /\ before \in SUBSET (1 .. n)
    <3>1. log \in Seq(LogRows)
      BY DEF TypeInv
    <3>2. n # 0
      BY <1>1, <1>3, <3>1
    <3> QED
      BY <1>2, <3>2
  <2>2. Newest(before) \in before /\ n <= Newest(before)
    BY <2>1, NewestIs
  <2>3. Newest(before) = n
    BY <1>2, <2>2
  <2> QED
    BY <1>1, <1>3, <2>1, <2>3 DEF PriceThen, LogInv
<1>4. CASE log = <<>>
  <2>1. before = {}
    BY <1>1, <1>2, <1>4
  <2> QED
    BY <1>4, <2>1 DEF PriceThen
<1> QED
  BY <1>3, <1>4

\* The log, when rows are reviewed.
LEMMA LogMarked ==
  ASSUME TypeInv, LogInv, LogKept, log' \in Seq(LogRows),
         \A v \in DOMAIN log : log'[v].reviewed = None => ~log'[v].printed, clock <= clock', clock' \in Nat,
         UNCHANGED <<price, unlogged>>
  PROVE  LogInv'
<1>1. PICK n \in Nat : n = Len(log) /\ DOMAIN log = 1 .. n
  BY DEF TypeInv
<1>2. DOMAIN log' = 1 .. n /\ Len(log') = n
  <2>1. DOMAIN log' = 1 .. n
    BY <1>1 DEF LogKept
  <2> QED
    BY <2>1
<1>3. ASSUME NEW v \in DOMAIN log PROVE log'[v].at < clock'
  <2>1. log[v] \in LogRows /\ log[v].at < clock /\ clock \in Nat
    BY DEF LogInv, TypeInv
  <2>2. log'[v].at = log[v].at
    BY DEF LogKept
  <2> QED
    BY <2>1, <2>2, RowFields
<1>4. ASSUME ~unlogged, log' # <<>> PROVE price = log'[n].new
  <2>1. n # 0 /\ log # <<>>
    BY <1>1, <1>2, <1>4 DEF TypeInv
  <2>2. price = log[n].new
    BY <1>1, <1>4, <2>1 DEF LogInv
  <2>3. n \in DOMAIN log
    BY <1>1, <2>1
  <2> QED
    BY <2>2, <2>3 DEF LogKept
<1>5. \A v \in DOMAIN log' : log'[v].reviewed = None => ~log'[v].printed
  BY <1>1, <1>2
<1> QED
  BY <1>1, <1>2, <1>3, <1>4, <1>5 DEF LogInv

\* Labels that go on as they are, while the price log tells of older times what it
\* told, or lost it.
LEMMA LabelsKept ==
  ASSUME IInv, UNCHANGED jobs, clock <= clock', clock' \in Nat,
         \/ unlogged'
         \/ /\ unlogged' = unlogged
            /\ \A at \in Nat : at < clock => PriceThen(log', price', at) = PriceThen(log, price, at)
  PROVE  LabelInv' /\ LegacyInv'
<1>1. ASSUME NEW j \in DOMAIN jobs PROVE jobs[j].at \in Nat /\ jobs[j].at < clock
  <2>1. jobs[j] \in JobRows /\ jobs[j].at < clock
    BY DEF IInv, TypeInv, LabelInv
  <2> QED
    BY <2>1, JobFields
<1>2. LabelInv'
  <2>1. \A j \in DOMAIN jobs : jobs[j].at < clock'
    BY <1>1 DEF IInv, TypeInv
  <2> QED
    BY <2>1 DEF IInv, LabelInv
<1>3. LegacyInv'
  <2> SUFFICES ASSUME NEW j \in DOMAIN jobs, ~unlogged', jobs[j].base
               PROVE  jobs[j].asked = PriceThen(log', price', jobs[j].at)
    BY DEF LegacyInv
  <2>1. PriceThen(log', price', jobs[j].at) = PriceThen(log, price, jobs[j].at)
    BY <1>1
  <2> QED
    BY <2>1 DEF IInv, LegacyInv
<1> QED
  BY <1>2, <1>3

\* The changes of labels, when only rows change that go with no other.
LEMMA CoversKept ==
  ASSUME CoverInv, UNCHANGED jobs, DOMAIN log \subseteq DOMAIN log',
         \A v \in DOMAIN log : /\ log'[v].at = log[v].at
                               /\ log'[v] = log[v] \/ Alone(v),
         WorkInv,
         \/ work'.rows = work.rows
         \/ \A v \in DOMAIN log : Alone(v) \/ v \notin work'.rows
  PROVE  CoverInv'
<1> SUFFICES ASSUME NEW j \in DOMAIN jobs
             PROVE  /\ \A v \in jobs[j].covers : v \in DOMAIN log' /\ log'[v].at <= jobs[j].at
                    /\ \A v, w \in jobs[j].covers : v # w =>
                         /\ log'[v].reviewed = log'[w].reviewed /\ log'[v].reviewed # None
                         /\ log'[v].printed = log'[w].printed
                         /\ v \in work'.rows <=> w \in work'.rows
  BY DEF CoverInv
<1>1. \A v \in jobs[j].covers : v \in DOMAIN log /\ log[v].at <= jobs[j].at
  BY DEF CoverInv
<1>2. ASSUME NEW v \in jobs[j].covers, NEW w \in jobs[j].covers, v # w
      PROVE  ~Alone(v) /\ ~Alone(w)
  <2>1. /\ log[v].reviewed # None /\ log[w].reviewed # None
        /\ v \in work.rows <=> w \in work.rows
    BY <1>2 DEF CoverInv
  <2>2. work.kind = "panel" => \A x, y \in work.rows : x = y
    BY DEF WorkInv
  <2> QED
    BY <1>2, <2>1, <2>2 DEF Alone
<1>3. ASSUME NEW v \in jobs[j].covers, NEW w \in jobs[j].covers, v # w
      PROVE  /\ log'[v].reviewed = log'[w].reviewed /\ log'[v].reviewed # None
             /\ log'[v].printed = log'[w].printed
             /\ v \in work'.rows <=> w \in work'.rows
  <2>1. log'[v] = log[v] /\ log'[w] = log[w]
    BY <1>1, <1>2, <1>3
  <2>2. v \in work'.rows <=> w \in work'.rows
    <3>1. v \in work.rows <=> w \in work.rows
      BY <1>3 DEF CoverInv
    <3> QED
      BY <1>1, <1>2, <1>3, <3>1
  <2>3. /\ log[v].reviewed = log[w].reviewed /\ log[v].reviewed # None
        /\ log[v].printed = log[w].printed
    BY <1>3 DEF CoverInv
  <2> QED
    BY <2>1, <2>2, <2>3
<1> QED
  BY <1>1, <1>3

-----------------------------------------------------------------------------
(* Steps.                                                                   *)

\* Rows are reviewed that waited or are the panel's.
LEMMA ReviewKeeps ==
  ASSUME IInv, NEW vs, NEW p \in BOOLEAN, Review(vs, p),
         \A v \in vs : Alone(v),
         \/ work'.rows = work.rows
         \/ \A v \in DOMAIN log : Alone(v) \/ v \notin work'.rows,
         work' \in Works, WorkInv', clock' = clock + 1,
         UNCHANGED <<price, sale, jobs, upgraded, shelf, out, unlogged>>
  PROVE  IInv'
<1>1. /\ log' \in Seq(LogRows) /\ LogKept
      /\ \A v \in DOMAIN log : v \in vs => log'[v].reviewed = clock
      /\ \A v \in DOMAIN log : v \notin vs => log'[v] = log[v]
  BY Reviewed DEF IInv
<1>2. clock' \in Nat /\ clock <= clock' /\ clock # None
  BY Numbers DEF IInv, TypeInv
<1>3. TypeInv'
  BY <1>1, <1>2 DEF IInv, TypeInv
<1>4. LogInv'
  <2>1. \A v \in DOMAIN log : log'[v].reviewed = None => ~log'[v].printed
    BY <1>1, <1>2 DEF IInv, LogInv
  <2> QED
    BY <1>1, <1>2, <2>1, LogMarked DEF IInv
<1>5. LabelInv' /\ LegacyInv'
  <2>1. \A at \in Nat : PriceThen(log', price', at) = PriceThen(log, price, at)
    BY <1>1, ThenKept DEF IInv
  <2> QED
    BY <1>2, <2>1, LabelsKept
<1>6. CoverInv'
  <2>1. \A v \in DOMAIN log : /\ log'[v].at = log[v].at
                              /\ log'[v] = log[v] \/ Alone(v)
    BY <1>1 DEF LogKept
  <2>2. DOMAIN log \subseteq DOMAIN log'
    BY <1>1 DEF LogKept
  <2> QED
    BY <2>1, <2>2, CoversKept DEF IInv
<1>7. ShelfInv'
  BY DEF IInv, ShelfInv
<1> QED
  BY <1>3, <1>4, <1>5, <1>6, <1>7 DEF IInv

\* The automatic pass claims all rows that wait.
LEMMA PassClaimStep == ASSUME IInv, PassClaim PROVE IInv'
<1>1. /\ work.kind = "none" /\ Review(Unreviewed, FALSE) /\ clock' = clock + 1
      /\ work' = [Idle EXCEPT !.kind = "pass", !.step = "claimed", !.rows = Unreviewed]
      /\ UNCHANGED <<price, sale, jobs, upgraded, shelf, out, unlogged>>
  BY DEF PassClaim
<1>2. work' = [kind |-> "pass", step |-> "claimed", rows |-> Unreviewed, read |-> None, variant |-> None]
  BY <1>1 DEF Idle
<1>3. work'.kind = "pass" /\ work'.rows = Unreviewed /\ work'.step = "claimed"
  BY <1>2
<1>4. Unreviewed \in SUBSET Nat /\ Unreviewed \subseteq DOMAIN log
  BY DEF IInv, TypeInv, Unreviewed
<1>5. work' \in Works
  BY <1>2, <1>4 DEF Works, Values, Variants
<1>6. /\ DOMAIN log' = DOMAIN log
      /\ \A v \in DOMAIN log : v \in Unreviewed => log'[v].reviewed = clock
  BY <1>1, Reviewed DEF IInv, LogKept
<1>7. \A v \in Unreviewed : log'[v].printed = FALSE
  <2> SUFFICES ASSUME NEW v \in DOMAIN log, log[v].reviewed = None
               PROVE  log'[v].printed = FALSE
    BY DEF Unreviewed
  <2>1. PICK row \in LogRows : row = log[v] /\ ~row.printed
    BY DEF IInv, TypeInv, LogInv
  <2>2. log'[v] = [row EXCEPT !.reviewed = clock, !.printed = row.printed \/ FALSE]
    BY <1>1, <2>1 DEF Review, Unreviewed
  <2> QED
    BY <2>1, <2>2 DEF LogRows
<1>8. clock # None
  BY Numbers DEF IInv, TypeInv
<1>9. WorkInv'
  BY <1>3, <1>4, <1>6, <1>7, <1>8 DEF WorkInv
<1>10. \A v \in Unreviewed : Alone(v)
  BY DEF Unreviewed, Alone
<1>11. \A v \in DOMAIN log : Alone(v) \/ v \notin work'.rows
  BY <1>3, <1>10
<1> QED
  BY <1>1, <1>5, <1>9, <1>10, <1>11, ReviewKeeps

\* The rows are reviewed for which the panel or the scanner has queued a label.
LEMMA MarkStep == ASSUME IInv, Mark PROVE IInv'
<1>1. PICK vs : /\ vs = IF work.kind = "panel" THEN work.rows ELSE Unreviewed
                /\ Review(vs, TRUE)
  BY DEF Mark
<1>2. /\ work' = Idle /\ clock' = clock + 1
      /\ UNCHANGED <<price, sale, jobs, upgraded, shelf, out, unlogged>>
  BY DEF Mark
<1>3. work' \in Works /\ work'.rows = {} /\ work'.kind = "none" /\ work'.step = "idle"
  BY <1>2 DEF Idle, Works, Values, Variants
<1>4. WorkInv'
  BY <1>3 DEF WorkInv
<1>5. \A v \in vs : Alone(v)
  BY <1>1 DEF Unreviewed, Alone
<1> QED
  BY <1>1, <1>2, <1>3, <1>4, <1>5, ReviewKeeps

\* A row is dismissed.
LEMMA DismissStep == ASSUME IInv, NEW v \in DOMAIN log, Dismiss(v) PROVE IInv'
<1>1. /\ v \in Unreviewed /\ Review({v}, FALSE) /\ clock' = clock + 1
      /\ UNCHANGED <<price, sale, jobs, upgraded, work, shelf, out, unlogged>>
  BY DEF Dismiss
<1>2. DOMAIN log' = DOMAIN log /\ \A w \in DOMAIN log : w # v => log'[w] = log[w]
  <2>1. PICK vs : vs = {v} /\ Review(vs, FALSE)
    BY <1>1
  <2>2. LogKept /\ \A w \in DOMAIN log : w \notin vs => log'[w] = log[w]
    BY <2>1, Reviewed DEF IInv
  <2> QED
    BY <2>1, <2>2 DEF LogKept
<1>3. WorkInv'
  <2>1. /\ work.rows \subseteq DOMAIN log
        /\ work.kind \in {"none", "scan"} => work.rows = {}
        /\ work.kind = "pass" => \A x, w \in work.rows : /\ log[x].reviewed = log[w].reviewed
                                                        /\ log[x].printed = log[w].printed
                                                        /\ log[x].reviewed # None
        /\ work.kind = "panel" => \A x, w \in work.rows : x = w
        /\ work.step = "read" => work.read # None
    BY DEF IInv, WorkInv
  <2>2. work.kind = "pass" => \A x \in work.rows : x # v /\ log'[x] = log[x]
    BY <1>1, <1>2, <2>1 DEF Unreviewed
  <2>3. work.kind = "pass" => \A x, w \in work.rows : /\ log'[x].reviewed = log'[w].reviewed
                                                     /\ log'[x].printed = log'[w].printed
                                                     /\ log'[x].reviewed # None
    BY <2>1, <2>2
  <2> QED
    BY <1>1, <1>2, <2>1, <2>3 DEF WorkInv
<1>4. PICK vs : vs = {v} /\ Review(vs, FALSE) /\ \A w \in vs : Alone(w)
  <2>1. Alone(v)
    BY <1>1 DEF Unreviewed, Alone
  <2>2. PICK vs : vs = {v}
    OBVIOUS
  <2>3. Review(vs, FALSE)
    BY <1>1, <2>2
  <2>4. \A w \in vs : Alone(w)
    BY <2>1, <2>2
  <2> QED
    BY <2>2, <2>3, <2>4
<1>5. work' \in Works /\ work'.rows = work.rows
  BY <1>1 DEF IInv, TypeInv
<1> QED
  BY <1>1, <1>3, <1>4, <1>5, ReviewKeeps

\* A row is added to the price log, and it says what is on file.
LEMMA LogGrows ==
  ASSUME IInv, NEW row \in LogRows, log' = Append(log, row), clock' = clock + 1,
         row.at = clock, row.new = price', row.reviewed = None, ~row.printed, price' \in Prices,
         \/ unlogged' = TRUE
         \/ unlogged' = unlogged /\ (log # <<>> \/ row.old = price),
         upgraded' \in BOOLEAN, work' = work \/ work' = Idle,
         UNCHANGED <<sale, jobs, shelf, out>>
  PROVE  IInv'
<1>1. clock \in Nat /\ clock' \in Nat /\ clock <= clock' /\ log \in Seq(LogRows)
  BY DEF IInv, TypeInv
<1>2. PICK n \in Nat : n = Len(log) /\ DOMAIN log = 1 .. n
  BY <1>1
<1>3. /\ log' \in Seq(LogRows) /\ Len(log') = n + 1 /\ DOMAIN log' = 1 .. n + 1
      /\ log'[n + 1] = row /\ \A v \in 1 .. n : log'[v] = log[v]
  <2>1. log' \in Seq(LogRows) /\ Len(log') = n + 1
    BY <1>1, <1>2
  <2> QED
    BY <1>1, <1>2, <2>1
<1>4. work' \in Works /\ (work'.rows = work.rows \/ work'.rows = {})
  BY DEF IInv, TypeInv, Idle, Works, Values, Variants
<1>5. TypeInv'
  BY <1>1, <1>3, <1>4 DEF IInv, TypeInv
<1>6. LogInv'
  <2>1. \A v \in 1 .. n : log'[v].at < clock' /\ (log'[v].reviewed = None => ~log'[v].printed)
    <3> SUFFICES ASSUME NEW v \in 1 .. n
                 PROVE  log'[v].at < clock' /\ (log'[v].reviewed = None => ~log'[v].printed)
      OBVIOUS
    <3>1. log[v] \in LogRows /\ log[v].at < clock
      BY <1>1, <1>2 DEF IInv, LogInv
    <3>2. log'[v].at < clock'
      BY <1>1, <1>3, <3>1, RowFields
    <3> QED
      BY <1>2, <1>3, <3>2 DEF IInv, LogInv
  <2>2. log'[n + 1].at < clock' /\ ~log'[n + 1].printed
    BY <1>1, <1>3
  <2>3. \A v \in 1 .. n + 1 : v \in 1 .. n \/ v = n + 1
    OBVIOUS
  <2>4. price' = log'[Len(log')].new
    BY <1>3
  <2> QED
    BY <1>3, <2>1, <2>2, <2>3, <2>4 DEF LogInv
<1>7. LabelInv' /\ LegacyInv'
  <2>1. CASE unlogged' = TRUE
    BY <1>1, <2>1, LabelsKept
  <2>2. CASE unlogged' = unlogged /\ (log # <<>> \/ row.old = price)
    <3>1. ASSUME NEW at \in Nat, at < clock
          PROVE  PriceThen(log', price', at) = PriceThen(log, price, at)
      BY <2>2, <3>1, ThenGrows DEF IInv
    <3> QED
      BY <1>1, <2>2, <3>1, LabelsKept
  <2> QED
    BY <2>1, <2>2
<1>8. CoverInv'
  <2>1. DOMAIN log \subseteq DOMAIN log'
    BY <1>2, <1>3
  <2>2. \A v \in DOMAIN log : log'[v] = log[v]
    BY <1>2, <1>3
  <2> QED
    BY <1>4, <2>1, <2>2, CoversKept DEF IInv
<1>9. WorkInv'
  <2>1. CASE work' = Idle
    BY <2>1 DEF WorkInv, Idle
  <2>2. CASE work' = work
    <3>1. \A v \in DOMAIN log : v \in DOMAIN log' /\ log'[v] = log[v]
      BY <1>2, <1>3
    <3>2. work.rows \subseteq DOMAIN log
      BY DEF IInv, WorkInv
    <3>3. work.kind = "pass" => \A x, w \in work.rows : /\ log'[x].reviewed = log'[w].reviewed
                                                       /\ log'[x].printed = log'[w].printed
                                                       /\ log'[x].reviewed # None
      BY <3>1, <3>2 DEF IInv, WorkInv
    <3> QED
      BY <2>2, <3>1, <3>2, <3>3 DEF IInv, WorkInv
  <2> QED
    BY <2>1, <2>2
<1>10. ShelfInv'
  BY DEF IInv, ShelfInv
<1> QED
  BY <1>5, <1>6, <1>7, <1>8, <1>9, <1>10 DEF IInv

\* A price move is logged.
LEMMA SyncPriceStep == ASSUME IInv, NEW p \in Prices, SyncPrice(p) PROVE IInv'
<1>1. /\ price' = p /\ log' = Append(log, LogRow(price, p, "sync")) /\ clock' = clock + 1
      /\ UNCHANGED <<sale, jobs, upgraded, work, shelf, out, unlogged>>
  BY DEF SyncPrice
<1>2. PICK row : row = LogRow(price, p, "sync")
  OBVIOUS
<1>3. /\ row \in LogRows /\ row.at = clock /\ row.new = p /\ row.old = price
      /\ row.reviewed = None /\ row.printed = FALSE
  BY <1>2 DEF LogRow, LogRows, IInv, TypeInv
<1>4. upgraded' \in BOOLEAN
  BY <1>1 DEF IInv, TypeInv
<1> QED
  BY <1>1, <1>2, <1>3, <1>4, LogGrows

\* The price moves, or the sale, and nothing is logged; a product is read; the
\* process restarts.
LEMMA UnloggedStep ==
  ASSUME IInv, price' \in Prices, sale' \in SalePrices \cup {None}, upgraded' \in BOOLEAN,
         unlogged' = TRUE \/ (unlogged' = unlogged /\ price' = price),
         clock <= clock', clock' \in Nat, UNCHANGED <<log, jobs, shelf, out>>,
         work' \in Works, WorkInv',
         \/ work'.rows = work.rows
         \/ \A v \in DOMAIN log : Alone(v) \/ v \notin work'.rows
  PROVE  IInv'
<1>1. TypeInv'
  BY DEF IInv, TypeInv
<1>2. LogInv'
  <2>1. ASSUME NEW v \in DOMAIN log PROVE log[v].at < clock'
    <3>1. log[v] \in LogRows /\ log[v].at < clock /\ clock \in Nat
      BY DEF IInv, TypeInv, LogInv
    <3> QED
      BY <3>1, RowFields
  <2> QED
    BY <2>1 DEF IInv, LogInv
<1>3. LabelInv' /\ LegacyInv'
  BY LabelsKept
<1>4. CoverInv'
  BY CoversKept DEF IInv
<1>5. ShelfInv'
  BY DEF IInv, ShelfInv
<1> QED
  BY <1>1, <1>2, <1>3, <1>4, <1>5 DEF IInv

\* The price is set by hand.
LEMMA HandEditStep == ASSUME IInv, NEW p \in Prices, HandEdit(p) PROVE IInv'
<1>1. /\ price' \in Prices /\ unlogged' = TRUE
      /\ UNCHANGED <<clock, sale, log, jobs, upgraded, work, shelf, out>>
  BY DEF HandEdit
<1>2. /\ sale' \in SalePrices \cup {None} /\ upgraded' \in BOOLEAN /\ work' \in Works
      /\ clock' \in Nat /\ clock <= clock' /\ work'.rows = work.rows
  BY <1>1 DEF IInv, TypeInv
<1>3. WorkInv'
  BY <1>1 DEF IInv, WorkInv
<1> QED
  BY <1>1, <1>2, <1>3, UnloggedStep

\* A sale starts or ends.
LEMMA SyncSaleStep == ASSUME IInv, NEW s \in SalePrices \cup {None}, SyncSale(s) PROVE IInv'
<1>1. /\ sale' \in SalePrices \cup {None}
      /\ UNCHANGED <<clock, price, log, jobs, upgraded, work, shelf, out, unlogged>>
  BY DEF SyncSale
<1>2. /\ price' \in Prices /\ upgraded' \in BOOLEAN /\ work' \in Works
      /\ clock' \in Nat /\ clock <= clock' /\ work'.rows = work.rows
  BY <1>1 DEF IInv, TypeInv
<1>3. WorkInv'
  BY <1>1 DEF IInv, WorkInv
<1> QED
  BY <1>1, <1>2, <1>3, UnloggedStep

\* The effective price and the variant of now.
LEMMA ReadNow == ASSUME TypeInv PROVE Effective \in Values /\ Effective # None /\ Variant \in Variants
BY Numbers DEF TypeInv, Effective, Values, Variant, Variants

\* A workflow reads the product: nothing else changes.
LEMMA ReadStep ==
  ASSUME IInv, UNCHANGED <<clock, price, sale, log, jobs, upgraded, shelf, out, unlogged>>,
         work' \in Works, WorkInv',
         \/ work'.rows = work.rows
         \/ \A v \in DOMAIN log : Alone(v) \/ v \notin work'.rows
  PROVE  IInv'
<1>1. /\ price' \in Prices /\ sale' \in SalePrices \cup {None} /\ upgraded' \in BOOLEAN
      /\ clock' \in Nat /\ clock <= clock'
  BY DEF IInv, TypeInv
<1> QED
  BY <1>1, UnloggedStep

\* The pass does.
LEMMA PassReadStep == ASSUME IInv, PassRead PROVE IInv'
<1>1. /\ work.step = "claimed"
      /\ UNCHANGED <<clock, price, sale, log, jobs, upgraded, shelf, out, unlogged>>
      /\ work' = IF AlreadyPrinted THEN [work EXCEPT !.step = "queued"]
                 ELSE [work EXCEPT !.step = "read", !.read = Effective, !.variant = Variant]
  BY DEF PassRead
<1>2. PICK w \in Works : w = work
  BY DEF IInv, TypeInv
<1>3. PICK e \in Values, t \in Variants : e = Effective /\ t = Variant /\ e # None
  BY ReadNow DEF IInv
<1>4. /\ work' \in Works /\ work'.kind = w.kind /\ work'.rows = w.rows
      /\ work'.step = "read" => work'.read # None
  <2>1. CASE work' = [w EXCEPT !.step = "queued"]
    BY <2>1 DEF Works
  <2>2. CASE work' = [w EXCEPT !.step = "read", !.read = e, !.variant = t]
    BY <1>3, <2>2 DEF Works
  <2> QED
    BY <1>1, <1>2, <1>3, <2>1, <2>2
<1>5. WorkInv'
  BY <1>1, <1>2, <1>4 DEF IInv, WorkInv
<1> QED
  BY <1>1, <1>2, <1>4, <1>5, ReadStep

\* The panel does.
LEMMA PanelReadStep == ASSUME IInv, NEW v \in DOMAIN log, PanelRead(v) PROVE IInv'
<1>1. /\ v \in Unreviewed
      /\ work' = [kind |-> "panel", step |-> "read", rows |-> {v},
                  read |-> Effective, variant |-> Variant]
      /\ UNCHANGED <<clock, price, sale, log, jobs, upgraded, shelf, out, unlogged>>
  BY DEF PanelRead
<1>2. v \in Nat
  <2>1. log \in Seq(LogRows)
    BY DEF IInv, TypeInv
  <2> QED
    BY <2>1
<1>3. /\ work' \in Works /\ work'.kind = "panel" /\ work'.rows = {v}
      /\ work'.read # None
  BY <1>1, <1>2, ReadNow DEF IInv, Works
<1>4. WorkInv'
  BY <1>1, <1>3 DEF WorkInv
<1>5. \A w \in DOMAIN log : Alone(w) \/ w \notin work'.rows
  BY <1>1, <1>3 DEF Unreviewed, Alone
<1> QED
  BY <1>1, <1>3, <1>4, <1>5, ReadStep

\* The scanner does.
LEMMA ScanReadStep == ASSUME IInv, NEW variant \in {"standard", "sale"}, ScanRead(variant) PROVE IInv'
<1>1. /\ work' = [kind |-> "scan", step |-> "read", rows |-> {},
                  read |-> Effective, variant |-> variant]
      /\ UNCHANGED <<clock, price, sale, log, jobs, upgraded, shelf, out, unlogged>>
  BY DEF ScanRead
<1>2. /\ work' \in Works /\ work'.kind = "scan" /\ work'.rows = {}
      /\ work'.read # None
  BY <1>1, ReadNow DEF IInv, Works, Variants
<1>3. WorkInv'
  BY <1>2 DEF WorkInv
<1> QED
  BY <1>1, <1>2, <1>3, ReadStep

\* A restart, with or without an import.
LEMMA RestartStep == ASSUME IInv, Restart PROVE IInv'
<1>1. /\ upgraded' \in {upgraded, TRUE} /\ work' = Idle
      /\ UNCHANGED <<price, sale, jobs, shelf, out>>
  BY DEF Restart
<1>2. upgraded' \in BOOLEAN /\ price' \in Prices /\ sale' \in SalePrices \cup {None}
  BY <1>1 DEF IInv, TypeInv
<1>3. CASE UNCHANGED <<clock, log, unlogged>>
  <2>1. work' \in Works /\ work'.rows = {} /\ WorkInv'
    BY <1>1 DEF Idle, Works, Values, Variants, WorkInv
  <2>2. clock' \in Nat /\ clock <= clock'
    BY <1>3 DEF IInv, TypeInv
  <2>3. \A v \in DOMAIN log : v \notin work'.rows
    BY <2>1
  <2> QED
    BY <1>1, <1>2, <1>3, <2>1, <2>2, <2>3, UnloggedStep
<1>4. ASSUME NEW old \in Prices, Import(old) PROVE IInv'
  <2>1. PICK row : row = LogRow(old, price, "file")
    OBVIOUS
  <2>2. /\ row \in LogRows /\ row.at = clock /\ row.new = price /\ row.reviewed = None
        /\ row.printed = FALSE
    BY <2>1 DEF LogRow, LogRows, IInv, TypeInv
  <2>3. /\ log' = Append(log, row) /\ clock' = clock + 1
        /\ unlogged' = (unlogged \/ log = <<>>)
    BY <1>4, <2>1 DEF Import
  <2>4. unlogged' = TRUE \/ (unlogged' = unlogged /\ (log # <<>> \/ row.old = price))
    BY <2>3 DEF IInv, TypeInv
  <2> QED
    BY <1>1, <1>2, <2>2, <2>3, <2>4, LogGrows
<1> QED
  BY <1>3, <1>4 DEF Restart

\* Time passes.
LEMMA PauseStep == ASSUME IInv, Pause PROVE IInv'
<1>1. /\ clock' = clock + Apart
      /\ UNCHANGED <<price, sale, log, jobs, upgraded, work, shelf, out, unlogged>>
  BY DEF Pause
<1>2. /\ clock' \in Nat /\ clock <= clock' /\ price' \in Prices /\ sale' \in SalePrices \cup {None}
      /\ upgraded' \in BOOLEAN /\ work' \in Works /\ work'.rows = work.rows
  BY <1>1, Numbers DEF IInv, TypeInv
<1>3. WorkInv'
  BY <1>1 DEF IInv, WorkInv
<1> QED
  BY <1>1, <1>2, <1>3, UnloggedStep

\* The pass marks its rows, all of them.
LEMMA PassMarkStep == ASSUME IInv, PassMark PROVE IInv'
<1>1. /\ work.kind = "pass" /\ work' = Idle
      /\ UNCHANGED <<clock, price, sale, jobs, upgraded, shelf, out, unlogged>>
      /\ log' = [v \in DOMAIN log |->
                   IF v \in work.rows THEN [log[v] EXCEPT !.printed = TRUE] ELSE log[v]]
  BY DEF PassMark
<1>2. clock' \in Nat /\ clock <= clock'
  BY <1>1 DEF IInv, TypeInv
<1>3. PICK n \in Nat : DOMAIN log = 1 .. n
  BY DEF IInv, TypeInv
<1>4. ASSUME NEW row \in LogRows
      PROVE  /\ [row EXCEPT !.printed = TRUE] \in LogRows
             /\ [row EXCEPT !.printed = TRUE].printed = TRUE
             /\ [row EXCEPT !.printed = TRUE].reviewed = row.reviewed
             /\ [row EXCEPT !.printed = TRUE].at = row.at
             /\ [row EXCEPT !.printed = TRUE].old = row.old
             /\ [row EXCEPT !.printed = TRUE].new = row.new
  BY DEF LogRows
<1>5. ASSUME NEW v \in DOMAIN log, v \in work.rows
      PROVE  /\ log'[v] \in LogRows
             /\ log'[v].printed = TRUE /\ log'[v].reviewed = log[v].reviewed
             /\ log'[v].at = log[v].at /\ log'[v].old = log[v].old /\ log'[v].new = log[v].new
  <2>1. PICK row \in LogRows : row = log[v]
    BY DEF IInv, TypeInv
  <2>2. log'[v] = [row EXCEPT !.printed = TRUE]
    BY <1>1, <1>5, <2>1
  <2> QED
    BY <1>4, <2>1, <2>2
<1>6. \A v \in DOMAIN log : v \notin work.rows => log'[v] = log[v] /\ log'[v] \in LogRows
  BY <1>1 DEF IInv, TypeInv
<1>7. log' \in Seq(LogRows) /\ DOMAIN log' = 1 .. n
  <2>1. log' \in [1 .. n -> LogRows]
    BY <1>1, <1>3, <1>5, <1>6
  <2> QED
    BY <2>1, ListOf
<1>8. LogKept
  BY <1>3, <1>5, <1>6, <1>7 DEF LogKept
<1>9. work' \in Works /\ work'.rows = {}
  BY <1>1 DEF Idle, Works, Values, Variants
<1>10. WorkInv'
  BY <1>1 DEF Idle, WorkInv
<1>11. TypeInv'
  BY <1>1, <1>2, <1>7, <1>9 DEF IInv, TypeInv
<1>12. LogInv'
  <2>1. \A v \in work.rows : v \in DOMAIN log /\ log[v].reviewed # None
    BY <1>1 DEF IInv, WorkInv
  <2>2. \A v \in DOMAIN log : log'[v].reviewed = None => ~log'[v].printed
    BY <1>5, <1>6, <2>1 DEF IInv, LogInv
  <2> QED
    BY <1>1, <1>2, <1>7, <1>8, <2>2, LogMarked DEF IInv
<1>13. LabelInv' /\ LegacyInv'
  <2>1. \A at \in Nat : PriceThen(log', price', at) = PriceThen(log, price, at)
    BY <1>1, <1>7, <1>8, ThenKept DEF IInv
  <2> QED
    BY <1>1, <1>2, <2>1, LabelsKept
<1>14. CoverInv'
  <2> SUFFICES ASSUME NEW j \in DOMAIN jobs
               PROVE  /\ \A v \in jobs[j].covers : v \in DOMAIN log' /\ log'[v].at <= jobs[j].at
                      /\ \A v, w \in jobs[j].covers : v # w =>
                           /\ log'[v].reviewed = log'[w].reviewed /\ log'[v].reviewed # None
                           /\ log'[v].printed = log'[w].printed
                           /\ v \in work'.rows <=> w \in work'.rows
    BY <1>1 DEF CoverInv
  <2>1. \A v \in jobs[j].covers : v \in DOMAIN log /\ log[v].at <= jobs[j].at
    BY DEF IInv, CoverInv
  <2>2. \A v \in jobs[j].covers : v \in DOMAIN log' /\ log'[v].at <= jobs[j].at
    BY <1>8, <2>1 DEF LogKept
  <2>3. ASSUME NEW v \in jobs[j].covers, NEW w \in jobs[j].covers, v # w
        PROVE  /\ log'[v].reviewed = log'[w].reviewed /\ log'[v].reviewed # None
               /\ log'[v].printed = log'[w].printed
    <3>1. /\ log[v].reviewed = log[w].reviewed /\ log[v].reviewed # None
          /\ log[v].printed = log[w].printed
          /\ v \in work.rows <=> w \in work.rows
      BY <2>3 DEF IInv, CoverInv
    <3>2. CASE v \in work.rows
      BY <1>5, <2>1, <3>1, <3>2
    <3>3. CASE v \notin work.rows
      BY <1>6, <2>1, <3>1, <3>3
    <3> QED
      BY <3>2, <3>3
  <2> QED
    BY <1>9, <2>2, <2>3
<1>15. ShelfInv'
  BY <1>1 DEF IInv, ShelfInv
<1> QED
  BY <1>10, <1>11, <1>12, <1>13, <1>14, <1>15 DEF IInv

\* A job is inserted.
LEMMA EnqueueStep == ASSUME IInv, Enqueue PROVE IInv'
<1>1. /\ work.step = "read" /\ jobs' = Append(jobs, NewJob) /\ clock' = clock + 1
      /\ work' = [work EXCEPT !.step = "queued", !.read = None, !.variant = None]
      /\ UNCHANGED <<price, sale, log, upgraded, shelf, out, unlogged>>
  BY DEF Enqueue
<1>2. PICK n \in Nat : DOMAIN jobs = 1 .. n /\ Len(jobs) = n
  BY DEF IInv, TypeInv
<1>3. clock \in Nat /\ jobs \in Seq(JobRows) /\ work \in Works /\ upgraded \in BOOLEAN
  BY DEF IInv, TypeInv
<1>4. /\ work.rows \in SUBSET Nat /\ work.read \in Values /\ work.variant \in Variants
      /\ work.read # None
  BY <1>1, <1>3 DEF Works, IInv, WorkInv
<1>5. work.rows # {} => Newest(work.rows) \in Nat
  <2>1. PICK m \in Nat : DOMAIN log = 1 .. m
    BY DEF IInv, TypeInv
  <2>2. work.rows \in SUBSET (1 .. m)
    BY <2>1 DEF IInv, WorkInv
  <2> SUFFICES ASSUME work.rows # {} PROVE Newest(work.rows) \in Nat
    OBVIOUS
  <2>3. Newest(work.rows) \in work.rows
    BY <2>2, NewestIs
  <2> QED
    BY <2>2, <2>3
<1>6. PICK job : /\ job = NewJob /\ job \in JobRows
                 /\ job.at = clock /\ job.covers = work.rows /\ job.drawn = {}
                 /\ job.price = None => job.change = None
                 /\ ~job.moved /\ job.price # None => job.price = job.asked
                 /\ job.asked = Effective
                 /\ job.base => sale = None
  <2>1. PICK p \in Values : p = (IF upgraded THEN work.read ELSE None)
    BY <1>4 DEF Values
  <2>2. PICK c \in Nat \cup {None} :
          c = (IF upgraded /\ work.rows # {} THEN Newest(work.rows) ELSE None)
    BY <1>5
  <2>3. PICK b \in BOOLEAN, q \in BOOLEAN : b = (sale = None) /\ q = (work.read # Effective)
    OBVIOUS
  <2>4. PICK k \in {"price_change", "manual"} :
          k = (IF work.kind = "scan" THEN "manual" ELSE "price_change")
    OBVIOUS
  <2>5. PICK e \in Values : e = Effective
    BY ReadNow DEF IInv
  <2>6. NewJob = [reason |-> k, variant |-> work.variant, at |-> clock, failed |-> FALSE,
                  price |-> p, change |-> c, covers |-> work.rows, asked |-> e, base |-> b,
                  drawn |-> {}, moved |-> q]
    BY <2>1, <2>2, <2>3, <2>4, <2>5 DEF NewJob
  <2>7. PICK job : job = NewJob
    OBVIOUS
  <2>8. /\ job.at = clock /\ job.covers = work.rows /\ job.drawn = {} /\ job.price = p
        /\ job.change = c /\ job.asked = e /\ job.base = b /\ job.moved = q
    BY <2>6, <2>7
  <2>9. job \in JobRows
    BY <1>3, <1>4, <2>6, <2>7 DEF JobRows
  <2>10. p = None => c = None
    BY <1>4, <2>1, <2>2
  <2>11. ~q /\ p # None => p = e
    BY <2>1, <2>3, <2>5
  <2> QED
    BY <2>3, <2>5, <2>7, <2>8, <2>9, <2>10, <2>11
<1>7. /\ jobs' \in Seq(JobRows) /\ DOMAIN jobs' = 1 .. n + 1
      /\ \A j \in 1 .. n : jobs'[j] = jobs[j]
      /\ jobs'[n + 1] = job
  <2>1. jobs' = Append(jobs, job)
    BY <1>1, <1>6
  <2>2. jobs' \in Seq(JobRows) /\ Len(jobs') = n + 1
    BY <1>2, <1>3, <1>6, <2>1
  <2>3. \A j \in 1 .. n : jobs'[j] = jobs[j]
    BY <1>2, <1>3, <2>1
  <2>4. jobs'[n + 1] = job
    BY <1>2, <1>3, <2>1
  <2> QED
    BY <2>2, <2>3, <2>4
<1>8. \A j \in 1 .. n + 1 : j \in 1 .. n \/ j = n + 1
  OBVIOUS
<1>9. \A j \in 1 .. n : jobs[j].at \in Nat /\ jobs[j].at < clock
  <2> SUFFICES ASSUME NEW j \in 1 .. n PROVE jobs[j].at \in Nat /\ jobs[j].at < clock
    OBVIOUS
  <2>1. jobs[j] \in JobRows
    BY <1>2, <1>3
  <2>2. jobs[j].at < clock
    BY <1>2 DEF IInv, LabelInv
  <2> QED
    BY <2>1, <2>2, JobFields
<1>10. /\ work' \in Works /\ work'.rows = work.rows /\ work'.kind = work.kind
       /\ work'.step = "queued"
  BY <1>1, <1>3 DEF Works, Values, Variants
<1>11. TypeInv'
  BY <1>1, <1>3, <1>7, <1>10 DEF IInv, TypeInv
<1>12. LogInv'
  <2>1. ASSUME NEW v \in DOMAIN log PROVE log[v].at < clock'
    <3>1. log[v] \in LogRows /\ log[v].at < clock
      BY DEF IInv, TypeInv, LogInv
    <3> QED
      BY <1>1, <1>3, <3>1, RowFields
  <2> QED
    BY <1>1, <2>1 DEF IInv, LogInv
<1>13. LabelInv'
  <2>1. \A j \in 1 .. n : jobs'[j].at < clock'
    BY <1>1, <1>3, <1>7, <1>9
  <2>2. ASSUME NEW j \in 1 .. n
        PROVE  /\ jobs'[j].price = None => jobs'[j].change = None
               /\ ~jobs'[j].moved => /\ jobs'[j].price # None => jobs'[j].price = jobs'[j].asked
                                     /\ \A s \in jobs'[j].drawn : s = jobs'[j].asked
    BY <1>2, <1>7 DEF IInv, LabelInv
  <2>3. /\ job.at < clock'
        /\ job.price = None => job.change = None
        /\ ~job.moved => /\ job.price # None => job.price = job.asked
                         /\ \A s \in job.drawn : s = job.asked
    BY <1>1, <1>3, <1>6
  <2> QED
    BY <1>7, <1>8, <2>1, <2>2, <2>3 DEF LabelInv
<1>14. LegacyInv'
  <2> SUFFICES ASSUME NEW j \in 1 .. n + 1, ~unlogged, jobs'[j].base
               PROVE  jobs'[j].asked = PriceThen(log, price, jobs'[j].at)
    BY <1>1, <1>7 DEF LegacyInv
  <2>1. CASE j \in 1 .. n
    BY <1>2, <1>7, <2>1 DEF IInv, LegacyInv
  <2>2. CASE j = n + 1
    <3>1. jobs'[j] = job /\ job.asked = price
      BY <1>6, <1>7, <2>2 DEF Effective
    <3>2. PriceThen(log, price, clock) = price
      BY ThenNow DEF IInv
    <3> QED
      BY <1>6, <3>1, <3>2
  <2> QED
    BY <1>8, <2>1, <2>2
<1>15. WorkInv'
  BY <1>1, <1>10 DEF IInv, WorkInv
<1>16. CoverInv'
  <2>1. ASSUME NEW j \in 1 .. n
        PROVE  /\ \A v \in jobs'[j].covers : v \in DOMAIN log /\ log[v].at <= jobs'[j].at
               /\ \A v, w \in jobs'[j].covers : v # w =>
                    /\ log[v].reviewed = log[w].reviewed /\ log[v].reviewed # None
                    /\ log[v].printed = log[w].printed
                    /\ v \in work.rows <=> w \in work.rows
    BY <1>2, <1>7 DEF IInv, CoverInv
  <2>2. \A v \in work.rows : v \in DOMAIN log /\ log[v].at <= clock
    <3> SUFFICES ASSUME NEW v \in work.rows PROVE v \in DOMAIN log /\ log[v].at <= clock
      OBVIOUS
    <3>1. v \in DOMAIN log
      BY DEF IInv, WorkInv
    <3>2. log[v] \in LogRows /\ log[v].at < clock
      BY <3>1 DEF IInv, TypeInv, LogInv
    <3> QED
      BY <1>3, <3>1, <3>2, RowFields
  <2>3. \A v, w \in work.rows : v # w =>
          /\ log[v].reviewed = log[w].reviewed /\ log[v].reviewed # None
          /\ log[v].printed = log[w].printed
    <3>1. work.kind \in {"none", "pass", "panel", "scan"}
      BY <1>3 DEF Works
    <3> QED
      BY <3>1 DEF IInv, WorkInv
  <2> QED
    BY <1>1, <1>6, <1>7, <1>8, <1>10, <2>1, <2>2, <2>3 DEF CoverInv
<1>17. ShelfInv'
  BY <1>1, <1>2, <1>7 DEF IInv, ShelfInv
<1> QED
  BY <1>11, <1>12, <1>13, <1>14, <1>15, <1>16, <1>17 DEF IInv

\* One job changes, in what becomes of its labels.
OneJobSet(j, job) ==
  /\ DOMAIN jobs' = DOMAIN jobs /\ jobs' \in Seq(JobRows)
  /\ jobs'[j] = job /\ \A k \in DOMAIN jobs : k # j => jobs'[k] = jobs[k]
  /\ job.at = jobs[j].at /\ job.price = jobs[j].price /\ job.change = jobs[j].change
  /\ job.covers = jobs[j].covers /\ job.asked = jobs[j].asked /\ job.base = jobs[j].base
  /\ jobs[j].drawn \subseteq job.drawn

\* The invariant is kept then, if the labels are at the price asked for.
LEMMA OneJobStep ==
  ASSUME IInv, NEW j \in DOMAIN jobs, NEW job, OneJobSet(j, job),
         ~job.moved => ~jobs[j].moved /\ \A s \in job.drawn : s = job.asked,
         UNCHANGED <<clock, price, sale, log, upgraded, work, shelf, out, unlogged>>
  PROVE  IInv'
<1>1. /\ DOMAIN jobs' = DOMAIN jobs /\ jobs' \in Seq(JobRows)
      /\ jobs'[j] = job /\ \A k \in DOMAIN jobs : k # j => jobs'[k] = jobs[k]
  BY DEF OneJobSet
<1>2. \A k \in DOMAIN jobs :
        /\ jobs'[k].at = jobs[k].at /\ jobs'[k].covers = jobs[k].covers
        /\ jobs'[k].asked = jobs[k].asked /\ jobs'[k].base = jobs[k].base
        /\ jobs[k].drawn \subseteq jobs'[k].drawn
  BY DEF OneJobSet
<1>3. TypeInv' /\ LogInv' /\ WorkInv'
  BY <1>1 DEF IInv, TypeInv, LogInv, WorkInv
<1>4. LabelInv'
  <2>1. /\ job.at < clock
        /\ job.price = None => job.change = None
        /\ ~job.moved => /\ job.price # None => job.price = job.asked
                         /\ \A s \in job.drawn : s = job.asked
    BY DEF IInv, LabelInv, OneJobSet
  <2>2. \A k \in DOMAIN jobs : k # j =>
          /\ jobs'[k].at < clock
          /\ jobs'[k].price = None => jobs'[k].change = None
          /\ ~jobs'[k].moved => /\ jobs'[k].price # None => jobs'[k].price = jobs'[k].asked
                                /\ \A s \in jobs'[k].drawn : s = jobs'[k].asked
    BY <1>1 DEF IInv, LabelInv
  <2> QED
    BY <1>1, <2>1, <2>2 DEF LabelInv
<1>5. LegacyInv'
  BY <1>1, <1>2 DEF IInv, LegacyInv
<1>6. CoverInv'
  BY <1>1, <1>2 DEF IInv, CoverInv
<1>7. ShelfInv'
  BY <1>1, <1>2 DEF IInv, ShelfInv
<1> QED
  BY <1>3, <1>4, <1>5, <1>6, <1>7 DEF IInv

\* A label is drawn.
LEMMA DrawStep == ASSUME IInv, NEW j \in DOMAIN jobs, Draw(j) PROVE IInv'
<1>1. PICK old \in JobRows : old = jobs[j]
  BY DEF IInv, TypeInv
<1>2. PICK e \in Values : e = Effective
  BY ReadNow DEF IInv
<1>3. PICK d \in SUBSET Values, m \in BOOLEAN :
        d = old.drawn \cup {e} /\ m = (old.moved \/ e # old.asked)
  BY JobFields
<1>4. PICK job : job = [old EXCEPT !.drawn = d, !.moved = m]
  OBVIOUS
<1>5. /\ jobs' = [jobs EXCEPT ![j] = job]
      /\ UNCHANGED <<clock, price, sale, log, upgraded, work, shelf, out, unlogged>>
  BY <1>1, <1>2, <1>3, <1>4 DEF Draw
<1>6. /\ job \in JobRows /\ job.drawn = d /\ job.moved = m
      /\ job.at = old.at /\ job.price = old.price /\ job.change = old.change
      /\ job.covers = old.covers /\ job.asked = old.asked /\ job.base = old.base
  BY <1>4 DEF JobRows
<1>7. OneJobSet(j, job)
  <2>1. jobs \in Seq(JobRows)
    BY DEF IInv, TypeInv
  <2> QED
    BY <1>1, <1>3, <1>5, <1>6, <2>1 DEF OneJobSet
<1>8. ~old.moved => \A s \in old.drawn : s = old.asked
  BY <1>1 DEF IInv, LabelInv
<1>9. ~job.moved => ~jobs[j].moved /\ \A s \in job.drawn : s = job.asked
  BY <1>1, <1>3, <1>6, <1>8
<1> QED
  BY <1>5, <1>7, <1>9, OneJobStep

\* A verdict on a job is stored.
LEMMA VerdictStep == ASSUME IInv, NEW j \in DOMAIN jobs, Fail(j) \/ Done(j) PROVE IInv'
<1>1. PICK old \in JobRows : old = jobs[j]
  BY DEF IInv, TypeInv
<1>2. PICK f \in BOOLEAN : /\ jobs' = [jobs EXCEPT ![j].failed = f]
                           /\ UNCHANGED <<clock, price, sale, log, upgraded, work, shelf, out, unlogged>>
  BY DEF Fail, Done
<1>3. PICK job : job = [old EXCEPT !.failed = f]
  OBVIOUS
<1>4. jobs' = [jobs EXCEPT ![j] = job]
  BY <1>1, <1>2, <1>3
<1>5. /\ job \in JobRows /\ job.drawn = old.drawn /\ job.moved = old.moved
      /\ job.at = old.at /\ job.price = old.price /\ job.change = old.change
      /\ job.covers = old.covers /\ job.asked = old.asked /\ job.base = old.base
  BY <1>3 DEF JobRows
<1>6. OneJobSet(j, job)
  <2>1. jobs \in Seq(JobRows)
    BY DEF IInv, TypeInv
  <2> QED
    BY <1>1, <1>4, <1>5, <2>1 DEF OneJobSet
<1>7. ~job.moved => ~jobs[j].moved /\ \A s \in job.drawn : s = job.asked
  BY <1>1, <1>5 DEF IInv, LabelInv
<1> QED
  BY <1>2, <1>6, <1>7, OneJobStep

\* A label comes out.
LEMMA ComeOutStep == ASSUME IInv, NEW j \in DOMAIN jobs, ComeOut(j) PROVE IInv'
<1>1. /\ shelf' \in jobs[j].drawn /\ out' = j
      /\ UNCHANGED <<clock, price, sale, log, jobs, upgraded, work, unlogged>>
  BY DEF ComeOut
<1>2. TypeInv' /\ LogInv' /\ LabelInv' /\ LegacyInv' /\ WorkInv' /\ CoverInv'
  BY <1>1 DEF IInv, TypeInv, LogInv, LabelInv, LegacyInv, WorkInv, CoverInv
<1>3. ShelfInv'
  BY <1>1 DEF ShelfInv
<1> QED
  BY <1>2, <1>3 DEF IInv

\* The invariant holds at the start.
LEMMA Start == Init => IInv
<1> SUFFICES ASSUME Init PROVE IInv
  OBVIOUS
<1>1. /\ clock = MatchBefore /\ price \in Prices /\ sale = None /\ log = <<>> /\ jobs = <<>>
      /\ upgraded \in BOOLEAN /\ work = Idle /\ out = None /\ unlogged = FALSE
  BY DEF Init
<1>2. DOMAIN log = {} /\ DOMAIN jobs = {}
  BY <1>1
<1>3. work \in Works
  BY <1>1 DEF Idle, Works, Values, Variants
<1>4. TypeInv
  <2>1. log \in Seq(LogRows) /\ jobs \in Seq(JobRows)
    BY <1>1
  <2>2. clock \in Nat /\ unlogged \in BOOLEAN
    BY <1>1, Numbers
  <2> QED
    BY <1>1, <1>3, <2>1, <2>2 DEF TypeInv
<1>5. LogInv
  BY <1>1, <1>2 DEF LogInv
<1>6. LabelInv /\ LegacyInv /\ CoverInv
  BY <1>2 DEF LabelInv, LegacyInv, CoverInv
<1>7. WorkInv
  BY <1>1 DEF Idle, WorkInv
<1>8. ShelfInv
  BY <1>1 DEF ShelfInv
<1> QED
  BY <1>4, <1>5, <1>6, <1>7, <1>8 DEF IInv

\* Every step keeps it.
LEMMA StepKeeps == IInv /\ [Next]_vars => IInv'
<1> SUFFICES ASSUME IInv, [Next]_vars PROVE IInv'
  OBVIOUS
<1>1. ASSUME NEW p \in Prices, SyncPrice(p) \/ HandEdit(p) PROVE IInv'
  BY <1>1, SyncPriceStep, HandEditStep
<1>2. ASSUME NEW s \in SalePrices \cup {None}, SyncSale(s) PROVE IInv'
  BY <1>2, SyncSaleStep
<1>3. ASSUME NEW v \in DOMAIN log, PanelRead(v) \/ Dismiss(v) PROVE IInv'
  BY <1>3, PanelReadStep, DismissStep
<1>4. ASSUME NEW variant \in {"standard", "sale"}, ScanRead(variant) PROVE IInv'
  BY <1>4, ScanReadStep
<1>5. ASSUME NEW j \in DOMAIN jobs, Draw(j) \/ ComeOut(j) \/ Fail(j) \/ Done(j) PROVE IInv'
  BY <1>5, DrawStep, ComeOutStep, VerdictStep
<1>6. CASE PassClaim \/ PassRead \/ PassMark
  BY <1>6, PassClaimStep, PassReadStep, PassMarkStep
<1>7. CASE Enqueue \/ Mark
  BY <1>7, EnqueueStep, MarkStep
<1>8. CASE Restart \/ Pause
  BY <1>8, RestartStep, PauseStep
<1>9. CASE UNCHANGED vars
  <2>1. UNCHANGED <<clock, price, sale, log, jobs, upgraded, work, shelf, out, unlogged>>
    BY <1>9 DEF vars
  <2> QED
    BY <2>1 DEF IInv, TypeInv, LogInv, LabelInv, LegacyInv, WorkInv, CoverInv, ShelfInv
<1> QED
  BY <1>1, <1>2, <1>3, <1>4, <1>5, <1>6, <1>7, <1>8, <1>9 DEF Next

-----------------------------------------------------------------------------
(* Theorems.                                                                *)

\* What the rows of both tables mean, in every reachable state.
THEOREM Inductive == Spec => []IInv
<1>1. Init => IInv
  BY Start
<1>2. IInv /\ [Next]_vars => IInv'
  BY StepKeeps
<1> QED
  BY <1>1, <1>2, PTL DEF Spec

\* The print history shows the price that is on every label of the job, also of one
\* that is said to have failed, unless the price moved between reading it and
\* drawing the label or nothing recorded what it was.
THEOREM HistoryIsTrue == Spec => []HistoryShowsTheLabel
<1>1. IInv => HistoryShowsTheLabel
  BY HistoryFollows
<1> QED
  BY <1>1, Inductive, PTL

\* "A label at this price was already printed" is said exactly when the label on
\* the shelf shows the price, as long as that label is of the newest job that is
\* not said to have failed, and under the same exceptions.
THEOREM WarningsAreTrue == Spec => []WarningIsTrue
<1>1. IInv => WarningIsTrue
  BY WarningFollows
<1> QED
  BY <1>1, Inductive, PTL
=============================================================================
