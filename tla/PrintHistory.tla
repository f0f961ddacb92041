---------------------------- MODULE PrintHistory ----------------------------
(***************************************************************************)
(* What staff are told about a product's labels: when the last one was     *)
(* printed and at what price (app/services/print_history.py), on every     *)
(* look-up, in the print history and before a reprint (app/routes/api.py). *)
(* Labels queued since the print_jobs table has price_at_print and         *)
(* price_history_id carry both; for the older ones the price is worked out *)
(* from the price log.                                                     *)
(*                                                                         *)
(* One product stands for each: rows and jobs are pinned to theirs.  One   *)
(* workflow queues at a time, a panel's has one row, and no label is       *)
(* refused: how they race and fail is PriceReview's subject.  How labels   *)
(* are printed is PrintQueue's and Bridge's: here a label is drawn and     *)
(* comes out any number of times, in any order, whatever becomes of its    *)
(* row.  The clock counts stamps: two of them are never equal, as the      *)
(* columns keep microseconds, and a Pause is longer than any window, the   *)
(* week that the import of price_changes.json looks back included.         *)
(***************************************************************************)
EXTENDS Naturals, Sequences, SequencesExt

CONSTANTS
  Prices,       \* the prices the product may have
  SalePrices,   \* the prices it may be on sale for
  None,         \* a NULL column; nothing found
  MatchBefore,  \* _LEGACY_MATCH_BEFORE
  MatchAfter,   \* _LEGACY_MATCH_AFTER
  Apart,        \* length of a Pause
  MaxChanges,   \* bound: price moves, changed sales, hand edits and restarts
  MaxJobs,      \* bound: labels queued
  MaxLabels,    \* bound: labels drawn that show different prices
  MaxPauses     \* bound: pauses

ASSUME PrintHistoryAssumption ==
  /\ None \notin Nat \cup Prices \cup SalePrices
  /\ {MatchBefore, MatchAfter, Apart, MaxChanges, MaxJobs, MaxLabels, MaxPauses} \subseteq Nat
  /\ Apart > MatchBefore /\ Apart > MatchAfter

VARIABLES
  clock,     \* utcnow()
  price,     \* Product.price
  sale,      \* Product.sale_price while it is on sale, else None
  log,       \* price_history of the product, oldest first
  jobs,      \* print_jobs of the product, oldest first
  upgraded,  \* print_jobs has the new columns
  work,      \* the workflow that is queueing a label, and what it has read
  shelf,     \* the price on the label that came out last
  out,       \* history: the job of that label
  unlogged,  \* history: the price moved at a time the log does not tell
  pauses, edits  \* bounds only: pauses, and changes that log nothing

vars == <<clock, price, sale, log, jobs, upgraded, work, shelf, out, unlogged, pauses, edits>>

\* Definitions named ...Mutant stand before the definition they distort: bugs
\* the properties below must notice.  No specification uses them.

-----------------------------------------------------------------------------
(* Rows. *)

Effective == IF sale # None THEN sale ELSE price
Variant == IF sale # None THEN "sale" ELSE "standard"

LogRow(old, new, source) ==
  [old |-> old, new |-> new, at |-> clock, source |-> source, reviewed |-> None, printed |-> FALSE]
Unreviewed == {v \in DOMAIN log : log[v].reviewed = None}

\* Review(vs, p): reviewed_at is set on rows vs, and label_printed if p.
Review(vs, p) ==
  log' = [v \in DOMAIN log |->
            IF v \in vs THEN [log[v] EXCEPT !.reviewed = clock, !.printed = @ \/ p]
                        ELSE log[v]]

Newest(vs) == CHOOSE v \in vs : \A w \in vs : w <= v

\* A row of print_jobs; of its status only "error" is told from the others.
\* Histories: the changes it was printed for, the price and whether there was no
\* sale at the INSERT, the prices its drawn labels show, and whether any of them,
\* or the price read before the INSERT, is another.
NewJob ==
  [reason |-> IF work.kind = "scan" THEN "manual" ELSE "price_change",
   variant |-> work.variant, at |-> clock, failed |-> FALSE,
   price |-> IF upgraded THEN work.read ELSE None,
   change |-> IF upgraded /\ work.rows # {} THEN Newest(work.rows) ELSE None,
   covers |-> work.rows, asked |-> Effective, base |-> sale = None, drawn |-> {},
   moved |-> work.read # Effective]

Idle == [kind |-> "none", step |-> "idle", rows |-> {}, read |-> None, variant |-> None]
Room == Len(jobs) < MaxJobs
Changing == Len(log) + edits < MaxChanges

-----------------------------------------------------------------------------
(* The price. *)

\* upsert_record: a moved price is logged.
SyncPrice(p) ==
  /\ p # price /\ Changing
  /\ price' = p
  /\ log' = Append(log, LogRow(price, p, "sync"))
  /\ clock' = clock + 1
  /\ UNCHANGED <<sale, jobs, upgraded, work, shelf, out, unlogged, pauses, edits>>

\* A sale that starts, ends or changes its price is not.
SyncSale(s) ==
  /\ s # sale /\ Changing
  /\ sale' = s
  /\ edits' = edits + 1
  /\ UNCHANGED <<clock, price, log, jobs, upgraded, work, shelf, out, unlogged, pauses>>

\* create_custom_product updates the row of that upc and name, whoever's it is.
HandEdit(p) ==
  /\ p # price /\ Changing
  /\ price' = p
  /\ unlogged' = TRUE
  /\ edits' = edits + 1
  /\ UNCHANGED <<clock, sale, log, jobs, upgraded, work, shelf, out, pauses>>

\* _import_price_change_diffs: a change of price_changes.json to the price on file
\* is logged, unless it was imported before or one to that price was logged within
\* the week.  As the first row of the log it gives older labels a price they may
\* not have.
Import(old) ==
  /\ old # price
  /\ \A v \in DOMAIN log :
       /\ log[v].new = price => log[v].at + Apart <= clock
       /\ ~(log[v].old = old /\ log[v].new = price /\ log[v].source = "file")
  /\ log' = Append(log, LogRow(old, price, "file"))
  /\ unlogged' = (unlogged \/ log = <<>>)
  /\ clock' = clock + 1

-----------------------------------------------------------------------------
(* Queueing: the automatic pass, the review panel and the scanner read the *)
(* price, insert the job and mark the changes, one after the other.        *)

PassClaim ==
  /\ work.kind = "none" /\ Unreviewed # {} /\ Room
  /\ Review(Unreviewed, FALSE)
  /\ work' = [Idle EXCEPT !.kind = "pass", !.step = "claimed", !.rows = Unreviewed]
  /\ clock' = clock + 1
  /\ UNCHANGED <<price, sale, jobs, upgraded, shelf, out, unlogged, pauses, edits>>

\* _already_printed_since the newest row of the group.
AlreadyPrinted ==
  \E j \in DOMAIN jobs : /\ ~jobs[j].failed
                         /\ jobs[j].at >= log[Newest(work.rows)].at

\* The product of the group, unless a label was queued since.
PassRead ==
  /\ work.step = "claimed"
  /\ work' = IF AlreadyPrinted THEN [work EXCEPT !.step = "queued"]
             ELSE [work EXCEPT !.step = "read", !.read = Effective, !.variant = Variant]
  /\ UNCHANGED <<clock, price, sale, log, jobs, upgraded, shelf, out, unlogged, pauses, edits>>

PanelRead(v) ==
  /\ work.kind = "none" /\ v \in Unreviewed /\ Room
  /\ work' = [kind |-> "panel", step |-> "read", rows |-> {v},
              read |-> Effective, variant |-> Variant]
  /\ UNCHANGED <<clock, price, sale, log, jobs, upgraded, shelf, out, unlogged, pauses, edits>>

\* The template is the product's own or the one chosen on the page.
ScanRead(variant) ==
  /\ work.kind = "none" /\ Room
  /\ work' = [kind |-> "scan", step |-> "read", rows |-> {},
              read |-> Effective, variant |-> variant]
  /\ UNCHANGED <<clock, price, sale, log, jobs, upgraded, shelf, out, unlogged, pauses, edits>>

Enqueue ==
  /\ work.step = "read"
  /\ jobs' = Append(jobs, NewJob)
  /\ work' = [work EXCEPT !.step = "queued", !.read = None, !.variant = None]
  /\ clock' = clock + 1
  /\ UNCHANGED <<price, sale, log, upgraded, shelf, out, unlogged, pauses, edits>>

\* The pass has reviewed its rows already; with or without a label of its own.
PassMark ==
  /\ work.kind = "pass" /\ work.step = "queued"
  /\ log' = [v \in DOMAIN log |->
               IF v \in work.rows THEN [log[v] EXCEPT !.printed = TRUE] ELSE log[v]]
  /\ work' = Idle
  /\ UNCHANGED <<clock, price, sale, jobs, upgraded, shelf, out, unlogged, pauses, edits>>

\* The panel reviews its row, the scanner all that wait by then.
Mark ==
  /\ work.kind \in {"panel", "scan"} /\ work.step = "queued"
  /\ Review(IF work.kind = "panel" THEN work.rows ELSE Unreviewed, TRUE)
  /\ work' = Idle
  /\ clock' = clock + 1
  /\ UNCHANGED <<price, sale, jobs, upgraded, shelf, out, unlogged, pauses, edits>>

Dismiss(v) ==
  /\ v \in Unreviewed
  /\ Review({v}, FALSE)
  /\ clock' = clock + 1
  /\ UNCHANGED <<price, sale, jobs, upgraded, work, shelf, out, unlogged, pauses, edits>>

-----------------------------------------------------------------------------
(* Printing and the process. *)

Labels == UNION {{j} \X jobs[j].drawn : j \in DOMAIN jobs}

\* Every template shows the effective price of the moment.  A retry and the second
\* agent of a re-queued job draw again, and an agent that has slept draws a label
\* whose job another has settled.
Draw(j) ==
  /\ Effective \in jobs[j].drawn \/ Cardinality(Labels) < MaxLabels
  /\ jobs' = [jobs EXCEPT ![j].drawn = @ \cup {Effective},
                          ![j].moved = @ \/ Effective # jobs[j].asked]
  /\ UNCHANGED <<clock, price, sale, log, upgraded, work, shelf, out, unlogged, pauses, edits>>

\* Now, later, again or never, before or after another job's label.
ComeOut(j) ==
  /\ shelf' \in jobs[j].drawn
  /\ out' = j
  /\ UNCHANGED <<clock, price, sale, log, jobs, upgraded, work, unlogged, pauses, edits>>

\* "error" does not mean that no label was sent: lp timed out, the commit of "done"
\* failed, or the report of it was lost.
Fail(j) ==
  /\ ~jobs[j].failed
  /\ jobs' = [jobs EXCEPT ![j].failed = TRUE]
  /\ UNCHANGED <<clock, price, sale, log, upgraded, work, shelf, out, unlogged, pauses, edits>>

\* "done" after another's "error" needs a label that was sent.
Done(j) ==
  /\ jobs[j].failed /\ jobs[j].drawn # {}
  /\ jobs' = [jobs EXCEPT ![j].failed = FALSE]
  /\ UNCHANGED <<clock, price, sale, log, upgraded, work, shelf, out, unlogged, pauses, edits>>

\* A restart forgets who was at work, may be the one that adds the columns, the
\* rows that are there keeping NULL in them, and may import changes.
Restart ==
  /\ Changing
  /\ edits' = edits + 1
  /\ upgraded' \in {upgraded, TRUE}
  /\ work' = Idle
  /\ \/ UNCHANGED <<clock, log, unlogged>>
     \/ \E old \in Prices : Import(old)
  /\ UNCHANGED <<price, sale, jobs, shelf, out, pauses>>

\* Marks follow their label within a moment: a pause finds nobody at work.  One
\* before the first label would make no difference.
Pause ==
  /\ pauses < MaxPauses /\ work.kind = "none" /\ jobs # <<>>
  /\ pauses' = pauses + 1
  /\ clock' = clock + Apart
  /\ UNCHANGED <<price, sale, log, jobs, upgraded, work, shelf, out, unlogged, edits>>

-----------------------------------------------------------------------------
(* What staff are told. *)

Gap(v, j) == IF log[v].reviewed >= jobs[j].at THEN log[v].reviewed - jobs[j].at
                                             ELSE jobs[j].at - log[v].reviewed

\* The changes whose label an old price-change job may have been.
Candidates(j) ==
  {v \in DOMAIN log :
     /\ log[v].printed /\ log[v].reviewed # None
     /\ jobs[j].at <= log[v].reviewed + MatchBefore
     /\ log[v].reviewed <= jobs[j].at + MatchAfter}

\* _match_legacy_change: the nearest, and of equally near ones the newest.
MatchLegacyMutant(j) ==
  IF Candidates(j) = {} THEN None
  ELSE CHOOSE v \in Candidates(j) : \A w \in Candidates(j) :
         Gap(v, j) < Gap(w, j) \/ (Gap(v, j) = Gap(w, j) /\ v <= w)

MatchLegacy(j) ==
  IF Candidates(j) = {} THEN None
  ELSE CHOOSE v \in Candidates(j) : \A w \in Candidates(j) :
         Gap(v, j) < Gap(w, j) \/ (Gap(v, j) = Gap(w, j) /\ w <= v)

\* The change of a price-change label: the row it names, or the match.
ChangeOf(j) ==
  IF jobs[j].reason # "price_change" THEN None
  ELSE IF jobs[j].change # None THEN jobs[j].change ELSE MatchLegacy(j)

\* A sale label of a product that has a sale price now.
OnSaleNow(j) == jobs[j].variant = "sale" /\ sale # None

\* _infer_price: the price log's price when the label was queued.
InferPrice(j) ==
  LET before == {v \in DOMAIN log : log[v].at <= jobs[j].at}
      after == DOMAIN log \ before
  IN  CASE OnSaleNow(j) -> sale
        [] ~OnSaleNow(j) /\ before # {} -> log[Newest(before)].new
        [] ~OnSaleNow(j) /\ before = {} /\ after # {} -> log[1].old
        [] OTHER -> price

\* describe_jobs: the price shown with a label.
PriceOf(j) ==
  CASE jobs[j].price # None -> jobs[j].price
    [] jobs[j].price = None /\ ChangeOf(j) # None /\ ~OnSaleNow(j) -> log[ChangeOf(j)].new
    [] OTHER -> InferPrice(j)

\* print_history: every job with what is said of it, newest first.  (A filter by
\* reason, day or product only leaves rows out.)
Listed ==
  Reverse([j \in DOMAIN jobs |->
             [id |-> j, reason |-> jobs[j].reason, price |-> PriceOf(j), change |-> ChangeOf(j)]])

LastPrintMutant ==
  IF jobs = <<>> THEN None ELSE Len(jobs)

\* last_prints_for: the newest label that did not fail.
LastPrint ==
  LET printed == {j \in DOMAIN jobs : ~jobs[j].failed}
  IN  IF printed = {} THEN None ELSE Newest(printed)

\* matches_current_price, and what /last-print, look-ups and searches make of it.
Matches(j) == PriceOf(j) = Effective
AlreadyAtThisPrice == LastPrint # None /\ Matches(LastPrint)

-----------------------------------------------------------------------------
Init ==
  /\ clock = MatchBefore
  /\ price \in Prices
  /\ sale = None
  /\ log = <<>> /\ jobs = <<>>
  /\ upgraded \in BOOLEAN
  /\ work = Idle
  /\ shelf = None /\ out = None
  /\ unlogged = FALSE
  /\ pauses = 0 /\ edits = 0

Next ==
  \/ \E p \in Prices : SyncPrice(p) \/ HandEdit(p)
  \/ \E s \in SalePrices \cup {None} : SyncSale(s)
  \/ PassClaim
  \/ PassRead
  \/ \E v \in DOMAIN log : PanelRead(v) \/ Dismiss(v)
  \/ \E variant \in {"standard", "sale"} : ScanRead(variant)
  \/ Enqueue
  \/ PassMark
  \/ Mark
  \/ \E j \in DOMAIN jobs : Draw(j) \/ ComeOut(j) \/ Fail(j) \/ Done(j)
  \/ Restart
  \/ Pause

Spec == Init /\ [][Next]_vars

-----------------------------------------------------------------------------
\* Another printed change was reviewed as near to the label as its own.
Ambiguous(j) == ~(Candidates(j) \subseteq jobs[j].covers)

\* The panel printed an older change while a newer one waited.
Superseded(j) ==
  \E v \in DOMAIN log : log[v].at <= jobs[j].at /\ \A w \in jobs[j].covers : w < v

\* What the price log can tell about an old label: base price, standard
\* template, every move logged when it came, and no second change that fits.
Knowable(j) ==
  \/ jobs[j].price # None
  \/ /\ jobs[j].base /\ jobs[j].variant = "standard" /\ ~unlogged
     /\ jobs[j].reason = "price_change" => ~Ambiguous(j) /\ ~Superseded(j)

\* The print history shows the price that is on every label of the job, also of
\* one that is said to have failed, unless the price moved between reading it and
\* drawing the label or nothing recorded what it was.
HistoryShowsTheLabel ==
  \A i \in DOMAIN Listed :
    LET row == Listed[i]
        j == jobs[row.id]
    IN  ~j.moved /\ Knowable(row.id) => \A s \in j.drawn : row.price = s

\* "A label at this price was already printed" is said exactly when the label on
\* the shelf shows the price, as long as that label is of the newest job that is
\* not said to have failed.  So staff neither print it twice nor leave an old one.
\* It promises nothing when the label on the shelf is of a job that ended in
\* error, when a newer one is on its way, was dropped or came out earlier, nor
\* when the price moved between reading it and drawing the label.
WarningIsTrue ==
  /\ out # None
  /\ ~jobs[out].failed /\ ~jobs[out].moved /\ Knowable(out)
  /\ \A j \in DOMAIN jobs : j > out => jobs[j].failed
  => (AlreadyAtThisPrice <=> shelf = Effective)
=============================================================================
