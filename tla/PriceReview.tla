---------------------------- MODULE PriceReview ----------------------------
(***************************************************************************)
(* What becomes of a price change: the PriceHistory rows a sync writes     *)
(* (app/services/loader.py), the automatic label pass                      *)
(* (app/services/auto_print.py), the review panel and the scanner's        *)
(* /api/print (app/routes/api.py), all racing on one product, and the      *)
(* printer that renders a job's label from the price of that moment.       *)
(*                                                                         *)
(* Changes of one product are numbered in the order they commit; price is  *)
(* the newest.  recorded_at and created_at are compared through these      *)
(* numbers: a job was created at or after change v iff v had committed     *)
(* when created_at was set.  reviewed_at is the stamp of whoever wrote it. *)
(* Products do not share rows, so one product stands for each.             *)
(***************************************************************************)
EXTENDS Naturals, FiniteSets

CONSTANTS
  Passes,      \* threads that run auto_print_price_changes
  Scanners,    \* threads that serve POST /api/print
  Panels,      \* threads that serve POST /api/price-changes/print
  Dismissed,   \* the stamp of POST /api/price-changes/dismiss
  Null,        \* reviewed_at IS NULL; no lock holder
  MaxChanges,  \* bound: price changes synced
  MaxFaults    \* bound: refused or failing enqueues and crashes

ASSUME PriceReviewAssumption ==
  /\ MaxChanges \in Nat /\ MaxFaults \in Nat
  /\ IsFiniteSet(Passes) /\ IsFiniteSet(Scanners) /\ IsFiniteSet(Panels)
  /\ Passes \cap (Scanners \cup Panels) = {} /\ Scanners \cap Panels = {}
  /\ {Dismissed, Null} \cap (Passes \cup Scanners \cup Panels) = {}
  /\ Dismissed # Null

VARIABLES
  mode,        \* PRINT_MODE: "local" or "remote"
  price,       \* the number of the newest committed change
  stamp,       \* reviewed_at of each change: Null, or who wrote it
  marked,      \* label_printed of each change
  lock,        \* _pass_lock
  ppc, group,  \* each pass, and the rows it has read
  won,         \* history: the rows the pass's claim has won
  spc, srows,  \* each scanner request, and the rows it has read
  npc, nsel, nrow, nprinted,  \* each panel request: the ids left, the one at
                              \* hand, and whether the product got its label
  jobs,        \* the product's print_jobs rows, oldest first
  shelf,       \* the price on the newest label that came out
  faults,      \* faults so far (bound only)
  abandoned    \* history: changes whose claiming pass died before its label

pass == <<lock, ppc, group, won>>
scan == <<spc, srows>>
panel == <<npc, nsel, nrow, nprinted>>
rows == <<stamp, marked>>
vars == <<mode, price, stamp, marked, lock, ppc, group, won, spc, srows, npc,
          nsel, nrow, nprinted, jobs, shelf, faults, abandoned>>

\* Definitions named ...Mutant stand before the definition they distort: bugs
\* the properties below must notice.  No specification uses them.

Changes == 1 .. MaxChanges
Unreviewed == {v \in 1 .. price : stamp[v] = Null}

\* Every scanner and panel request queues at most one label, and every other
\* label consumes the claim on at least one change.
JobIds == 1 .. (Cardinality(Scanners) + Cardinality(Panels) + MaxChanges)
Ids == {j \in JobIds : jobs[j].status # "absent"}
Fresh(j) == j \in JobIds \ Ids /\ \A k \in JobIds \ Ids : j <= k

\* A row of print_jobs: at is the newest change when it was created, shows the
\* price its label was rendered with, by who queued it, covers the changes
\* whose claim it consumed, and live whether somebody still works on it.
NoJob == [status |-> "absent", at |-> 0, shows |-> 0, by |-> Null,
          covers |-> {}, live |-> FALSE]

-----------------------------------------------------------------------------
(* The sync. *)

\* upsert_record moves the price and appends an unreviewed PriceHistory row.
Sync ==
  /\ price < MaxChanges
  /\ price' = price + 1
  /\ UNCHANGED <<mode, rows, pass, scan, panel, jobs, shelf, faults, abandoned>>

-----------------------------------------------------------------------------
(* Queueing a label: _enqueue_for_product. *)

\* created_at is set before the INSERT gets SQLite's write lock; a sync that
\* commits in between is a Sync that follows, for nobody sees the row sooner.
Insert(who, claimed) ==
  \E j \in JobIds :
    /\ Fresh(j)
    /\ jobs' = [jobs EXCEPT ![j] =
         [status |-> "queued", at |-> price, shows |-> 0, by |-> who,
          covers |-> claimed, live |-> TRUE]]

Fault == faults < MaxFaults /\ faults' = faults + 1

\* No worker (RuntimeError) or no room (QueueFull): only the local queue refuses.
Refused == mode = "local" /\ Fault /\ UNCHANGED jobs

\* Any other exception, such as a locked database: no row is inserted.
Raises == Fault /\ UNCHANGED jobs

-----------------------------------------------------------------------------
(* The automatic pass. *)

PassEndLockedMutant(p) ==
  /\ ppc' = [ppc EXCEPT ![p] = "idle"]
  /\ group' = [group EXCEPT ![p] = {}]
  /\ won' = [won EXCEPT ![p] = {}]
  /\ UNCHANGED lock

\* The pass is over: the finally frees the lock.
PassEnd(p) ==
  /\ lock' = Null
  /\ ppc' = [ppc EXCEPT ![p] = "idle"]
  /\ group' = [group EXCEPT ![p] = {}]
  /\ won' = [won EXCEPT ![p] = {}]

\* The lock is taken without blocking; the unreviewed rows are read.
PassRead(p) ==
  /\ ppc[p] = "idle"
  /\ lock = Null
  /\ Unreviewed # {}
  /\ lock' = p
  /\ ppc' = [ppc EXCEPT ![p] = "claim"]
  /\ group' = [group EXCEPT ![p] = Unreviewed]
  /\ UNCHANGED <<mode, price, rows, won, scan, panel, jobs, shelf, faults, abandoned>>

Claimable(p) == {v \in group[p] : stamp[v] = Null}
ClaimedAnyMutant(p) == group[p]
Claimed(p) == {v \in group[p] : stamp[v] = p}

\* _claim: the conditional UPDATE; claiming nothing skips the product.
PassClaim(p) ==
  /\ ppc[p] = "claim"
  /\ stamp' = [v \in Changes |-> IF v \in Claimable(p) THEN p ELSE stamp[v]]
  /\ IF Claimable(p) = {}
       THEN PassEnd(p)
       ELSE /\ ppc' = [ppc EXCEPT ![p] = "check"]
            /\ won' = [won EXCEPT ![p] = Claimable(p)]
            /\ UNCHANGED <<lock, group>>
  /\ UNCHANGED <<mode, price, marked, scan, panel, jobs, shelf, faults, abandoned>>

AlreadyPrintedOldestMutant(p) ==
  \E j \in Ids : /\ jobs[j].status # "error"
                 /\ \E v \in group[p] : jobs[j].at >= v

\* _already_printed_since: a label not failed, created at or after the newest
\* change of the group.
AlreadyPrinted(p) ==
  \E j \in Ids : /\ jobs[j].status # "error"
                 /\ \A v \in group[p] : jobs[j].at >= v

PassCheck(p) ==
  /\ ppc[p] = "check"
  /\ ppc' = [ppc EXCEPT ![p] = IF AlreadyPrinted(p) THEN "mark" ELSE "enqueue"]
  /\ UNCHANGED <<mode, price, rows, lock, group, won, scan, panel, jobs, shelf, faults, abandoned>>

PassEnqueueReleasesMutant(p) ==
  /\ ppc[p] = "enqueue"
  /\ \/ Insert(p, won[p]) /\ UNCHANGED faults
     \/ Refused
  /\ ppc' = [ppc EXCEPT ![p] = "release"]
  /\ UNCHANGED <<mode, price, rows, lock, group, won, scan, panel, shelf, abandoned>>

\* The label is queued, or the queue refuses and the claim is to be given back.
PassEnqueue(p) ==
  /\ ppc[p] = "enqueue"
  /\ \/ /\ Insert(p, won[p])
        /\ ppc' = [ppc EXCEPT ![p] = "mark"]
        /\ UNCHANGED faults
     \/ /\ Refused
        /\ ppc' = [ppc EXCEPT ![p] = "release"]
  /\ UNCHANGED <<mode, price, rows, lock, group, won, scan, panel, shelf, abandoned>>

\* Only RuntimeError and QueueFull are caught: any other exception leaves
\* through the finally that frees the lock, and the claim stays.
PassRaises(p) ==
  /\ ppc[p] = "enqueue"
  /\ Raises
  /\ abandoned' = abandoned \cup Claimed(p)
  /\ PassEnd(p)
  /\ UNCHANGED <<mode, price, rows, scan, panel, shelf>>

PassKeepsClaimMutant(p) ==
  /\ ppc[p] = "release"
  /\ PassEnd(p)
  /\ UNCHANGED <<mode, price, rows, scan, panel, jobs, shelf, faults, abandoned>>

\* _release: WHERE reviewed_at is still this pass's own stamp.
PassRelease(p) ==
  /\ ppc[p] = "release"
  /\ stamp' = [v \in Changes |-> IF v \in Claimed(p) THEN Null ELSE stamp[v]]
  /\ PassEnd(p)
  /\ UNCHANGED <<mode, price, marked, scan, panel, jobs, shelf, faults, abandoned>>

PassMark(p) ==
  /\ ppc[p] = "mark"
  /\ marked' = [v \in Changes |-> marked[v] \/ v \in Claimed(p)]
  /\ PassEnd(p)
  /\ UNCHANGED <<mode, price, stamp, scan, panel, jobs, shelf, faults, abandoned>>

-----------------------------------------------------------------------------
(* The scanner's POST /api/print. *)

ScanEnqueue(s) ==
  /\ spc[s] = "idle"
  /\ Insert(s, {})
  /\ spc' = [spc EXCEPT ![s] = "read"]
  /\ UNCHANGED <<mode, price, rows, pass, srows, panel, shelf, faults, abandoned>>

\* The unreviewed rows are read after the label has been queued.
ScanRead(s) ==
  /\ spc[s] = "read"
  /\ srows' = [srows EXCEPT ![s] = Unreviewed]
  /\ spc' = [spc EXCEPT ![s] = "mark"]
  /\ UNCHANGED <<mode, price, rows, pass, panel, jobs, shelf, faults, abandoned>>

\* ORM writes by primary key: they do not look at reviewed_at again.
ScanMark(s) ==
  /\ spc[s] = "mark"
  /\ stamp' = [v \in Changes |-> IF v \in srows[s] THEN s ELSE stamp[v]]
  /\ marked' = [v \in Changes |-> marked[v] \/ v \in srows[s]]
  /\ spc' = [spc EXCEPT ![s] = "over"]
  /\ srows' = [srows EXCEPT ![s] = {}]
  /\ UNCHANGED <<mode, price, pass, panel, jobs, shelf, faults, abandoned>>

-----------------------------------------------------------------------------
(* The review panel: print_price_changes, the ids in the order of the body. *)

PanelStart(n) ==
  /\ npc[n] = "idle"
  /\ \E ids \in SUBSET (1 .. price) : nsel' = [nsel EXCEPT ![n] = ids]
  /\ npc' = [npc EXCEPT ![n] = "loop"]
  /\ UNCHANGED <<mode, price, rows, pass, scan, nrow, nprinted, jobs, shelf, faults, abandoned>>

\* A row somebody reviewed is skipped; once the product has its label, a
\* further row of the same product is merged into it.
PanelNext(n, v) ==
  /\ npc[n] = "loop"
  /\ v \in nsel[n]
  /\ nsel' = [nsel EXCEPT ![n] = @ \ {v}]
  /\ IF stamp[v] # Null
       THEN UNCHANGED <<npc, nrow>>
       ELSE /\ nrow' = [nrow EXCEPT ![n] = v]
            /\ npc' = [npc EXCEPT ![n] = IF nprinted[n] THEN "mark" ELSE "enqueue"]
  /\ UNCHANGED <<mode, price, rows, pass, scan, nprinted, jobs, shelf, faults, abandoned>>

PanelMarksRefusedMutant(n) ==
  /\ npc[n] = "enqueue"
  /\ \/ Insert(n, {nrow[n]}) /\ UNCHANGED faults
     \/ Refused
  /\ npc' = [npc EXCEPT ![n] = "mark"]
  /\ nprinted' = [nprinted EXCEPT ![n] = TRUE]
  /\ UNCHANGED <<mode, price, rows, pass, scan, nsel, nrow, shelf, abandoned>>

\* One label per product, or "busy"/"unavailable" for this row.
PanelEnqueue(n) ==
  /\ npc[n] = "enqueue"
  /\ \/ /\ Insert(n, {nrow[n]})
        /\ npc' = [npc EXCEPT ![n] = "mark"]
        /\ nprinted' = [nprinted EXCEPT ![n] = TRUE]
        /\ UNCHANGED <<nrow, faults>>
     \/ /\ Refused
        /\ npc' = [npc EXCEPT ![n] = "loop"]
        /\ nrow' = [nrow EXCEPT ![n] = 0]
        /\ UNCHANGED nprinted
  /\ UNCHANGED <<mode, price, rows, pass, scan, nsel, shelf, abandoned>>

PanelMark(n) ==
  /\ npc[n] = "mark"
  /\ stamp' = [stamp EXCEPT ![nrow[n]] = n]
  /\ marked' = [marked EXCEPT ![nrow[n]] = TRUE]
  /\ npc' = [npc EXCEPT ![n] = "loop"]
  /\ nrow' = [nrow EXCEPT ![n] = 0]
  /\ UNCHANGED <<mode, price, pass, scan, nsel, nprinted, jobs, shelf, faults, abandoned>>

PanelEnd(n) ==
  /\ npc[n] = "loop"
  /\ nsel[n] = {}
  /\ npc' = [npc EXCEPT ![n] = "over"]
  /\ UNCHANGED <<mode, price, rows, pass, scan, nsel, nrow, nprinted, jobs, shelf, faults, abandoned>>

\* Dismissing is one conditional UPDATE.
Dismiss(v) ==
  /\ v \in Unreviewed
  /\ stamp' = [stamp EXCEPT ![v] = Dismissed]
  /\ UNCHANGED <<mode, price, marked, pass, scan, panel, jobs, shelf, faults, abandoned>>

-----------------------------------------------------------------------------
(* The printer: the local worker or the store's agent, one job at a time,  *)
(* oldest first.  The label shows the price at rendering.                  *)

Live(j) == jobs[j].live

Render(j) ==
  /\ Live(j) /\ jobs[j].status = "queued"
  /\ \A k \in Ids : k # j /\ Live(k) => jobs[k].status = "queued" /\ j < k
  /\ jobs' = [jobs EXCEPT ![j] = [@ EXCEPT !.status = "printing", !.shows = price]]
  /\ UNCHANGED <<mode, price, rows, pass, scan, panel, shelf, faults, abandoned>>

Finish(j) ==
  /\ Live(j) /\ jobs[j].status = "printing"
  /\ \/ /\ jobs' = [jobs EXCEPT ![j] = [@ EXCEPT !.status = "done", !.live = FALSE]]
        /\ shelf' = jobs[j].shows
     \/ /\ jobs' = [jobs EXCEPT ![j] = [@ EXCEPT !.status = "error", !.live = FALSE]]
        /\ UNCHANGED shelf
  /\ UNCHANGED <<mode, price, rows, pass, scan, panel, faults, abandoned>>

-----------------------------------------------------------------------------
(* The process dies: every thread and the lock are gone; the rows stay.    *)
(* Nobody works on local jobs any more, while the store's agent goes on.   *)

Crash ==
  /\ Fault
  /\ abandoned' = abandoned \cup
       UNION {Claimed(p) : p \in {x \in Passes : ppc[x] \in {"check", "enqueue", "release"}}}
  /\ lock' = Null
  /\ ppc' = [p \in Passes |-> "idle"]
  /\ group' = [p \in Passes |-> {}]
  /\ won' = [p \in Passes |-> {}]
  /\ spc' = [s \in Scanners |-> IF spc[s] = "idle" THEN "idle" ELSE "over"]
  /\ srows' = [s \in Scanners |-> {}]
  /\ npc' = [n \in Panels |-> IF npc[n] = "idle" THEN "idle" ELSE "over"]
  /\ nsel' = [n \in Panels |-> {}]
  /\ nrow' = [n \in Panels |-> 0]
  /\ nprinted' = [n \in Panels |-> FALSE]
  /\ jobs' = IF mode = "remote" THEN jobs
             ELSE [j \in JobIds |-> [jobs[j] EXCEPT !.live = FALSE]]
  /\ UNCHANGED <<mode, price, rows, shelf>>

-----------------------------------------------------------------------------
Init ==
  /\ mode \in {"local", "remote"}
  /\ price = 0
  /\ stamp = [v \in Changes |-> Null]
  /\ marked = [v \in Changes |-> FALSE]
  /\ lock = Null
  /\ ppc = [p \in Passes |-> "idle"]
  /\ group = [p \in Passes |-> {}]
  /\ won = [p \in Passes |-> {}]
  /\ spc = [s \in Scanners |-> "idle"]
  /\ srows = [s \in Scanners |-> {}]
  /\ npc = [n \in Panels |-> "idle"]
  /\ nsel = [n \in Panels |-> {}]
  /\ nrow = [n \in Panels |-> 0]
  /\ nprinted = [n \in Panels |-> FALSE]
  /\ jobs = [j \in JobIds |-> NoJob]
  /\ shelf = 0
  /\ faults = 0
  /\ abandoned = {}

PassStep(p) ==
  \/ PassRead(p)
  \/ PassClaim(p)
  \/ PassCheck(p)
  \/ PassEnqueue(p)
  \/ PassRelease(p)
  \/ PassMark(p)

ScanStep(s) == ScanEnqueue(s) \/ ScanRead(s) \/ ScanMark(s)

PanelStep(n) ==
  \/ PanelStart(n)
  \/ \E v \in Changes : PanelNext(n, v)
  \/ PanelEnqueue(n)
  \/ PanelMark(n)
  \/ PanelEnd(n)

Printer == \E j \in JobIds : Render(j) \/ Finish(j)

Next ==
  \/ Sync
  \/ \E p \in Passes : PassStep(p) \/ PassRaises(p)
  \/ \E s \in Scanners : ScanStep(s)
  \/ \E n \in Panels : PanelStep(n)
  \/ \E v \in Changes : Dismiss(v)
  \/ Printer
  \/ Crash

Spec == Init /\ [][Next]_vars

\* Syncs keep coming (the periodic job), so passes keep running, and the
\* printer works.  Staff need not do anything.
Fairness ==
  /\ \A p \in Passes : WF_vars(PassStep(p))
  /\ WF_vars(Printer)

FairSpec == Spec /\ Fairness

-----------------------------------------------------------------------------
\* A change that a pass or the panel marked as printed has a label that was
\* queued after it, so the label shows its price or a newer one.
MarkedHasLabel ==
  \A v \in Changes : marked[v] /\ stamp[v] \in Passes \cup Panels =>
    \E j \in Ids : /\ jobs[j].at >= v
                   /\ jobs[j].status \in {"printing", "done"} => jobs[j].shows >= v

\* A label the passes print consumes at least one change, and no change is
\* consumed by two of them: syncs never both print the same change.
PassLabelsAreDistinct ==
  \A j \in Ids : jobs[j].by \in Passes =>
    /\ jobs[j].covers # {}
    /\ \A k \in Ids \ {j} :
         jobs[k].by \in Passes => jobs[j].covers \cap jobs[k].covers = {}

\* What staff dismissed or printed by hand never comes back for review.
StaffVerdictsStand ==
  [][\A v \in Changes :
       stamp[v] \in Scanners \cup Panels \cup {Dismissed} => stamp'[v] # Null]_vars

Busy ==
  \/ \E p \in Passes : ppc[p] # "idle"
  \/ \E s \in Scanners : spc[s] \notin {"idle", "over"}
  \/ \E n \in Panels : npc[n] \notin {"idle", "over"}
  \/ \E j \in Ids : Live(j)

\* When all is quiet and nothing waits for review, the shelf shows the price
\* of the product, unless the newest change was dismissed, was marked by a
\* scanner print, lost its pass, or its label failed or was dropped.
QuietShelfIsCurrent ==
  ~Busy /\ Unreviewed = {} /\ price > 0 =>
    \/ shelf >= price
    \/ stamp[price] \in Scanners \cup {Dismissed}
    \/ price \in abandoned
    \/ \E j \in Ids : /\ jobs[j].at >= price
                      /\ jobs[j].status # "done"

\* Every change a sync writes is reviewed in the end, by a pass if not by staff.
ChangesAreReviewed ==
  \A v \in Changes : price >= v ~> stamp[v] # Null

\* A pass's claim on a change ends with a label queued after the change or is
\* given back, unless the pass died holding it.
ClaimsResolve ==
  \A v \in Changes : stamp[v] \in Passes ~>
    \/ stamp[v] \notin Passes
    \/ \E j \in Ids : jobs[j].at >= v
    \/ v \in abandoned

\* The comment in enqueue_print: printing any fresh label for the product
\* means whatever price is on it is now current.
ScanMarkedIsCurrent ==
  \A v \in Changes : marked[v] /\ stamp[v] \in Scanners =>
    \E j \in Ids : \/ jobs[j].at >= v
                   \/ jobs[j].status \in {"printing", "done"} /\ jobs[j].shows >= v
                   \/ jobs[j].status = "queued"
=============================================================================
