------------------------- MODULE PriceReviewProofs --------------------------
(***************************************************************************)
(* What is true of price changes and their labels for any number of        *)
(* passes, scanners, panel requests, changes and faults: the invariants of *)
(* PriceReview and the finality of what staff decided.                     *)
(***************************************************************************)
EXTENDS PriceReview, FiniteSetTheorems, TLAPS

\* The values of the fields, as opaque sets.
Writers == Passes \cup Scanners \cup Panels
Stamps == Writers \cup {Dismissed, Null}
JobStatuses == {"absent", "queued", "printing", "done", "error"}
ChangeSets == SUBSET Changes
JobRecords == [status : JobStatuses, at : Nat, shows : Nat, by : Stamps,
               covers : ChangeSets, live : BOOLEAN]

\* The types of all variables.
TypeInv ==
  /\ mode \in {"local", "remote"}
  /\ price \in 0 .. MaxChanges
  /\ stamp \in [Changes -> Stamps]
  /\ marked \in [Changes -> BOOLEAN]
  /\ lock \in Passes \cup {Null}
  /\ ppc \in [Passes -> {"idle", "claim", "check", "enqueue", "release", "mark"}]
  /\ group \in [Passes -> ChangeSets]
  /\ won \in [Passes -> ChangeSets]
  /\ spc \in [Scanners -> {"idle", "read", "mark", "over"}]
  /\ srows \in [Scanners -> ChangeSets]
  /\ npc \in [Panels -> {"idle", "loop", "enqueue", "mark", "over"}]
  /\ nsel \in [Panels -> ChangeSets]
  /\ nrow \in [Panels -> 0 .. MaxChanges]
  /\ nprinted \in [Panels -> BOOLEAN]
  /\ jobs \in [JobIds -> JobRecords]
  /\ shelf \in Nat
  /\ faults \in 0 .. MaxFaults
  /\ abandoned \in ChangeSets

\* There is a label queued at or after change v.
HasLabel(v) == \E j \in Ids : jobs[j].at >= v

\* A label of the passes has used up the claim on change v.
Consumed(v) == \E j \in Ids : jobs[j].by \in Passes /\ v \in jobs[j].covers

\* A label shows a price of its time or a newer one; the shelf shows the price
\* of the label that came out last, and one label comes out at a time.
JobsInv ==
  /\ shelf <= price
  /\ \A j \in Ids :
       /\ jobs[j].at <= price
       /\ jobs[j].status \in {"printing", "done"} =>
            jobs[j].shows >= jobs[j].at /\ jobs[j].shows <= price
       /\ jobs[j].status = "done" => shelf >= jobs[j].shows
       /\ jobs[j].status = "printing" /\ Live(j) =>
            /\ shelf <= jobs[j].shows
            /\ \A k \in Ids : jobs[k].status = "printing" /\ Live(k) => k = j

Claiming == {"check", "enqueue", "release"}

\* A pass at work holds the lock.  What it has read is not newer than the
\* newest change and is consumed by no label until it queues one; then there
\* is a label for all of it.
PassInv ==
  \A p \in Passes :
    /\ ppc[p] # "idle" <=> lock = p
    /\ \A v \in group[p] : v <= price
    /\ won[p] \subseteq group[p]
    /\ ppc[p] \in {"idle", "claim"} => won[p] = {}
    /\ ppc[p] = "claim" => \A v \in group[p] : stamp[v] # p
    /\ ppc[p] \in Claiming \cup {"claim"} => \A v \in group[p] : ~Consumed(v)
    /\ ppc[p] \in {"check", "enqueue"} => won[p] # {} /\ \A v \in won[p] : stamp[v] # Null
    /\ ppc[p] \in Claiming => \A v \in Claimed(p) : ~marked[v]
    /\ ppc[p] = "mark" => \A v \in group[p] : HasLabel(v)

\* What a reviewed row says: the panel's rows and the marked ones have a
\* label; so does one claimed by a pass, unless the pass is still at it or
\* died; a consumed change is not back for review.
RowsInv ==
  \A v \in Changes :
    /\ marked[v] => stamp[v] # Null
    /\ stamp[v] \in Panels => HasLabel(v)
    /\ stamp[v] \in Passes /\ marked[v] => HasLabel(v)
    /\ stamp[v] \in Passes /\ v \notin abandoned =>
         \/ HasLabel(v)
         \/ ppc[stamp[v]] \in Claiming /\ v \in group[stamp[v]]
    /\ Consumed(v) => stamp[v] # Null

\* A panel request whose product has its label has a label for every row it
\* has still to look at.
PanelInv ==
  \A n \in Panels :
    /\ \A v \in nsel[n] : v <= price
    /\ nrow[n] <= price
    /\ npc[n] \in {"enqueue", "mark"} => nrow[n] \in Changes
    /\ npc[n] = "idle" => ~nprinted[n]
    /\ npc[n] = "mark" => nprinted[n] /\ HasLabel(nrow[n])
    /\ nprinted[n] => \A v \in nsel[n] : HasLabel(v)

\* The conjuncts of the inductive invariant that relate two pieces of state.
Safe == JobsInv /\ PassInv /\ RowsInv /\ PanelInv /\ PassLabelsAreDistinct

\* The inductive invariant.
IInv == TypeInv /\ Safe

-----------------------------------------------------------------------------
(* The print_jobs rows. *)

\* The fields of a row.
LEMMA RecordFields ==
  ASSUME NEW x \in JobRecords
  PROVE  /\ x.status \in JobStatuses /\ x.at \in Nat /\ x.shows \in Nat
         /\ x.by \in Stamps /\ x.covers \in ChangeSets /\ x.live \in BOOLEAN
BY DEF JobRecords

\* Queueing a label adds one row, after all changes there are.
LEMMA InsertEffect ==
  ASSUME jobs \in [JobIds -> JobRecords], price \in Nat,
         NEW who \in Stamps, NEW claimed \in ChangeSets, Insert(who, claimed)
  PROVE  \E j \in JobIds :
           /\ j \notin Ids
           /\ jobs' \in [JobIds -> JobRecords]
           /\ jobs'[j].status = "queued" /\ jobs'[j].at = price /\ jobs'[j].by = who
           /\ jobs'[j].covers = claimed /\ jobs'[j].live
           /\ \A k \in JobIds : k # j => jobs'[k] = jobs[k]
           /\ Ids' = Ids \cup {j}
<1> DEFINE x == [status |-> "queued", at |-> price, shows |-> 0, by |-> who,
                 covers |-> claimed, live |-> TRUE]
<1>1. PICK j \in JobIds : j \notin Ids /\ jobs' = [jobs EXCEPT ![j] = x]
  BY DEF Insert, Fresh
<1>3. "queued" \in JobStatuses /\ 0 \in Nat
  BY DEF JobStatuses
<1>4. x \in JobRecords
  BY <1>3 DEF JobRecords
<1>5. /\ x.status = "queued" /\ x.at = price /\ x.by = who
      /\ x.covers = claimed /\ x.live
  OBVIOUS
<1> HIDE DEF x
<1>6. /\ jobs' \in [JobIds -> JobRecords] /\ jobs'[j] = x
      /\ \A k \in JobIds : k # j => jobs'[k] = jobs[k]
  BY <1>1, <1>4
<1>7. Ids' = Ids \cup {j}
  BY <1>5, <1>6 DEF Ids, JobIds
<1> QED
  BY <1>1, <1>5, <1>6, <1>7

\* A step that inserts no row and leaves to each what it was queued for.
SameLabels ==
  /\ jobs' \in [JobIds -> JobRecords]
  /\ \A j \in JobIds :
       /\ jobs'[j].status = "absent" <=> jobs[j].status = "absent"
       /\ jobs'[j].at = jobs[j].at /\ jobs'[j].by = jobs[j].by
       /\ jobs'[j].covers = jobs[j].covers

\* The record of a row that is being printed.
LEMMA RenderedRecord ==
  ASSUME NEW x \in JobRecords, NEW n \in Nat
  PROVE  /\ [x EXCEPT !.status = "printing", !.shows = n] \in JobRecords
         /\ [x EXCEPT !.status = "printing", !.shows = n].status = "printing"
         /\ [x EXCEPT !.status = "printing", !.shows = n].shows = n
         /\ [x EXCEPT !.status = "printing", !.shows = n].at = x.at
         /\ [x EXCEPT !.status = "printing", !.shows = n].by = x.by
         /\ [x EXCEPT !.status = "printing", !.shows = n].covers = x.covers
         /\ [x EXCEPT !.status = "printing", !.shows = n].live = x.live
BY DEF JobRecords, JobStatuses

\* The record of a row that has its verdict.
LEMMA SettledRecord ==
  ASSUME NEW x \in JobRecords, NEW s \in JobStatuses
  PROVE  /\ [x EXCEPT !.status = s, !.live = FALSE] \in JobRecords
         /\ [x EXCEPT !.status = s, !.live = FALSE].status = s
         /\ [x EXCEPT !.status = s, !.live = FALSE].shows = x.shows
         /\ [x EXCEPT !.status = s, !.live = FALSE].at = x.at
         /\ [x EXCEPT !.status = s, !.live = FALSE].by = x.by
         /\ [x EXCEPT !.status = s, !.live = FALSE].covers = x.covers
         /\ [x EXCEPT !.status = s, !.live = FALSE].live = FALSE
BY DEF JobRecords

\* The record of a row nobody works on any more.
LEMMA DroppedRecord ==
  ASSUME NEW x \in JobRecords
  PROVE  /\ [x EXCEPT !.live = FALSE] \in JobRecords
         /\ [x EXCEPT !.live = FALSE].status = x.status
         /\ [x EXCEPT !.live = FALSE].shows = x.shows
         /\ [x EXCEPT !.live = FALSE].at = x.at
         /\ [x EXCEPT !.live = FALSE].by = x.by
         /\ [x EXCEPT !.live = FALSE].covers = x.covers
         /\ [x EXCEPT !.live = FALSE].live = FALSE
BY DEF JobRecords

\* Rendering changes one queued row that somebody works on, while no other
\* such row is printing.
LEMMA RenderEffect ==
  ASSUME jobs \in [JobIds -> JobRecords], price \in Nat, NEW j \in JobIds, Render(j)
  PROVE  /\ SameLabels
         /\ jobs[j].status = "queued" /\ Live(j)
         /\ jobs'[j].status = "printing" /\ jobs'[j].shows = price
         /\ \A k \in JobIds : k # j => jobs'[k] = jobs[k]
         /\ \A k \in Ids : k # j /\ Live(k) => jobs[k].status # "printing"
<1> DEFINE x == [jobs[j] EXCEPT !.status = "printing", !.shows = price]
<1>1. /\ x \in JobRecords /\ x.status = "printing" /\ x.shows = price
      /\ x.at = jobs[j].at /\ x.by = jobs[j].by /\ x.covers = jobs[j].covers
  <2>1. jobs[j] \in JobRecords /\ price \in Nat
    OBVIOUS
  <2> QED
    BY <2>1, RenderedRecord
<1>2. jobs' = [jobs EXCEPT ![j] = x]
  BY DEF Render
<1> HIDE DEF x
<1>3. /\ jobs' \in [JobIds -> JobRecords] /\ jobs'[j] = x
      /\ \A k \in JobIds : k # j => jobs'[k] = jobs[k]
  BY <1>1, <1>2
<1>4. jobs[j].status = "queued" /\ Live(j)
  BY DEF Render
<1>5. \A k \in Ids : k # j /\ Live(k) => jobs[k].status # "printing"
  BY DEF Render
<1> QED
  BY <1>1, <1>3, <1>4, <1>5 DEF SameLabels

\* A printing row gets its verdict, and nobody works on it any more.
LEMMA FinishEffect ==
  ASSUME jobs \in [JobIds -> JobRecords], NEW j \in JobIds, Finish(j)
  PROVE  /\ SameLabels
         /\ jobs[j].status = "printing" /\ Live(j) /\ ~Live(j)'
         /\ jobs'[j].shows = jobs[j].shows
         /\ \/ jobs'[j].status = "done" /\ shelf' = jobs[j].shows
            \/ jobs'[j].status = "error" /\ shelf' = shelf
         /\ \A k \in JobIds : k # j => jobs'[k] = jobs[k]
<1>1. PICK s \in {"done", "error"} :
        /\ jobs' = [jobs EXCEPT ![j] = [jobs[j] EXCEPT !.status = s, !.live = FALSE]]
        /\ \/ s = "done" /\ shelf' = jobs[j].shows
           \/ s = "error" /\ shelf' = shelf
  BY DEF Finish
<1> DEFINE x == [jobs[j] EXCEPT !.status = s, !.live = FALSE]
<1>2. /\ x \in JobRecords /\ x.status = s /\ x.shows = jobs[j].shows /\ x.live = FALSE
      /\ x.at = jobs[j].at /\ x.by = jobs[j].by /\ x.covers = jobs[j].covers
  <2>1. jobs[j] \in JobRecords /\ s \in JobStatuses
    BY DEF JobStatuses
  <2> QED
    BY <2>1, SettledRecord
<1>3. jobs' = [jobs EXCEPT ![j] = x]
  BY <1>1
<1> HIDE DEF x
<1>4. /\ jobs' \in [JobIds -> JobRecords] /\ jobs'[j] = x
      /\ \A k \in JobIds : k # j => jobs'[k] = jobs[k]
  BY <1>2, <1>3
<1>5. jobs[j].status = "printing" /\ Live(j)
  BY DEF Finish
<1> QED
  BY <1>1, <1>2, <1>4, <1>5 DEF SameLabels, Live

\* When the process dies, rows lose at most those who work on them.
LEMMA CrashEffect ==
  ASSUME jobs \in [JobIds -> JobRecords], Crash
  PROVE  /\ SameLabels
         /\ \A j \in JobIds : /\ jobs'[j].status = jobs[j].status
                              /\ jobs'[j].shows = jobs[j].shows
                              /\ Live(j)' => Live(j)
<1>1. CASE jobs' = jobs
  BY <1>1 DEF SameLabels, Live
<1>2. CASE jobs' = [j \in JobIds |-> [jobs[j] EXCEPT !.live = FALSE]]
  <2>1. ASSUME NEW j \in JobIds
        PROVE  /\ jobs'[j] \in JobRecords /\ jobs'[j].live = FALSE
               /\ jobs'[j].status = jobs[j].status /\ jobs'[j].shows = jobs[j].shows
               /\ jobs'[j].at = jobs[j].at /\ jobs'[j].by = jobs[j].by
               /\ jobs'[j].covers = jobs[j].covers
    <3>1. /\ jobs'[j] = [jobs[j] EXCEPT !.live = FALSE] /\ jobs[j] \in JobRecords
      BY <1>2
    <3> QED
      BY <3>1, DroppedRecord
  <2>2. jobs' \in [JobIds -> JobRecords]
    BY <1>2, <2>1
  <2> QED
    BY <2>1, <2>2 DEF SameLabels, Live
<1> QED
  BY <1>1, <1>2 DEF Crash

\* Such steps keep the labels there are and the changes they consume.
LEMMA SameLabelsEffect ==
  ASSUME SameLabels
  PROVE  /\ Ids' = Ids
         /\ \A v : HasLabel(v)' <=> HasLabel(v)
         /\ \A v : Consumed(v)' <=> Consumed(v)
         /\ PassLabelsAreDistinct => PassLabelsAreDistinct'
<1>1. Ids' = Ids
  BY DEF SameLabels, Ids, JobIds
<1>2. Ids \subseteq JobIds
  BY DEF Ids
<1> QED
  BY <1>1, <1>2 DEF SameLabels, HasLabel, Consumed, PassLabelsAreDistinct

\* Steps that leave the table alone are such steps.
LEMMA UntouchedLabels ==
  ASSUME jobs \in [JobIds -> JobRecords], jobs' = jobs
  PROVE  SameLabels
BY DEF SameLabels

\* A new label is one for every change there is, and consumes what its pass
\* has claimed.
LEMMA NewLabelEffect ==
  ASSUME IInv, NEW who \in Stamps, NEW claimed \in ChangeSets, Insert(who, claimed),
         price' = price, shelf' = shelf
  PROVE  /\ jobs' \in [JobIds -> JobRecords]
         /\ \A v \in 0 .. MaxChanges : HasLabel(v) \/ v <= price => HasLabel(v)'
         /\ \A v : Consumed(v)' <=> Consumed(v) \/ (who \in Passes /\ v \in claimed)
         /\ JobsInv'
<1>1. PICK j \in JobIds :
        /\ j \notin Ids
        /\ jobs' \in [JobIds -> JobRecords]
        /\ jobs'[j].status = "queued" /\ jobs'[j].at = price /\ jobs'[j].by = who
        /\ jobs'[j].covers = claimed /\ jobs'[j].live
        /\ \A k \in JobIds : k # j => jobs'[k] = jobs[k]
        /\ Ids' = Ids \cup {j}
  BY InsertEffect, PriceReviewAssumption DEF IInv, TypeInv
<1>2. Ids \subseteq JobIds
  BY DEF Ids
<1>3. \A v \in 0 .. MaxChanges : HasLabel(v) \/ v <= price => HasLabel(v)'
  BY <1>1, <1>2 DEF HasLabel
<1>4. \A v : Consumed(v)' <=> Consumed(v) \/ (who \in Passes /\ v \in claimed)
  BY <1>1, <1>2 DEF Consumed
<1>5. JobsInv'
  BY <1>1, <1>2, PriceReviewAssumption DEF IInv, Safe, TypeInv, JobsInv, Live
<1> QED
  BY <1>1, <1>3, <1>4, <1>5

\* A pass's new label consumes changes no other label of the passes has.
LEMMA PassLabelIsDistinct ==
  ASSUME IInv, NEW p \in Passes, NEW claimed \in ChangeSets, Insert(p, claimed),
         claimed # {}, \A v \in claimed : ~Consumed(v)
  PROVE  PassLabelsAreDistinct'
<1>1. p \in Stamps /\ price \in Nat /\ jobs \in [JobIds -> JobRecords]
  BY PriceReviewAssumption DEF IInv, TypeInv, Stamps, Writers
<1>2. PICK j \in JobIds :
        /\ j \notin Ids
        /\ jobs'[j].by = p /\ jobs'[j].covers = claimed
        /\ \A k \in JobIds : k # j => jobs'[k] = jobs[k]
        /\ Ids' = Ids \cup {j}
  BY <1>1, InsertEffect
<1>3. Ids \subseteq JobIds
  BY DEF Ids
<1>4. \A k \in Ids : jobs[k].by \in Passes => jobs[k].covers \cap claimed = {}
  BY DEF Consumed
<1>5. \A k \in Ids : jobs'[k] = jobs[k]
  BY <1>2, <1>3
<1> QED
  BY <1>2, <1>4, <1>5 DEF IInv, Safe, PassLabelsAreDistinct

\* A label of a scanner or a panel request leaves those of the passes alone.
LEMMA StaffLabelEffect ==
  ASSUME IInv, NEW who \in Scanners \cup Panels, NEW claimed \in ChangeSets,
         Insert(who, claimed)
  PROVE  PassLabelsAreDistinct'
<1>1. who \in Stamps /\ who \notin Passes /\ price \in Nat /\ jobs \in [JobIds -> JobRecords]
  BY PriceReviewAssumption DEF IInv, TypeInv, Stamps, Writers
<1>2. PICK j \in JobIds :
        /\ j \notin Ids /\ jobs'[j].by = who
        /\ \A k \in JobIds : k # j => jobs'[k] = jobs[k]
        /\ Ids' = Ids \cup {j}
  BY <1>1, InsertEffect
<1>3. Ids \subseteq JobIds
  BY DEF Ids
<1>5. \A k \in Ids : jobs'[k] = jobs[k]
  BY <1>2, <1>3
<1> QED
  BY <1>1, <1>2, <1>5 DEF IInv, Safe, PassLabelsAreDistinct

\* Steps that leave the table and the shelf alone keep what labels say.
LEMMA Untouched ==
  ASSUME IInv, jobs' = jobs, shelf' = shelf, price' \in Nat, price' >= price
  PROVE  /\ \A v : HasLabel(v)' <=> HasLabel(v)
         /\ \A v : Consumed(v)' <=> Consumed(v)
         /\ JobsInv' /\ PassLabelsAreDistinct'
<1>1. SameLabels
  BY UntouchedLabels DEF IInv, TypeInv
<1>2. Ids' = Ids /\ Ids \subseteq JobIds
  BY <1>1, SameLabelsEffect DEF Ids
<1>3. /\ price \in Nat /\ shelf \in Nat
      /\ \A j \in Ids : jobs[j].at \in Nat /\ jobs[j].shows \in Nat
  BY <1>2, RecordFields, PriceReviewAssumption DEF IInv, TypeInv
<1>4. JobsInv'
  BY <1>2, <1>3 DEF IInv, Safe, JobsInv, Live
<1> QED
  BY <1>1, <1>4, SameLabelsEffect DEF IInv, Safe

\* Who writes a stamp can be told from it.
LEMMA StampsDiffer ==
  /\ \A p \in Passes : p # Null /\ p # Dismissed /\ p \notin Scanners /\ p \notin Panels
  /\ \A s \in Scanners : s # Null /\ s # Dismissed /\ s \notin Passes /\ s \notin Panels
  /\ \A n \in Panels : n # Null /\ n # Dismissed /\ n \notin Passes /\ n \notin Scanners
  /\ Dismissed # Null
BY PriceReviewAssumption

\* While one pass works, the others are idle.
LEMMA OnePassAtATime ==
  ASSUME IInv, NEW p \in Passes, ppc[p] # "idle", NEW o \in Passes, ppc[o] # "idle"
  PROVE  o = p
BY DEF IInv, Safe, PassInv

\* When a pass ends, none is at work.
LEMMA PassEndEffect ==
  ASSUME IInv, NEW p \in Passes, ppc[p] # "idle", PassEnd(p), price' = price
  PROVE  /\ PassInv' /\ lock' = Null
         /\ ppc' \in [Passes -> {"idle", "claim", "check", "enqueue", "release", "mark"}]
         /\ group' \in [Passes -> ChangeSets] /\ won' \in [Passes -> ChangeSets]
<1>1. \A o \in Passes : ppc'[o] = "idle"
  BY OnePassAtATime DEF PassEnd, IInv, TypeInv
<1>2. \A o \in Passes : o # p => group'[o] = group[o] /\ won'[o] = won[o] /\ ppc[o] = "idle"
  BY OnePassAtATime DEF PassEnd, IInv, TypeInv
<1>3. group'[p] = {} /\ won'[p] = {} /\ lock' = Null
  BY DEF PassEnd, IInv, TypeInv
<1>4. PassInv'
  BY <1>1, <1>2, <1>3, StampsDiffer DEF IInv, Safe, PassInv, Claiming
<1>5. {} \in ChangeSets
  BY DEF ChangeSets
<1> QED
  BY <1>3, <1>4, <1>5 DEF PassEnd, IInv, TypeInv

-----------------------------------------------------------------------------
(* Steps of the sync and of the automatic pass. *)

\* A sync makes a newer change.
LEMMA SyncStep == ASSUME IInv, Sync PROVE IInv'
<1>1. /\ price \in 0 .. MaxChanges /\ price < MaxChanges /\ price' = price + 1
      /\ UNCHANGED <<mode, stamp, marked, lock, ppc, group, won, spc, srows, npc, nsel, nrow,
                     nprinted, jobs, shelf, faults, abandoned>>
  BY DEF Sync, rows, pass, scan, panel, IInv, TypeInv
<1>2. price' \in 0 .. MaxChanges /\ price' \in Nat /\ price' >= price
  BY <1>1, PriceReviewAssumption
<1>3. TypeInv'
  BY <1>1, <1>2 DEF IInv, TypeInv
<1>4. /\ \A v : HasLabel(v)' <=> HasLabel(v)
      /\ \A v : Consumed(v)' <=> Consumed(v)
      /\ JobsInv' /\ PassLabelsAreDistinct'
  BY <1>1, <1>2, Untouched
<1>5. \A v \in 0 .. MaxChanges : v <= price => v <= price'
  BY <1>1
<1>6. PassInv'
  BY <1>1, <1>4, <1>5 DEF IInv, Safe, TypeInv, PassInv, Claimed, ChangeSets, Changes
<1>7. RowsInv'
  BY <1>1, <1>4 DEF IInv, Safe, RowsInv
<1>8. PanelInv'
  BY <1>1, <1>4, <1>5 DEF IInv, Safe, TypeInv, PanelInv, ChangeSets, Changes
<1> QED
  BY <1>3, <1>4, <1>6, <1>7, <1>8 DEF IInv, Safe

\* Panel requests nobody disturbs keep what is known of them.
LEMMA PanelsKept ==
  ASSUME IInv, UNCHANGED <<npc, nsel, nrow, nprinted, price>>,
         \A v \in 0 .. MaxChanges : HasLabel(v) => HasLabel(v)'
  PROVE  PanelInv'
BY DEF IInv, Safe, TypeInv, PanelInv, ChangeSets, Changes

\* The pass reads what is up for review: nothing that a label has consumed.
LEMMA PassReadStep == ASSUME IInv, NEW p \in Passes, PassRead(p) PROVE IInv'
<1>1. /\ ppc[p] = "idle" /\ lock = Null /\ lock' = p
      /\ ppc' = [ppc EXCEPT ![p] = "claim"]
      /\ group' = [group EXCEPT ![p] = Unreviewed]
      /\ UNCHANGED <<mode, price, stamp, marked, won, spc, srows, npc, nsel, nrow, nprinted,
                     jobs, shelf, faults, abandoned>>
  BY DEF PassRead, rows, scan, panel
<1>2. price \in 0 .. MaxChanges /\ price \in Nat
  BY PriceReviewAssumption DEF IInv, TypeInv
<1>3. /\ \A v : HasLabel(v)' <=> HasLabel(v)
      /\ \A v : Consumed(v)' <=> Consumed(v)
      /\ JobsInv' /\ PassLabelsAreDistinct'
  BY <1>1, <1>2, Untouched
<1>4. /\ Unreviewed \in ChangeSets
      /\ \A v \in Unreviewed : v \in Changes /\ v <= price /\ stamp[v] = Null
  BY <1>2, PriceReviewAssumption DEF Unreviewed, ChangeSets, Changes
<1>5. \A o \in Passes : ppc[o] = "idle"
  BY <1>1, StampsDiffer DEF IInv, Safe, PassInv
<1>6. TypeInv'
  BY <1>1, <1>4 DEF IInv, TypeInv
<1>7. PassInv'
  BY <1>1, <1>3, <1>4, <1>5, StampsDiffer
  DEF IInv, Safe, TypeInv, PassInv, RowsInv, Claiming
<1>8. RowsInv'
  BY <1>1, <1>3, <1>5 DEF IInv, Safe, RowsInv, Claiming
<1>9. PanelInv'
  BY <1>1, <1>3, PanelsKept
<1> QED
  BY <1>3, <1>6, <1>7, <1>8, <1>9 DEF IInv, Safe

\* The claim: what the pass has now claimed is what nobody reviewed since it
\* read, so no label is marked on it.
LEMMA PassClaimStep == ASSUME IInv, NEW p \in Passes, PassClaim(p) PROVE IInv'
<1>1. /\ ppc[p] = "claim"
      /\ stamp' = [v \in Changes |-> IF v \in Claimable(p) THEN p ELSE stamp[v]]
      /\ UNCHANGED <<mode, price, marked, spc, srows, npc, nsel, nrow, nprinted, jobs,
                      shelf, faults, abandoned>>
  BY DEF PassClaim, scan, panel
<1>2. price \in 0 .. MaxChanges /\ price \in Nat
  BY PriceReviewAssumption DEF IInv, TypeInv
<1>3. /\ \A v : HasLabel(v)' <=> HasLabel(v)
      /\ \A v : Consumed(v)' <=> Consumed(v)
      /\ JobsInv' /\ PassLabelsAreDistinct'
  BY <1>1, <1>2, Untouched
<1>4. PanelInv'
  BY <1>1, <1>3, PanelsKept
<1>5. p \in Stamps /\ stamp' \in [Changes -> Stamps]
  BY <1>1 DEF IInv, TypeInv, Stamps, Writers
<1>6. CASE Claimable(p) = {} /\ PassEnd(p)
  <2>1. stamp' = stamp
    BY <1>1, <1>6 DEF IInv, TypeInv
  <2>2. /\ PassInv' /\ lock' = Null
        /\ ppc' \in [Passes -> {"idle", "claim", "check", "enqueue", "release", "mark"}]
        /\ group' \in [Passes -> ChangeSets] /\ won' \in [Passes -> ChangeSets]
    BY <1>1, <1>6, PassEndEffect
  <2>3. TypeInv'
    BY <1>1, <2>1, <2>2 DEF IInv, TypeInv
  <2>4. \A o \in Passes : ppc[o] \notin Claiming
    BY <1>1, OnePassAtATime DEF Claiming
  <2>5. RowsInv'
    BY <1>1, <1>3, <2>1, <2>4 DEF IInv, Safe, RowsInv
  <2> QED
    BY <1>3, <1>4, <2>2, <2>3, <2>5 DEF IInv, Safe
<1>7. CASE /\ Claimable(p) # {}
           /\ ppc' = [ppc EXCEPT ![p] = "check"]
           /\ won' = [won EXCEPT ![p] = Claimable(p)]
           /\ lock' = lock /\ group' = group
  <2>1. /\ Claimable(p) \in ChangeSets /\ Claimable(p) \subseteq group[p]
        /\ \A v \in Claimable(p) : v \in Changes /\ stamp[v] = Null /\ stamp'[v] = p
        /\ \A v \in Changes : v \notin Claimable(p) => stamp'[v] = stamp[v]
    BY <1>1 DEF Claimable, ChangeSets, IInv, TypeInv
  <2>2. TypeInv'
    BY <1>1, <1>5, <1>7, <2>1 DEF IInv, TypeInv
  <2>3. \A o \in Passes : o # p => ppc[o] = "idle" /\ ppc'[o] = "idle"
    BY <1>1, <1>7, OnePassAtATime DEF IInv, TypeInv
  <2>4. /\ ppc'[p] = "check" /\ won'[p] = Claimable(p)
        /\ \A o \in Passes : o # p => won'[o] = won[o]
    BY <1>7 DEF IInv, TypeInv
  <2>5. \A v \in group[p] : v \in Changes /\ stamp[v] # p
    BY <1>1 DEF IInv, Safe, TypeInv, PassInv, ChangeSets
  <2>6. \A v \in Claimed(p)' : v \in Claimable(p)
    BY <1>7, <2>1, <2>5 DEF Claimed
  <2>7. PassInv'
    BY <1>1, <1>3, <1>7, <2>1, <2>3, <2>4, <2>6, StampsDiffer
    DEF IInv, Safe, PassInv, RowsInv, Claiming
  <2>8. RowsInv'
    BY <1>1, <1>3, <1>7, <2>1, <2>3, <2>4, StampsDiffer
    DEF IInv, Safe, RowsInv, Claiming
  <2> QED
    BY <1>3, <1>4, <2>2, <2>7, <2>8 DEF IInv, Safe
<1> QED
  BY <1>1, <1>6, <1>7 DEF PassClaim

\* The check finds a label for the whole group, or the pass goes on to queue.
LEMMA PassCheckStep == ASSUME IInv, NEW p \in Passes, PassCheck(p) PROVE IInv'
<1>1. /\ ppc[p] = "check"
      /\ ppc' = [ppc EXCEPT ![p] = IF AlreadyPrinted(p) THEN "mark" ELSE "enqueue"]
      /\ UNCHANGED <<mode, price, stamp, marked, lock, group, won, spc, srows, npc,
                      nsel, nrow, nprinted, jobs, shelf, faults, abandoned>>
  BY DEF PassCheck, rows, scan, panel
<1>2. price \in 0 .. MaxChanges /\ price \in Nat
  BY PriceReviewAssumption DEF IInv, TypeInv
<1>3. /\ \A v : HasLabel(v)' <=> HasLabel(v)
      /\ \A v : Consumed(v)' <=> Consumed(v)
      /\ JobsInv' /\ PassLabelsAreDistinct'
  BY <1>1, <1>2, Untouched
<1>4. PanelInv'
  BY <1>1, <1>3, PanelsKept
<1>5. TypeInv'
  BY <1>1 DEF IInv, TypeInv
<1>6. \A o \in Passes : o # p => ppc[o] = "idle" /\ ppc'[o] = "idle"
  BY <1>1, OnePassAtATime DEF IInv, TypeInv
<1>7. AlreadyPrinted(p) => \A v \in group[p] : HasLabel(v)
  BY DEF AlreadyPrinted, HasLabel
<1>8. \/ ppc'[p] = "mark" /\ \A v \in group[p] : HasLabel(v)
      \/ ppc'[p] = "enqueue"
  BY <1>1, <1>7 DEF IInv, TypeInv
<1>9. PassInv'
  BY <1>1, <1>3, <1>6, <1>8 DEF IInv, Safe, PassInv, Claimed, Claiming
<1>10. RowsInv'
  BY <1>1, <1>3, <1>6, <1>8 DEF IInv, Safe, RowsInv, Claiming
<1> QED
  BY <1>3, <1>4, <1>5, <1>9, <1>10 DEF IInv, Safe

\* The pass's label covers its whole group, or the claim is to be given back.
LEMMA PassEnqueueStep == ASSUME IInv, NEW p \in Passes, PassEnqueue(p) PROVE IInv'
<1>1. /\ ppc[p] = "enqueue"
      /\ UNCHANGED <<mode, price, stamp, marked, lock, group, won, spc, srows, npc,
                      nsel, nrow, nprinted, shelf, abandoned>>
  BY DEF PassEnqueue, rows, scan, panel
<1>2. price \in 0 .. MaxChanges /\ price \in Nat
  BY PriceReviewAssumption DEF IInv, TypeInv
<1>3. \A o \in Passes : o # p => ppc[o] = "idle"
  BY <1>1, OnePassAtATime DEF IInv, TypeInv
<1>4. CASE Insert(p, won[p]) /\ ppc' = [ppc EXCEPT ![p] = "mark"] /\ faults' = faults
  <2>1. p \in Stamps /\ won[p] \in ChangeSets /\ p \in Passes
    BY DEF IInv, TypeInv, Stamps, Writers
  <2>2. /\ jobs' \in [JobIds -> JobRecords]
        /\ \A v \in 0 .. MaxChanges : HasLabel(v) \/ v <= price => HasLabel(v)'
        /\ \A v : Consumed(v)' <=> Consumed(v) \/ v \in won[p]
        /\ JobsInv'
    BY <1>1, <1>4, <2>1, NewLabelEffect
  <2>3. /\ won[p] # {} /\ won[p] \subseteq group[p]
        /\ \A v \in won[p] : ~Consumed(v) /\ stamp[v] # Null
    BY <1>1 DEF IInv, Safe, PassInv, Claiming
  <2>4. PassLabelsAreDistinct'
    BY <1>4, <2>1, <2>3, PassLabelIsDistinct
  <2>5. TypeInv'
    BY <1>1, <1>4, <2>2 DEF IInv, TypeInv
  <2>6. ppc'[p] = "mark" /\ \A o \in Passes : o # p => ppc'[o] = "idle"
    BY <1>3, <1>4 DEF IInv, TypeInv
  <2>7. \A v \in Changes : v \in 0 .. MaxChanges
    BY PriceReviewAssumption DEF Changes
  <2>8. \A v \in group[p] : HasLabel(v)'
    BY <1>2, <2>2, <2>7 DEF IInv, Safe, TypeInv, PassInv, ChangeSets
  <2>9. PassInv'
    BY <1>1, <1>3, <2>6, <2>8 DEF IInv, Safe, PassInv, Claiming
  <2>10. RowsInv'
    BY <1>1, <1>3, <2>2, <2>3, <2>6, <2>7, <2>8 DEF IInv, Safe, RowsInv, Claiming
  <2>11. PanelInv'
    BY <1>1, <2>2, PanelsKept
  <2> QED
    BY <2>2, <2>4, <2>5, <2>9, <2>10, <2>11 DEF IInv, Safe
<1>5. CASE Refused /\ ppc' = [ppc EXCEPT ![p] = "release"]
  <2>1. jobs' = jobs /\ faults' \in 0 .. MaxFaults
    BY <1>5, PriceReviewAssumption DEF Refused, Fault, IInv, TypeInv
  <2>2. /\ \A v : HasLabel(v)' <=> HasLabel(v)
        /\ \A v : Consumed(v)' <=> Consumed(v)
        /\ JobsInv' /\ PassLabelsAreDistinct'
    BY <1>1, <1>2, <2>1, Untouched
  <2>3. TypeInv'
    BY <1>1, <1>5, <2>1 DEF IInv, TypeInv
  <2>4. ppc'[p] = "release" /\ \A o \in Passes : o # p => ppc'[o] = "idle"
    BY <1>3, <1>5 DEF IInv, TypeInv
  <2>5. PassInv'
    BY <1>1, <1>3, <2>2, <2>4 DEF IInv, Safe, PassInv, Claimed, Claiming
  <2>6. RowsInv'
    BY <1>1, <1>3, <2>2, <2>4 DEF IInv, Safe, RowsInv, Claiming
  <2>7. PanelInv'
    BY <1>1, <2>2, PanelsKept
  <2> QED
    BY <2>2, <2>3, <2>5, <2>6, <2>7 DEF IInv, Safe
<1> QED
  BY <1>4, <1>5 DEF PassEnqueue

\* The pass dies of an exception, its claim is abandoned.
LEMMA PassRaisesStep == ASSUME IInv, NEW p \in Passes, PassRaises(p) PROVE IInv'
<1>1. /\ ppc[p] = "enqueue" /\ PassEnd(p)
      /\ abandoned' = abandoned \cup Claimed(p)
      /\ faults' \in 0 .. MaxFaults
      /\ UNCHANGED <<mode, price, stamp, marked, spc, srows, npc, nsel, nrow, nprinted,
                      jobs, shelf>>
  BY PriceReviewAssumption DEF PassRaises, Raises, Fault, rows, scan, panel, IInv, TypeInv
<1>2. price \in 0 .. MaxChanges /\ price \in Nat
  BY PriceReviewAssumption DEF IInv, TypeInv
<1>3. /\ \A v : HasLabel(v)' <=> HasLabel(v)
      /\ \A v : Consumed(v)' <=> Consumed(v)
      /\ JobsInv' /\ PassLabelsAreDistinct'
  BY <1>1, <1>2, Untouched
<1>4. PanelInv'
  BY <1>1, <1>3, PanelsKept
<1>5. /\ PassInv' /\ lock' = Null
      /\ ppc' \in [Passes -> {"idle", "claim", "check", "enqueue", "release", "mark"}]
      /\ group' \in [Passes -> ChangeSets] /\ won' \in [Passes -> ChangeSets]
  BY <1>1, PassEndEffect
<1>6. abandoned' \in ChangeSets
  BY <1>1 DEF Claimed, IInv, TypeInv, ChangeSets
<1>7. TypeInv'
  BY <1>1, <1>5, <1>6 DEF IInv, TypeInv
<1>8. \A o \in Passes : ppc[o] \in Claiming => o = p
  BY <1>1, OnePassAtATime DEF Claiming
<1>9. RowsInv'
  BY <1>1, <1>3, <1>8 DEF IInv, Safe, RowsInv, Claimed
<1> QED
  BY <1>3, <1>4, <1>5, <1>7, <1>9 DEF IInv, Safe

\* The claim is given back: no label has consumed it and none is marked.
LEMMA PassReleaseStep == ASSUME IInv, NEW p \in Passes, PassRelease(p) PROVE IInv'
<1>1. /\ ppc[p] = "release" /\ PassEnd(p)
      /\ stamp' = [v \in Changes |-> IF v \in Claimed(p) THEN Null ELSE stamp[v]]
      /\ UNCHANGED <<mode, price, marked, spc, srows, npc, nsel, nrow, nprinted, jobs,
                      shelf, faults, abandoned>>
  BY DEF PassRelease, scan, panel
<1>2. price \in 0 .. MaxChanges /\ price \in Nat
  BY PriceReviewAssumption DEF IInv, TypeInv
<1>3. /\ \A v : HasLabel(v)' <=> HasLabel(v)
      /\ \A v : Consumed(v)' <=> Consumed(v)
      /\ JobsInv' /\ PassLabelsAreDistinct'
  BY <1>1, <1>2, Untouched
<1>4. PanelInv'
  BY <1>1, <1>3, PanelsKept
<1>5. /\ PassInv' /\ lock' = Null
      /\ ppc' \in [Passes -> {"idle", "claim", "check", "enqueue", "release", "mark"}]
      /\ group' \in [Passes -> ChangeSets] /\ won' \in [Passes -> ChangeSets]
  BY <1>1, PassEndEffect
<1>6. Null \in Stamps /\ stamp' \in [Changes -> Stamps]
  BY <1>1 DEF IInv, TypeInv, Stamps
<1>7. TypeInv'
  BY <1>1, <1>5, <1>6 DEF IInv, TypeInv
<1>8. \A o \in Passes : ppc[o] \in Claiming => o = p
  BY <1>1, OnePassAtATime DEF Claiming
<1>9. \A v \in Claimed(p) : v \in group[p] /\ ~marked[v] /\ ~Consumed(v)
  BY <1>1 DEF IInv, Safe, PassInv, Claiming, Claimed
<1>10. RowsInv'
  BY <1>1, <1>3, <1>8, <1>9, StampsDiffer DEF IInv, Safe, RowsInv, Claimed
<1> QED
  BY <1>3, <1>4, <1>5, <1>7, <1>10 DEF IInv, Safe

\* The pass marks what it claimed, for which there is a label.
LEMMA PassMarkStep == ASSUME IInv, NEW p \in Passes, PassMark(p) PROVE IInv'
<1>1. /\ ppc[p] = "mark" /\ PassEnd(p)
      /\ marked' = [v \in Changes |-> marked[v] \/ v \in Claimed(p)]
      /\ UNCHANGED <<mode, price, stamp, spc, srows, npc, nsel, nrow, nprinted, jobs,
                      shelf, faults, abandoned>>
  BY DEF PassMark, scan, panel
<1>2. price \in 0 .. MaxChanges /\ price \in Nat
  BY PriceReviewAssumption DEF IInv, TypeInv
<1>3. /\ \A v : HasLabel(v)' <=> HasLabel(v)
      /\ \A v : Consumed(v)' <=> Consumed(v)
      /\ JobsInv' /\ PassLabelsAreDistinct'
  BY <1>1, <1>2, Untouched
<1>4. PanelInv'
  BY <1>1, <1>3, PanelsKept
<1>5. /\ PassInv' /\ lock' = Null
      /\ ppc' \in [Passes -> {"idle", "claim", "check", "enqueue", "release", "mark"}]
      /\ group' \in [Passes -> ChangeSets] /\ won' \in [Passes -> ChangeSets]
  BY <1>1, PassEndEffect
<1>6. marked' \in [Changes -> BOOLEAN]
  BY <1>1 DEF IInv, TypeInv
<1>7. TypeInv'
  BY <1>1, <1>5, <1>6 DEF IInv, TypeInv
<1>8. \A o \in Passes : ppc[o] \notin Claiming
  BY <1>1, OnePassAtATime DEF Claiming
<1>9. \A v \in Claimed(p) : stamp[v] = p /\ HasLabel(v)
  BY <1>1 DEF IInv, Safe, PassInv, Claimed
<1>10. RowsInv'
  BY <1>1, <1>3, <1>8, <1>9, StampsDiffer DEF IInv, Safe, RowsInv
<1> QED
  BY <1>3, <1>4, <1>5, <1>7, <1>10 DEF IInv, Safe

-----------------------------------------------------------------------------
(* Steps of the staff: the scanner, the panel and dismissing. *)

\* Rows and passes that nobody disturbs keep what is known of them, when
\* labels only come in and consume no further change.
LEMMA RowsKept ==
  ASSUME IInv, UNCHANGED <<price, stamp, marked, lock, ppc, group, won, abandoned>>,
         \A v \in 0 .. MaxChanges : HasLabel(v) => HasLabel(v)',
         \A v : Consumed(v)' <=> Consumed(v)
  PROVE  PassInv' /\ RowsInv'
<1>1. \A v \in Changes : v \in 0 .. MaxChanges
  BY PriceReviewAssumption DEF Changes
<1>2. PassInv'
  BY <1>1 DEF IInv, Safe, TypeInv, PassInv, Claimed, Claiming, ChangeSets
<1>3. RowsInv'
  BY <1>1 DEF IInv, Safe, RowsInv
<1> QED
  BY <1>2, <1>3

\* Rows that staff review are theirs from then on; those the panel reviews
\* have a label.
LEMMA StaffReview ==
  ASSUME IInv, NEW who \in Scanners \cup Panels \cup {Dismissed}, NEW S \in ChangeSets,
         UNCHANGED <<price, lock, ppc, group, won, jobs, shelf, abandoned>>,
         \A v \in S : stamp'[v] = who,
         \A v \in Changes \ S : stamp'[v] = stamp[v] /\ marked'[v] = marked[v],
         who \in Panels => \A v \in S : HasLabel(v)
  PROVE  /\ PassInv' /\ RowsInv' /\ JobsInv' /\ PassLabelsAreDistinct'
         /\ \A v : HasLabel(v)' <=> HasLabel(v)
<1>1. price \in 0 .. MaxChanges /\ price \in Nat
  BY PriceReviewAssumption DEF IInv, TypeInv
<1>2. /\ \A v : HasLabel(v)' <=> HasLabel(v)
      /\ \A v : Consumed(v)' <=> Consumed(v)
      /\ JobsInv' /\ PassLabelsAreDistinct'
  BY <1>1, Untouched
<1>3. who \notin Passes /\ who # Null
  BY StampsDiffer
<1>4. \A p \in Passes : \A v \in group[p] : v \in Changes
  BY DEF IInv, TypeInv, ChangeSets
<1>5. \A p \in Passes : \A v \in Claimed(p)' : v \in Claimed(p) /\ v \in Changes \ S
  BY <1>3, <1>4 DEF Claimed
<1>6. PassInv'
  <2> SUFFICES ASSUME NEW p \in Passes
               PROVE  /\ ppc[p] # "idle" <=> lock = p
                      /\ \A v \in group[p] : v <= price
                      /\ won[p] \subseteq group[p]
                      /\ ppc[p] \in {"idle", "claim"} => won[p] = {}
                      /\ ppc[p] = "claim" => \A v \in group[p] : stamp'[v] # p
                      /\ ppc[p] \in Claiming \cup {"claim"} => \A v \in group[p] : ~Consumed(v)
                      /\ ppc[p] \in {"check", "enqueue"} =>
                           won[p] # {} /\ \A v \in won[p] : stamp'[v] # Null
                      /\ ppc[p] \in Claiming => \A v \in Claimed(p)' : ~marked'[v]
                      /\ ppc[p] = "mark" => \A v \in group[p] : HasLabel(v)
    BY <1>2 DEF PassInv, Claiming
  <2>1. ppc[p] = "claim" => \A v \in group[p] : stamp'[v] # p
    BY <1>3, <1>4 DEF IInv, Safe, PassInv
  <2>2. ppc[p] \in {"check", "enqueue"} => \A v \in won[p] : stamp'[v] # Null
    BY <1>3, <1>4 DEF IInv, Safe, PassInv
  <2>3. ppc[p] \in Claiming => \A v \in Claimed(p)' : ~marked'[v]
    BY <1>5 DEF IInv, Safe, PassInv
  <2> QED
    BY <2>1, <2>2, <2>3 DEF IInv, Safe, PassInv
<1>7. RowsInv'
  BY <1>2, <1>3 DEF IInv, Safe, RowsInv
<1> QED
  BY <1>2, <1>6, <1>7

\* The scanner's label is one for every change there is.
LEMMA ScanEnqueueStep == ASSUME IInv, NEW s \in Scanners, ScanEnqueue(s) PROVE IInv'
<1>1. /\ Insert(s, {}) /\ spc' = [spc EXCEPT ![s] = "read"]
      /\ UNCHANGED <<mode, price, stamp, marked, lock, ppc, group, won, srows, npc,
                      nsel, nrow, nprinted, shelf, faults, abandoned>>
  BY DEF ScanEnqueue, rows, pass, panel
<1>2. s \in Stamps /\ s \notin Passes /\ {} \in ChangeSets
  BY StampsDiffer DEF Stamps, Writers, ChangeSets
<1>3. /\ jobs' \in [JobIds -> JobRecords]
      /\ \A v \in 0 .. MaxChanges : HasLabel(v) \/ v <= price => HasLabel(v)'
      /\ \A v : Consumed(v)' <=> Consumed(v)
      /\ JobsInv'
  BY <1>1, <1>2, NewLabelEffect
<1>4. PassLabelsAreDistinct'
  BY <1>1, <1>2, StaffLabelEffect
<1>5. TypeInv'
  BY <1>1, <1>3 DEF IInv, TypeInv
<1>6. PassInv' /\ RowsInv'
  BY <1>1, <1>3, RowsKept
<1>7. PanelInv'
  BY <1>1, <1>3, PanelsKept
<1> QED
  BY <1>3, <1>4, <1>5, <1>6, <1>7 DEF IInv, Safe

\* Reading the unreviewed rows changes nothing else.
LEMMA ScanReadStep == ASSUME IInv, NEW s \in Scanners, ScanRead(s) PROVE IInv'
<1>1. /\ srows' = [srows EXCEPT ![s] = Unreviewed] /\ spc' = [spc EXCEPT ![s] = "mark"]
      /\ UNCHANGED <<mode, price, stamp, marked, lock, ppc, group, won, npc, nsel, nrow,
                      nprinted, jobs, shelf, faults, abandoned>>
  BY DEF ScanRead, rows, pass, panel
<1>2. price \in 0 .. MaxChanges /\ price \in Nat
  BY PriceReviewAssumption DEF IInv, TypeInv
<1>3. /\ \A v : HasLabel(v)' <=> HasLabel(v)
      /\ \A v : Consumed(v)' <=> Consumed(v)
      /\ JobsInv' /\ PassLabelsAreDistinct'
  BY <1>1, <1>2, Untouched
<1>4. Unreviewed \in ChangeSets
  BY <1>2, PriceReviewAssumption DEF Unreviewed, ChangeSets, Changes
<1>5. TypeInv'
  BY <1>1, <1>4 DEF IInv, TypeInv
<1>6. PassInv' /\ RowsInv' /\ PanelInv'
  BY <1>1, <1>3, RowsKept, PanelsKept
<1> QED
  BY <1>3, <1>5, <1>6 DEF IInv, Safe

\* The scanner marks every row it has read, whoever reviewed it since.
LEMMA ScanMarkStep == ASSUME IInv, NEW s \in Scanners, ScanMark(s) PROVE IInv'
<1>1. /\ stamp' = [v \in Changes |-> IF v \in srows[s] THEN s ELSE stamp[v]]
      /\ marked' = [v \in Changes |-> marked[v] \/ v \in srows[s]]
      /\ spc' = [spc EXCEPT ![s] = "over"] /\ srows' = [srows EXCEPT ![s] = {}]
      /\ UNCHANGED <<mode, price, lock, ppc, group, won, npc, nsel, nrow, nprinted,
                      jobs, shelf, faults, abandoned>>
  BY DEF ScanMark, pass, panel
<1>2. s \in Stamps /\ s \notin Panels /\ {} \in ChangeSets /\ srows[s] \in ChangeSets
  BY StampsDiffer DEF Stamps, Writers, ChangeSets, IInv, TypeInv
<1>3. /\ \A v \in srows[s] : v \in Changes /\ stamp'[v] = s
      /\ \A v \in Changes \ srows[s] : stamp'[v] = stamp[v] /\ marked'[v] = marked[v]
  BY <1>1, <1>2 DEF ChangeSets, IInv, TypeInv
<1>4. /\ PassInv' /\ RowsInv' /\ JobsInv' /\ PassLabelsAreDistinct'
      /\ \A v : HasLabel(v)' <=> HasLabel(v)
  BY <1>1, <1>2, <1>3, StaffReview
<1>5. TypeInv'
  BY <1>1, <1>2 DEF IInv, TypeInv
<1>6. PanelInv'
  BY <1>1, <1>4, PanelsKept
<1> QED
  BY <1>4, <1>5, <1>6 DEF IInv, Safe

\* Dismissing takes a row that is up for review.
LEMMA DismissStep == ASSUME IInv, NEW w \in Changes, Dismiss(w) PROVE IInv'
<1>1. /\ stamp' = [stamp EXCEPT ![w] = Dismissed]
      /\ UNCHANGED <<mode, price, marked, lock, ppc, group, won, spc, srows, npc, nsel,
                      nrow, nprinted, jobs, shelf, faults, abandoned>>
  BY DEF Dismiss, pass, scan, panel
<1>2. Dismissed \in Stamps /\ Dismissed \notin Panels /\ {w} \in ChangeSets
  BY StampsDiffer DEF Stamps, ChangeSets
<1>3. /\ \A v \in {w} : stamp'[v] = Dismissed
      /\ \A v \in Changes \ {w} : stamp'[v] = stamp[v] /\ marked'[v] = marked[v]
  BY <1>1 DEF IInv, TypeInv
<1>4. /\ PassInv' /\ RowsInv' /\ JobsInv' /\ PassLabelsAreDistinct'
      /\ \A v : HasLabel(v)' <=> HasLabel(v)
  BY <1>1, <1>2, <1>3, StaffReview
<1>5. TypeInv'
  BY <1>1, <1>2 DEF IInv, TypeInv
<1>6. PanelInv'
  BY <1>1, <1>4, PanelsKept
<1> QED
  BY <1>4, <1>5, <1>6 DEF IInv, Safe

\* A panel request reads ids of changes there are.
LEMMA PanelStartStep == ASSUME IInv, NEW n \in Panels, PanelStart(n) PROVE IInv'
<1>1. PICK ids \in SUBSET (1 .. price) : nsel' = [nsel EXCEPT ![n] = ids]
  BY DEF PanelStart
<1>2. /\ npc[n] = "idle" /\ npc' = [npc EXCEPT ![n] = "loop"]
      /\ UNCHANGED <<mode, price, stamp, marked, lock, ppc, group, won, spc, srows,
                      nrow, nprinted, jobs, shelf, faults, abandoned>>
  BY DEF PanelStart, rows, pass, scan
<1>3. price \in 0 .. MaxChanges /\ price \in Nat
  BY PriceReviewAssumption DEF IInv, TypeInv
<1>4. /\ \A v : HasLabel(v)' <=> HasLabel(v)
      /\ \A v : Consumed(v)' <=> Consumed(v)
      /\ JobsInv' /\ PassLabelsAreDistinct'
  BY <1>2, <1>3, Untouched
<1>5. ids \in ChangeSets /\ \A v \in ids : v <= price
  BY <1>3, PriceReviewAssumption DEF ChangeSets, Changes
<1>6. TypeInv'
  BY <1>1, <1>2, <1>5 DEF IInv, TypeInv
<1>7. PassInv' /\ RowsInv'
  BY <1>2, <1>4, RowsKept
<1>8. PanelInv'
  BY <1>1, <1>2, <1>4, <1>5 DEF IInv, Safe, TypeInv, PanelInv
<1> QED
  BY <1>4, <1>6, <1>7, <1>8 DEF IInv, Safe

\* It takes a row: skipped, or to be marked or printed.
LEMMA PanelNextStep ==
  ASSUME IInv, NEW n \in Panels, NEW w \in Changes, PanelNext(n, w)
  PROVE  IInv'
<1>1. /\ npc[n] = "loop" /\ w \in nsel[n]
      /\ nsel' = [nsel EXCEPT ![n] = nsel[n] \ {w}]
      /\ \/ npc' = npc /\ nrow' = nrow
         \/ /\ nrow' = [nrow EXCEPT ![n] = w]
            /\ npc' = [npc EXCEPT ![n] = IF nprinted[n] THEN "mark" ELSE "enqueue"]
      /\ UNCHANGED <<mode, price, stamp, marked, lock, ppc, group, won, spc, srows,
                      nprinted, jobs, shelf, faults, abandoned>>
  BY DEF PanelNext, rows, pass, scan
<1>2. price \in 0 .. MaxChanges /\ price \in Nat
  BY PriceReviewAssumption DEF IInv, TypeInv
<1>3. /\ \A v : HasLabel(v)' <=> HasLabel(v)
      /\ \A v : Consumed(v)' <=> Consumed(v)
      /\ JobsInv' /\ PassLabelsAreDistinct'
  BY <1>1, <1>2, Untouched
<1>4. /\ w \in 0 .. MaxChanges /\ w <= price
      /\ nsel[n] \ {w} \in ChangeSets
  BY <1>1, PriceReviewAssumption DEF IInv, Safe, TypeInv, PanelInv, ChangeSets, Changes
<1>5. TypeInv'
  BY <1>1, <1>4 DEF IInv, TypeInv
<1>6. PassInv' /\ RowsInv'
  BY <1>1, <1>3, RowsKept
<1>7. PanelInv'
  BY <1>1, <1>3, <1>4 DEF IInv, Safe, TypeInv, PanelInv
<1> QED
  BY <1>3, <1>5, <1>6, <1>7 DEF IInv, Safe

\* Its label is one for every row it was asked about, or the queue refused.
LEMMA PanelEnqueueStep == ASSUME IInv, NEW n \in Panels, PanelEnqueue(n) PROVE IInv'
<1>1. /\ npc[n] = "enqueue"
      /\ UNCHANGED <<mode, price, stamp, marked, lock, ppc, group, won, spc, srows,
                      nsel, shelf, abandoned>>
  BY DEF PanelEnqueue, rows, pass, scan
<1>2. price \in 0 .. MaxChanges /\ price \in Nat
  BY PriceReviewAssumption DEF IInv, TypeInv
<1>3. CASE /\ Insert(n, {nrow[n]})
           /\ npc' = [npc EXCEPT ![n] = "mark"]
           /\ nprinted' = [nprinted EXCEPT ![n] = TRUE]
           /\ nrow' = nrow /\ faults' = faults
  <2>1. /\ n \in Stamps /\ n \notin Passes /\ {nrow[n]} \in ChangeSets
        /\ nrow[n] <= price /\ \A v \in nsel[n] : v <= price
    BY <1>1, StampsDiffer DEF Stamps, Writers, ChangeSets, IInv, Safe, PanelInv
  <2>2. /\ jobs' \in [JobIds -> JobRecords]
        /\ \A v \in 0 .. MaxChanges : HasLabel(v) \/ v <= price => HasLabel(v)'
        /\ \A v : Consumed(v)' <=> Consumed(v)
        /\ JobsInv'
    BY <1>1, <1>3, <2>1, NewLabelEffect
  <2>3. PassLabelsAreDistinct'
    BY <1>3, <2>1, StaffLabelEffect
  <2>4. TypeInv'
    BY <1>1, <1>3, <2>2 DEF IInv, TypeInv
  <2>5. PassInv' /\ RowsInv'
    BY <1>1, <2>2, RowsKept
  <2>6. PanelInv'
    <3>1. \A o \in Panels : \A v \in nsel[o] : v \in 0 .. MaxChanges
      BY PriceReviewAssumption DEF IInv, TypeInv, ChangeSets, Changes
    <3>2. \A o \in Panels : nrow[o] \in 0 .. MaxChanges
      BY DEF IInv, TypeInv
    <3>3. HasLabel(nrow[n])' /\ \A v \in nsel[n] : HasLabel(v)'
      BY <1>3, <2>1, <2>2, <3>1, <3>2
    <3>4. \A o \in Panels : HasLabel(nrow[o]) => HasLabel(nrow[o])'
      BY <1>3, <2>2, <3>2
    <3>5. /\ npc'[n] = "mark" /\ nprinted'[n] = TRUE
          /\ \A o \in Panels : o # n => npc'[o] = npc[o] /\ nprinted'[o] = nprinted[o]
      BY <1>3 DEF IInv, TypeInv
    <3> QED
      BY <1>1, <1>3, <2>2, <3>1, <3>3, <3>4, <3>5 DEF IInv, Safe, PanelInv
  <2> QED
    BY <2>2, <2>3, <2>4, <2>5, <2>6 DEF IInv, Safe
<1>4. CASE /\ Refused
           /\ npc' = [npc EXCEPT ![n] = "loop"]
           /\ nrow' = [nrow EXCEPT ![n] = 0]
           /\ nprinted' = nprinted
  <2>1. jobs' = jobs /\ faults' \in 0 .. MaxFaults /\ 0 \in 0 .. MaxChanges
    BY <1>4, PriceReviewAssumption DEF Refused, Fault, IInv, TypeInv
  <2>2. /\ \A v : HasLabel(v)' <=> HasLabel(v)
        /\ \A v : Consumed(v)' <=> Consumed(v)
        /\ JobsInv' /\ PassLabelsAreDistinct'
    BY <1>1, <1>2, <2>1, Untouched
  <2>3. TypeInv'
    BY <1>1, <1>4, <2>1 DEF IInv, TypeInv
  <2>4. PassInv' /\ RowsInv'
    BY <1>1, <2>2, RowsKept
  <2>5. PanelInv'
    BY <1>1, <1>2, <1>4, <2>2 DEF IInv, Safe, TypeInv, PanelInv
  <2> QED
    BY <2>2, <2>3, <2>4, <2>5 DEF IInv, Safe
<1> QED
  BY <1>3, <1>4 DEF PanelEnqueue

\* It marks the row at hand, for which there is a label.
LEMMA PanelMarkStep == ASSUME IInv, NEW n \in Panels, PanelMark(n) PROVE IInv'
<1>1. /\ npc[n] = "mark"
      /\ stamp' = [stamp EXCEPT ![nrow[n]] = n]
      /\ marked' = [marked EXCEPT ![nrow[n]] = TRUE]
      /\ npc' = [npc EXCEPT ![n] = "loop"]
      /\ nrow' = [nrow EXCEPT ![n] = 0]
      /\ UNCHANGED <<mode, price, lock, ppc, group, won, spc, srows, nsel, nprinted,
                      jobs, shelf, faults, abandoned>>
  BY DEF PanelMark, pass, scan
<1>2. PICK w \in Changes : w = nrow[n] /\ HasLabel(w)
  BY <1>1 DEF IInv, Safe, PanelInv
<1>3. n \in Stamps /\ {w} \in ChangeSets /\ 0 \in 0 .. MaxChanges /\ price \in Nat
  BY PriceReviewAssumption DEF Stamps, Writers, ChangeSets, IInv, TypeInv
<1>4. /\ \A v \in {w} : stamp'[v] = n
      /\ \A v \in Changes \ {w} : stamp'[v] = stamp[v] /\ marked'[v] = marked[v]
  BY <1>1, <1>2 DEF IInv, TypeInv
<1>5. /\ PassInv' /\ RowsInv' /\ JobsInv' /\ PassLabelsAreDistinct'
      /\ \A v : HasLabel(v)' <=> HasLabel(v)
  <2>1. n \in Scanners \cup Panels \cup {Dismissed}
    OBVIOUS
  <2>2. n \in Panels => \A v \in {w} : HasLabel(v)
    BY <1>2
  <2>3. UNCHANGED <<price, lock, ppc, group, won, jobs, shelf, abandoned>>
    BY <1>1
  <2> HIDE <1>1
  <2> QED
    BY <1>3, <1>4, <2>1, <2>2, <2>3, StaffReview
<1>6. TypeInv'
  BY <1>1, <1>2, <1>3 DEF IInv, TypeInv
<1>7. PanelInv'
  BY <1>1, <1>3, <1>5 DEF IInv, Safe, TypeInv, PanelInv
<1> QED
  BY <1>5, <1>6, <1>7 DEF IInv, Safe

\* It ends.
LEMMA PanelEndStep == ASSUME IInv, NEW n \in Panels, PanelEnd(n) PROVE IInv'
<1>1. /\ npc' = [npc EXCEPT ![n] = "over"]
      /\ UNCHANGED <<mode, price, stamp, marked, lock, ppc, group, won, spc, srows,
                      nsel, nrow, nprinted, jobs, shelf, faults, abandoned>>
  BY DEF PanelEnd, rows, pass, scan
<1>2. price \in 0 .. MaxChanges /\ price \in Nat
  BY PriceReviewAssumption DEF IInv, TypeInv
<1>3. /\ \A v : HasLabel(v)' <=> HasLabel(v)
      /\ \A v : Consumed(v)' <=> Consumed(v)
      /\ JobsInv' /\ PassLabelsAreDistinct'
  BY <1>1, <1>2, Untouched
<1>4. TypeInv'
  BY <1>1 DEF IInv, TypeInv
<1>5. PassInv' /\ RowsInv'
  BY <1>1, <1>3, RowsKept
<1>6. PanelInv'
  BY <1>1, <1>3 DEF IInv, Safe, TypeInv, PanelInv
<1> QED
  BY <1>3, <1>4, <1>5, <1>6 DEF IInv, Safe

-----------------------------------------------------------------------------
(* Steps of the printer, and the death of the process. *)

\* A label is rendered with the price of the moment.
LEMMA RenderStep == ASSUME IInv, NEW j \in JobIds, Render(j) PROVE IInv'
<1>1. UNCHANGED <<mode, price, stamp, marked, lock, ppc, group, won, spc, srows, npc,
                  nsel, nrow, nprinted, shelf, faults, abandoned>>
  BY DEF Render, rows, pass, scan, panel
<1>2. /\ price \in 0 .. MaxChanges /\ price \in Nat /\ shelf \in Nat
      /\ jobs \in [JobIds -> JobRecords]
  BY PriceReviewAssumption DEF IInv, TypeInv
<1>3. /\ SameLabels
      /\ jobs[j].status = "queued" /\ Live(j)
      /\ jobs'[j].status = "printing" /\ jobs'[j].shows = price
      /\ \A k \in JobIds : k # j => jobs'[k] = jobs[k]
      /\ \A k \in Ids : k # j /\ Live(k) => jobs[k].status # "printing"
  BY <1>2, RenderEffect
<1>4. /\ Ids' = Ids /\ Ids \subseteq JobIds /\ j \in Ids
      /\ \A v : HasLabel(v)' <=> HasLabel(v)
      /\ \A v : Consumed(v)' <=> Consumed(v)
      /\ PassLabelsAreDistinct'
  BY <1>3, SameLabelsEffect DEF Ids, IInv, Safe
<1>5. \A k \in Ids : jobs'[k].at = jobs[k].at /\ jobs[k].at <= price
  BY <1>3, <1>4 DEF SameLabels, IInv, Safe, JobsInv
<1>6. JobsInv'
  <2>1. shelf' <= price'
    BY <1>1 DEF IInv, Safe, JobsInv
  <2>2. ASSUME NEW k \in Ids, k # j
        PROVE  /\ jobs'[k] = jobs[k] /\ ~(jobs[k].status = "printing" /\ Live(k))
               /\ Live(k)' <=> Live(k)
    BY <1>3, <1>4, <2>2 DEF Live
  <2>3. ASSUME NEW k \in Ids, k # j
        PROVE  /\ jobs'[k].at <= price'
               /\ jobs'[k].status \in {"printing", "done"} =>
                    jobs'[k].shows >= jobs'[k].at /\ jobs'[k].shows <= price'
               /\ jobs'[k].status = "done" => shelf' >= jobs'[k].shows
               /\ ~(jobs'[k].status = "printing" /\ Live(k)')
    BY <1>1, <2>2, <2>3 DEF IInv, Safe, JobsInv
  <2>4. /\ jobs'[j].at <= price'
        /\ jobs'[j].shows >= jobs'[j].at /\ jobs'[j].shows <= price'
        /\ shelf' <= jobs'[j].shows /\ jobs'[j].status = "printing"
    <3>1. jobs[j].at \in Nat
      BY <1>2, RecordFields
    <3> QED
      BY <1>1, <1>2, <1>3, <1>4, <1>5, <2>1, <3>1
  <2> QED
    BY <1>4, <2>1, <2>3, <2>4 DEF JobsInv
<1>7. TypeInv'
  BY <1>1, <1>3 DEF IInv, TypeInv, SameLabels
<1>8. PassInv' /\ RowsInv' /\ PanelInv'
  BY <1>1, <1>4, RowsKept, PanelsKept
<1> QED
  BY <1>4, <1>6, <1>7, <1>8 DEF IInv, Safe

\* The label is out, or failed.
LEMMA FinishStep == ASSUME IInv, NEW j \in JobIds, Finish(j) PROVE IInv'
<1>1. UNCHANGED <<mode, price, stamp, marked, lock, ppc, group, won, spc, srows, npc,
                  nsel, nrow, nprinted, faults, abandoned>>
  BY DEF Finish, rows, pass, scan, panel
<1>2. /\ price \in 0 .. MaxChanges /\ price \in Nat /\ shelf \in Nat
      /\ jobs \in [JobIds -> JobRecords]
  BY PriceReviewAssumption DEF IInv, TypeInv
<1>3. /\ SameLabels
      /\ jobs[j].status = "printing" /\ Live(j) /\ ~Live(j)'
      /\ jobs'[j].shows = jobs[j].shows
      /\ \/ jobs'[j].status = "done" /\ shelf' = jobs[j].shows
         \/ jobs'[j].status = "error" /\ shelf' = shelf
      /\ \A k \in JobIds : k # j => jobs'[k] = jobs[k]
  BY <1>2, FinishEffect
<1>4. /\ Ids' = Ids /\ Ids \subseteq JobIds /\ j \in Ids
      /\ \A v : HasLabel(v)' <=> HasLabel(v)
      /\ \A v : Consumed(v)' <=> Consumed(v)
      /\ PassLabelsAreDistinct'
  BY <1>3, SameLabelsEffect DEF Ids, IInv, Safe
<1>5. /\ jobs[j].shows \in Nat /\ jobs[j].shows >= jobs[j].at
      /\ shelf <= jobs[j].shows /\ jobs[j].shows <= price
      /\ jobs[j].at <= price /\ jobs'[j].at = jobs[j].at
      /\ \A k \in Ids : jobs[k].status = "printing" /\ Live(k) => k = j
  BY <1>2, <1>3, <1>4, RecordFields DEF SameLabels, IInv, Safe, JobsInv
<1>6. shelf' \in Nat /\ shelf <= shelf' /\ shelf' <= price
  BY <1>2, <1>3, <1>5 DEF IInv, Safe, JobsInv
<1>7. JobsInv'
  <2>1. ASSUME NEW k \in Ids, k # j
        PROVE  /\ jobs'[k].at <= price'
               /\ jobs'[k].status \in {"printing", "done"} =>
                    jobs'[k].shows >= jobs'[k].at /\ jobs'[k].shows <= price'
               /\ jobs'[k].status = "done" => shelf' >= jobs'[k].shows
               /\ ~(jobs'[k].status = "printing" /\ Live(k)')
    <3>1. jobs'[k] = jobs[k] /\ (Live(k)' <=> Live(k)) /\ jobs[k].shows \in Nat
      BY <1>2, <1>3, <1>4, <2>1, RecordFields DEF Live
    <3>2. jobs[k].status = "done" => shelf >= jobs[k].shows
      BY DEF IInv, Safe, JobsInv
    <3>3. jobs[k].status = "done" => shelf' >= jobs[k].shows
      BY <1>2, <1>6, <3>1, <3>2
    <3>4. ~(jobs[k].status = "printing" /\ Live(k))
      BY <1>5, <2>1
    <3> QED
      BY <1>1, <3>1, <3>3, <3>4 DEF IInv, Safe, JobsInv
  <2>2. /\ jobs'[j].at <= price'
        /\ jobs'[j].shows >= jobs'[j].at /\ jobs'[j].shows <= price'
        /\ jobs'[j].status = "done" => shelf' >= jobs'[j].shows
        /\ ~(jobs'[j].status = "printing" /\ Live(j)')
    BY <1>1, <1>3, <1>5
  <2> QED
    BY <1>1, <1>4, <1>6, <2>1, <2>2 DEF JobsInv
<1>8. TypeInv'
  BY <1>1, <1>3, <1>6 DEF IInv, TypeInv, SameLabels
<1>9. PassInv' /\ RowsInv' /\ PanelInv'
  BY <1>1, <1>4, RowsKept, PanelsKept
<1> QED
  BY <1>4, <1>7, <1>8, <1>9 DEF IInv, Safe

\* The process dies: rows and labels stay; what a pass had claimed without a
\* label is abandoned.
LEMMA CrashStep == ASSUME IInv, Crash PROVE IInv'
<1>1. /\ lock' = Null
      /\ ppc' = [p \in Passes |-> "idle"]
      /\ group' = [p \in Passes |-> {}] /\ won' = [p \in Passes |-> {}]
      /\ spc' = [s \in Scanners |-> IF spc[s] = "idle" THEN "idle" ELSE "over"]
      /\ srows' = [s \in Scanners |-> {}]
      /\ npc' = [n \in Panels |-> IF npc[n] = "idle" THEN "idle" ELSE "over"]
      /\ nsel' = [n \in Panels |-> {}] /\ nrow' = [n \in Panels |-> 0]
      /\ nprinted' = [n \in Panels |-> FALSE]
      /\ UNCHANGED <<mode, price, stamp, marked, shelf>>
  BY DEF Crash, rows
<1>2. abandoned' = abandoned \cup UNION {Claimed(p) : p \in {x \in Passes : ppc[x] \in Claiming}}
  BY DEF Crash, Claiming
<1>3. faults' \in 0 .. MaxFaults /\ 0 \in 0 .. MaxChanges /\ {} \in ChangeSets
  BY PriceReviewAssumption DEF Crash, Fault, ChangeSets, IInv, TypeInv
<1>4. /\ price \in 0 .. MaxChanges /\ price \in Nat /\ shelf \in Nat
      /\ jobs \in [JobIds -> JobRecords]
  BY PriceReviewAssumption DEF IInv, TypeInv
<1>5. /\ SameLabels
      /\ \A j \in JobIds : /\ jobs'[j].status = jobs[j].status
                           /\ jobs'[j].shows = jobs[j].shows
                           /\ Live(j)' => Live(j)
  BY <1>4, CrashEffect
<1>6. /\ Ids' = Ids /\ Ids \subseteq JobIds
      /\ \A v : HasLabel(v)' <=> HasLabel(v)
      /\ \A v : Consumed(v)' <=> Consumed(v)
      /\ PassLabelsAreDistinct'
  BY <1>5, SameLabelsEffect DEF Ids, IInv, Safe
<1>7. \A j \in Ids : jobs'[j].at = jobs[j].at
  BY <1>5, <1>6 DEF SameLabels
<1>8. JobsInv'
  <2>1. \A j \in Ids : /\ jobs'[j].status = jobs[j].status /\ jobs'[j].shows = jobs[j].shows
                       /\ jobs'[j].at = jobs[j].at /\ (Live(j)' => Live(j))
    BY <1>5, <1>6, <1>7
  <2>2. JobsInv
    BY DEF IInv, Safe
  <2>3. shelf' = shelf /\ price' = price
    BY <1>1
  <2> HIDE <1>1, <1>2, <1>3, <1>4, <1>5, <1>7
  <2> QED
    BY <1>6, <2>1, <2>2, <2>3 DEF JobsInv
<1>9. \A p \in Passes : \A v \in Claimed(p) : v \in Changes
  BY DEF Claimed, ChangeSets, IInv, TypeInv
<1>10. abandoned' \in ChangeSets
  BY <1>2, <1>9 DEF ChangeSets, IInv, TypeInv
<1>11. TypeInv'
  BY <1>1, <1>3, <1>5, <1>10 DEF IInv, TypeInv, SameLabels
<1>12. PassInv'
  BY <1>1, StampsDiffer DEF PassInv, Claiming
<1>13. PanelInv'
  BY <1>1, <1>4 DEF PanelInv
<1>14. RowsInv'
  <2>1. ASSUME NEW v \in Changes, stamp[v] \in Passes, v \notin abandoned'
        PROVE  HasLabel(v)
    <3>1. v \notin abandoned
      BY <1>2, <2>1
    <3>2. ~(ppc[stamp[v]] \in Claiming /\ v \in group[stamp[v]])
      <4> SUFFICES ASSUME ppc[stamp[v]] \in Claiming, v \in group[stamp[v]]
                   PROVE  FALSE
        OBVIOUS
      <4>1. v \in Claimed(stamp[v])
        BY DEF Claimed
      <4>2. v \in abandoned'
        BY <1>2, <2>1, <4>1
      <4> QED
        BY <2>1, <4>2
    <3> QED
      BY <2>1, <3>1, <3>2 DEF IInv, Safe, RowsInv
  <2> QED
    BY <1>1, <1>6, <2>1 DEF IInv, Safe, RowsInv
<1> QED
  BY <1>6, <1>8, <1>11, <1>12, <1>13, <1>14 DEF IInv, Safe

-----------------------------------------------------------------------------
(* The invariant and what follows from it. *)

\* At the start there is neither a change nor a label.
LEMMA Start == ASSUME Init PROVE IInv
<1>1. Ids = {}
  BY DEF Init, Ids, NoJob
<1>2. \A v : ~HasLabel(v) /\ ~Consumed(v)
  BY <1>1 DEF HasLabel, Consumed
<1>3. NoJob \in JobRecords
  BY DEF NoJob, JobRecords, JobStatuses, Stamps, ChangeSets
<1>4. Null \in Stamps /\ {} \in ChangeSets /\ 0 \in 0 .. MaxChanges /\ 0 \in 0 .. MaxFaults
  BY PriceReviewAssumption DEF Stamps, ChangeSets
<1>5. TypeInv
  BY <1>3, <1>4 DEF Init, TypeInv
<1>6. JobsInv /\ PassLabelsAreDistinct
  BY <1>1 DEF Init, JobsInv, PassLabelsAreDistinct
<1>7. PassInv
  BY StampsDiffer DEF Init, PassInv, Claiming
<1>8. RowsInv
  BY <1>2, StampsDiffer DEF Init, RowsInv
<1>9. PanelInv
  BY DEF Init, PanelInv
<1> QED
  BY <1>5, <1>6, <1>7, <1>8, <1>9 DEF IInv, Safe

\* A step of none of the actions changes nothing.
LEMMA Stutter == ASSUME IInv, UNCHANGED vars PROVE IInv'
<1>1. UNCHANGED <<mode, price, stamp, marked, lock, ppc, group, won, spc, srows, npc,
                  nsel, nrow, nprinted, jobs, shelf, faults, abandoned>>
  BY DEF vars
<1>2. price \in 0 .. MaxChanges /\ price \in Nat
  BY PriceReviewAssumption DEF IInv, TypeInv
<1>3. /\ \A v : HasLabel(v)' <=> HasLabel(v)
      /\ \A v : Consumed(v)' <=> Consumed(v)
      /\ JobsInv' /\ PassLabelsAreDistinct'
  BY <1>1, <1>2, Untouched
<1>4. TypeInv'
  BY <1>1 DEF IInv, TypeInv
<1>5. PassInv' /\ RowsInv' /\ PanelInv'
  BY <1>1, <1>3, RowsKept, PanelsKept
<1> QED
  BY <1>3, <1>4, <1>5 DEF IInv, Safe

\* Every step keeps the invariant.
LEMMA StepKeeps == ASSUME IInv, [Next]_vars PROVE IInv'
<1>1. CASE Sync
  BY <1>1, SyncStep
<1>2. ASSUME NEW p \in Passes, PassStep(p) \/ PassRaises(p) PROVE IInv'
  BY <1>2, PassReadStep, PassClaimStep, PassCheckStep, PassEnqueueStep, PassReleaseStep,
     PassMarkStep, PassRaisesStep DEF PassStep
<1>3. ASSUME NEW s \in Scanners, ScanStep(s) PROVE IInv'
  BY <1>3, ScanEnqueueStep, ScanReadStep, ScanMarkStep DEF ScanStep
<1>4. ASSUME NEW n \in Panels, PanelStep(n) PROVE IInv'
  BY <1>4, PanelStartStep, PanelNextStep, PanelEnqueueStep, PanelMarkStep, PanelEndStep
     DEF PanelStep
<1>5. ASSUME NEW v \in Changes, Dismiss(v) PROVE IInv'
  BY <1>5, DismissStep
<1>6. CASE Printer
  BY <1>6, RenderStep, FinishStep DEF Printer
<1>7. CASE Crash
  BY <1>7, CrashStep
<1>8. CASE UNCHANGED vars
  BY <1>8, Stutter
<1> QED
  BY <1>1, <1>2, <1>3, <1>4, <1>5, <1>6, <1>7, <1>8 DEF Next

\* The invariant holds in every state, however many threads race and whatever
\* fails.
THEOREM Inductive == Spec => []IInv
<1>1. Init => IInv
  BY Start
<1>2. IInv /\ [Next]_vars => IInv'
  BY StepKeeps
<1> QED
  BY <1>1, <1>2, PTL DEF Spec

\* The variables keep their types (reviewed_at, label_printed, the lock, what
\* each thread holds and the print_jobs rows).
THEOREM TypeCorrect == Spec => []TypeInv
BY Inductive, PTL DEF IInv

\* A change that a pass or the panel marked as printed has a label queued after
\* it, which shows its price or a newer one (auto_print.py, print_price_changes).
THEOREM MarkedChangesHaveLabels == Spec => []MarkedHasLabel
<1>1. IInv => MarkedHasLabel
  <2> SUFFICES ASSUME IInv, NEW v \in Changes, marked[v], stamp[v] \in Passes \cup Panels
               PROVE  \E j \in Ids :
                        /\ jobs[j].at >= v
                        /\ jobs[j].status \in {"printing", "done"} => jobs[j].shows >= v
    BY DEF MarkedHasLabel
  <2>1. PICK j \in Ids : jobs[j].at >= v
    BY DEF IInv, Safe, RowsInv, HasLabel
  <2>2. jobs[j].at \in Nat /\ jobs[j].shows \in Nat /\ v \in Nat
    BY RecordFields DEF IInv, TypeInv, Ids, Changes
  <2>3. jobs[j].status \in {"printing", "done"} => jobs[j].shows >= jobs[j].at
    BY DEF IInv, Safe, JobsInv
  <2> QED
    BY <2>1, <2>2, <2>3
<1> QED
  BY <1>1, Inductive, PTL

\* No change is printed by two passes: the claim that a label consumed is never
\* won again (_claim and _release in auto_print.py).
THEOREM NoChangeIsPrintedTwice == Spec => []PassLabelsAreDistinct
BY Inductive, PTL DEF IInv, Safe

\* When all is quiet and nothing waits for review, the shelf shows the newest
\* price, but for the exceptions the property names.
THEOREM QuietShelf == Spec => []QuietShelfIsCurrent
<1>1. IInv => QuietShelfIsCurrent
  <2> SUFFICES ASSUME IInv, ~Busy, Unreviewed = {}, price > 0,
                      stamp[price] \notin Scanners \cup {Dismissed},
                      price \notin abandoned,
                      \A j \in Ids : jobs[j].at >= price => jobs[j].status = "done"
               PROVE  shelf >= price
    BY DEF QuietShelfIsCurrent
  <2>1. price \in Nat /\ shelf \in Nat /\ price \in Changes /\ price \in 1 .. price
    BY PriceReviewAssumption DEF IInv, TypeInv, Changes
  <2>2. stamp[price] # Null
    BY <2>1 DEF Unreviewed
  <2>3. stamp[price] \in Passes \cup Panels
    BY <2>1, <2>2 DEF IInv, TypeInv, Stamps, Writers
  <2>4. \A p \in Passes : ppc[p] \notin Claiming
    BY DEF Busy, Claiming
  <2>5. HasLabel(price)
    BY <2>1, <2>3, <2>4 DEF IInv, Safe, RowsInv
  <2>6. PICK j \in Ids : jobs[j].at >= price /\ jobs[j].status = "done"
    BY <2>5 DEF HasLabel
  <2>7. jobs[j].at \in Nat /\ jobs[j].shows \in Nat
    BY RecordFields DEF IInv, TypeInv, Ids
  <2>8. jobs[j].shows >= jobs[j].at /\ shelf >= jobs[j].shows
    BY <2>6 DEF IInv, Safe, JobsInv
  <2> QED
    BY <2>1, <2>6, <2>7, <2>8
<1> QED
  BY <1>1, Inductive, PTL

\* What staff dismissed or printed by hand never comes back for review: only a
\* pass gives a row back, and only where the stamp is still its own.
THEOREM StaffVerdictsAreFinal == Spec => StaffVerdictsStand
<1>1. IInv /\ [Next]_vars =>
        [\A v \in Changes :
           stamp[v] \in Scanners \cup Panels \cup {Dismissed} => stamp'[v] # Null]_vars
  <2> SUFFICES ASSUME IInv, Next, NEW v \in Changes,
                      stamp[v] \in Scanners \cup Panels \cup {Dismissed}
               PROVE  stamp'[v] # Null
    OBVIOUS
  <2>1. stamp[v] # Null /\ stamp[v] \notin Passes
    BY StampsDiffer
  <2>2. CASE stamp' = stamp
    BY <2>1, <2>2
  <2>3. ASSUME NEW p \in Passes, PassClaim(p) PROVE stamp'[v] # Null
    BY <2>1, <2>3, StampsDiffer DEF PassClaim
  <2>4. ASSUME NEW p \in Passes, PassRelease(p) PROVE stamp'[v] # Null
    BY <2>1, <2>4 DEF PassRelease, Claimed
  <2>5. ASSUME NEW s \in Scanners, ScanMark(s) PROVE stamp'[v] # Null
    BY <2>1, <2>5, StampsDiffer DEF ScanMark
  <2>6. ASSUME NEW n \in Panels, PanelMark(n) PROVE stamp'[v] # Null
    BY <2>1, <2>6, StampsDiffer DEF PanelMark, IInv, TypeInv
  <2>7. ASSUME NEW w \in Changes, Dismiss(w) PROVE stamp'[v] # Null
    BY <2>1, <2>7, StampsDiffer DEF Dismiss, IInv, TypeInv
  <2>8. CASE Sync \/ Printer \/ Crash
    BY <2>2, <2>8 DEF Sync, Printer, Render, Finish, Crash, rows
  <2>9. ASSUME NEW p \in Passes,
               PassRead(p) \/ PassCheck(p) \/ PassEnqueue(p) \/ PassMark(p) \/ PassRaises(p)
        PROVE  stamp'[v] # Null
    BY <2>2, <2>9 DEF PassRead, PassCheck, PassEnqueue, PassMark, PassRaises, rows
  <2>10. ASSUME NEW s \in Scanners, ScanEnqueue(s) \/ ScanRead(s)
         PROVE  stamp'[v] # Null
    BY <2>2, <2>10 DEF ScanEnqueue, ScanRead, rows
  <2>11. ASSUME NEW n \in Panels,
                PanelStart(n) \/ (\E w \in Changes : PanelNext(n, w)) \/ PanelEnqueue(n)
                  \/ PanelEnd(n)
         PROVE  stamp'[v] # Null
    BY <2>2, <2>11 DEF PanelStart, PanelNext, PanelEnqueue, PanelEnd, rows
  <2> QED
    BY <2>3, <2>4, <2>5, <2>6, <2>7, <2>8, <2>9, <2>10, <2>11
       DEF Next, PassStep, ScanStep, PanelStep
<1> QED
  BY <1>1, Inductive, PTL DEF Spec, StaffVerdictsStand
=============================================================================
