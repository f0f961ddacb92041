----------------------------- MODULE CatalogSync ----------------------------
(***************************************************************************)
(* How a price travels from Toast through the repository into the app:      *)
(* scripts/toast_sync.py, run by .github/workflows/toast-sync.yml or by     *)
(* hand on the store's machine, scripts/sync_catalog.sh, and the start-up   *)
(* load and import of app/__init__.py, for the `file` provider.             *)
(*                                                                          *)
(* Two files travel together: products.csv, the catalog, and                *)
(* price_changes.json, what the newest sync changed.  A database that was   *)
(* wiped learns of a price change only from the second one; a database      *)
(* that was kept sees the change itself when it loads the first one.  Both  *)
(* kinds of host are modelled at once: any restart may lose the database.   *)
(*                                                                          *)
(* A file is written whole or not at all, and nothing else touches the      *)
(* app's files while the sync runs by hand.  The repository, its runner and *)
(* Render are modelled from the workflow and scripts that use them.         *)
(*                                                                          *)
(* Definitions whose name ends in Mutant are distorted copies of the        *)
(* definition that follows them; nothing uses them in a specification.      *)
(***************************************************************************)
EXTENDS Integers, FiniteSets, SequencesExt

CONSTANTS
    Keys,        \* (upc, name) pairs
    Feeds,       \* what Toast may return: sequences of listings
    MinItems,    \* MIN_EXPECTED_ITEMS
    MaxPrice,
    MaxFeeds,    \* bound: changes of the feed
    MaxEdits,    \* bound: hand edits
    MaxTrouble,  \* bound: crashes and failed loads
    MaxWeeks     \* bound on the weeks that pass

\* A listing of the feed: its key, its price and whether its menu is excluded.
Listing == [key : Keys, price : 1..MaxPrice, excluded : BOOLEAN]

ASSUME SyncAssumption ==
    /\ IsFiniteSet(Keys)
    /\ Feeds \subseteq Seq(Listing) /\ Feeds # {}
    /\ {MaxPrice, MaxFeeds, MaxEdits, MaxTrouble, MaxWeeks} \subseteq Nat
    /\ MinItems \in Nat \ {0}

VARIABLES
    feed,    \* external: what Toast sells now
    head,    \* the newest commit: both files, its number, and `before`
    disk,    \* the files the app reads, and the commit they are from
    pull,    \* the commit sync_catalog.sh is writing, or NoPull
    ci,      \* the sync on the workflow's runner
    byHand,  \* the sync on the store's machine
    app,     \* the app's process
    db,      \* db.price : products; db.log : price_history, oldest first
    feeds, edits, trouble, \* bounds only
    week     \* weeks passed; dates the rows of the log

vars == <<feed, head, disk, pull, ci, byHand, app, db, feeds, edits, trouble, week>>

-----------------------------------------------------------------------------
(* One run of the script, as a function of the feed and the old catalog.    *)

Absent == 0
NoRow == [price |-> Absent, sale |-> FALSE]
Empty == [k \in Keys |-> NoRow]

\* Where the listings are that may get a label.  An exact duplicate later in the feed is
\* skipped: the first one counts.
Labelled(records, k) == {i \in DOMAIN records : records[i].key = k /\ ~records[i].excluded}

\* The new catalog: prices from Toast, and the sale prices the store had set
\* by hand in the old catalog.
Rows(records, old) ==
    [k \in Keys |->
        IF Labelled(records, k) = {} THEN NoRow
        ELSE [price |-> records[Min(Labelled(records, k))].price, sale |-> old[k].sale]]

\* Items of both catalogs whose price is not the same.
Repriced(rows, old) ==
    {k \in Keys : /\ rows[k].price # Absent /\ old[k].price # Absent
                  /\ rows[k].price # old[k].price}

\* compute_price_diffs.
PriceDiffs(rows, old) ==
    {[key |-> k, old |-> old[k].price, new |-> rows[k].price] : k \in Repriced(rows, old)}

-----------------------------------------------------------------------------
(* The sync.  The workflow works on a fresh checkout, and what it wrote     *)
(* counts once it is pushed; by hand the script writes the app's own files. *)

Idle == [at |-> "idle"]
NoPull == [commit |-> 0]
Trouble == trouble < MaxTrouble /\ trouble' = trouble + 1

\* The feed is read, then the old catalog.  A feed with too few items stops the
\* run before anything is written.
Fetched(base) == [at |-> "fetched", base |-> base, rows |-> Rows(feed, base.csv)]

CiFetch ==
    /\ ci = Idle
    /\ Len(feed) >= MinItems
    /\ ci' = Fetched(head)
    /\ UNCHANGED <<feed, head, disk, pull, byHand, app, db, feeds, edits, trouble, week>>

PushMutant ==
    /\ ci # Idle
    /\ head' = IF ci.rows = ci.base.csv THEN head
               ELSE [csv |-> ci.rows, changes |-> PriceDiffs(ci.rows, ci.base.csv),
                     before |-> ci.base.csv, commit |-> head.commit + 1]
    /\ ci' = Idle
    /\ UNCHANGED <<feed, disk, pull, byHand, app, db, feeds, edits, trouble, week>>

\* Both files are written, committed if the catalog differs, and pushed unless
\* somebody pushed since the checkout.  (before, the catalog that was replaced,
\* is history.)
Push ==
    /\ ci # Idle
    /\ head' = IF ci.rows = ci.base.csv \/ ci.base.commit # head.commit THEN head
               ELSE [csv |-> ci.rows, changes |-> PriceDiffs(ci.rows, ci.base.csv),
                     before |-> ci.base.csv, commit |-> head.commit + 1]
    /\ ci' = Idle
    /\ UNCHANGED <<feed, disk, pull, byHand, app, db, feeds, edits, trouble, week>>

\* Toast or the runner fails: nothing is left of the run.
CiDies ==
    /\ Trouble
    /\ ci # Idle
    /\ ci' = Idle
    /\ UNCHANGED <<feed, head, disk, pull, byHand, app, db, feeds, edits, week>>

HandFetch ==
    /\ byHand = Idle /\ pull = NoPull
    /\ Len(feed) >= MinItems
    /\ byHand' = Fetched(disk)
    /\ UNCHANGED <<feed, head, disk, pull, ci, app, db, feeds, edits, trouble, week>>

FirstFileMutant == "catalog"

\* price_changes.json is written before products.csv.
FirstFile == "changes"

\* One of the two files.  History: whole, both are of one sync; before, the
\* catalog there was when they last were, at the start of the run.
WriteFile(file, last) ==
    LET rows == byHand.rows
        base == byHand.base
        start == IF base.whole THEN base.csv ELSE base.before
        written == [disk EXCEPT !.clean = FALSE, !.whole = last, !.before = start]
    IN  disk' = IF file = "changes"
                THEN [written EXCEPT !.changes = PriceDiffs(rows, base.csv)]
                ELSE [written EXCEPT !.csv = rows]

HandWritesFirst ==
    /\ byHand.at = "fetched"
    /\ WriteFile(FirstFile, FALSE)
    /\ byHand' = [byHand EXCEPT !.at = "half"]
    /\ UNCHANGED <<feed, head, pull, ci, app, db, feeds, edits, trouble, week>>

HandWritesSecond ==
    /\ byHand.at = "half"
    /\ WriteFile(CHOOSE file \in {"changes", "catalog"} : file # FirstFile, TRUE)
    /\ byHand' = Idle
    /\ UNCHANGED <<feed, head, pull, ci, app, db, feeds, edits, trouble, week>>

\* The script dies: what it wrote stays.
HandDies ==
    /\ Trouble
    /\ byHand # Idle
    /\ byHand' = Idle
    /\ UNCHANGED <<feed, head, disk, pull, ci, app, db, feeds, edits, week>>

-----------------------------------------------------------------------------
(* The app's files follow the repository.                                   *)

OnDisk(commit, changes) ==
    [csv |-> commit.csv, changes |-> changes, before |-> commit.before, commit |-> commit.commit,
     clean |-> TRUE, whole |-> changes = commit.changes]

\* sync_catalog.sh: the merge writes one file after the other; it refuses a
\* directory whose files were changed by hand.
PullChanges ==
    /\ byHand = Idle /\ pull = NoPull
    /\ disk.clean /\ disk.commit # head.commit
    /\ pull' = head
    /\ disk' = [disk EXCEPT !.changes = head.changes, !.whole = FALSE]
    /\ UNCHANGED <<feed, head, ci, byHand, app, db, feeds, edits, trouble, week>>

PullCatalog ==
    /\ pull # NoPull
    /\ disk' = OnDisk(pull, pull.changes)
    /\ pull' = NoPull
    /\ UNCHANGED <<feed, head, ci, byHand, app, db, feeds, edits, trouble, week>>

-----------------------------------------------------------------------------
(* The app.                                                                 *)

NoData == [price |-> [k \in Keys |-> Absent], log |-> <<>>]

LogRow(k, old, new, source) == [key |-> k, old |-> old, new |-> new, source |-> source, week |-> week]

\* A load of a catalog, as one step: module Catalog has its interleavings.
Loaded(csv) ==
    LET moved == {k \in Keys : /\ csv[k].price # Absent /\ db.price[k] # Absent
                               /\ csv[k].price # db.price[k]}
    IN  [price |-> [k \in Keys |-> IF csv[k].price = Absent THEN db.price[k] ELSE csv[k].price],
         log |-> db.log \o SetToSeq({LogRow(k, db.price[k], csv[k].price, "file") : k \in moved})]

Log == ToSet(db.log)

ImportableMutant(d) ==
    /\ db.price[d.key] = d.new
    /\ ~\E r \in Log : r.key = d.key /\ r.old = d.old /\ r.new = d.new /\ r.source = "toast_sync_file"

\* A difference is imported if the item is on file at its new price, and
\* neither this import nor, in the last seven days, anybody else logged it.
Importable(d) ==
    /\ db.price[d.key] = d.new
    /\ ~\E r \in Log : r.key = d.key /\ r.old = d.old /\ r.new = d.new /\ r.source = "toast_sync_file"
    /\ ~\E r \in Log : r.key = d.key /\ r.new = d.new /\ r.week = week

\* Start-up: the load, which may fail without stopping the start (read is
\* history: the catalog it loaded) ...
BootLoad ==
    /\ app.at = "down"
    /\ \/ /\ db' = Loaded(disk.csv)
          /\ app' = [at |-> "loaded", read |-> disk.csv]
          /\ trouble' = trouble
       \/ /\ Trouble
          /\ app' = [at |-> "loaded", read |-> Empty]
          /\ db' = db
    /\ UNCHANGED <<feed, head, disk, pull, ci, byHand, feeds, edits, week>>

\* ... then _import_price_change_diffs, with one commit.
BootImport ==
    /\ app.at = "loaded"
    /\ db' = [db EXCEPT !.log = @ \o SetToSeq({LogRow(d.key, d.old, d.new, "toast_sync_file") :
                                                 d \in {d \in disk.changes : Importable(d)}})]
    /\ app' = [app EXCEPT !.at = "up", !.read = Empty]
    /\ UNCHANGED <<feed, head, disk, pull, ci, byHand, feeds, edits, trouble, week>>

\* The nightly refresh, or the one sync_catalog.sh asks for after a pull.
Refresh ==
    /\ app.at = "up"
    /\ db' = Loaded(disk.csv)
    /\ UNCHANGED <<feed, head, disk, pull, ci, byHand, app, feeds, edits, trouble, week>>

\* The process dies; a host without a disk loses the database with it.
Restart(wiped) ==
    /\ Trouble
    /\ app.at # "down"
    /\ app' = [at |-> "down", read |-> Empty]
    /\ db' = IF wiped THEN NoData ELSE db
    /\ UNCHANGED <<feed, head, disk, pull, ci, byHand, feeds, edits, week>>

\* Render deploys a commit: a new image, and an empty database.
Deploy ==
    /\ byHand = Idle /\ pull = NoPull
    /\ disk.commit # head.commit \/ ~disk.clean
    /\ disk' = OnDisk(head, head.changes)
    /\ app' = [at |-> "down", read |-> Empty]
    /\ db' = NoData
    /\ UNCHANGED <<feed, head, pull, ci, byHand, feeds, edits, trouble, week>>

-----------------------------------------------------------------------------
(* The world.                                                               *)

\* External: staff change items or prices in Toast.
FeedChanges ==
    /\ feeds < MaxFeeds
    /\ feed' \in Feeds \ {feed}
    /\ feeds' = feeds + 1
    /\ UNCHANGED <<head, disk, pull, ci, byHand, app, db, edits, trouble, week>>

\* External: the store puts an item on sale, or ends the sale, and pushes.
HandEdit(k) ==
    /\ edits < MaxEdits
    /\ head.csv[k].price # Absent
    /\ head' = [head EXCEPT !.csv[k].sale = ~@, !.commit = @ + 1]
    /\ edits' = edits + 1
    /\ UNCHANGED <<feed, disk, pull, ci, byHand, app, db, feeds, trouble, week>>

\* Nothing depends on the week while the log is empty.
WeekPasses ==
    /\ week < MaxWeeks /\ db.log # <<>>
    /\ week' = week + 1
    /\ UNCHANGED <<feed, head, disk, pull, ci, byHand, app, db, feeds, edits, trouble>>

Init ==
    /\ feed \in {records \in Feeds : Len(records) >= MinItems}
    /\ LET rows == Rows(feed, Empty)
       IN  head = [csv |-> rows, changes |-> {}, before |-> rows, commit |-> 1]
    /\ disk = OnDisk(head, {})
    /\ pull = NoPull
    /\ ci = Idle /\ byHand = Idle
    /\ app = [at |-> "down", read |-> Empty]
    /\ db = NoData
    /\ feeds = 0 /\ edits = 0 /\ trouble = 0 /\ week = 0

Next ==
    \/ CiFetch \/ Push \/ CiDies
    \/ HandFetch \/ HandWritesFirst \/ HandWritesSecond \/ HandDies
    \/ PullChanges \/ PullCatalog
    \/ BootLoad \/ BootImport \/ Refresh \/ Deploy
    \/ \E wiped \in BOOLEAN : Restart(wiped)
    \/ FeedChanges \/ WeekPasses
    \/ \E k \in Keys : HandEdit(k)

Spec == Init /\ [][Next]_vars

-----------------------------------------------------------------------------
(* Properties.                                                              *)

\* The newest logged price of an item, or Absent.
Newest(log, k) ==
    LET mine == {i \in DOMAIN log : log[i].key = k}
    IN  IF mine = {} THEN Absent ELSE log[Max(mine)].new

\* A start on the files of one sync leaves every price that sync changed in the
\* price log, whether the database was wiped or kept, however often the sync
\* died between its two files before, and with the price on file as the newest
\* one (toast_sync.py main, _import_price_change_diffs).
ChangesReachTheQueue ==
    [][app.at = "loaded" /\ app'.at = "up" /\ disk.whole /\ app.read = disk.csv =>
         \A k \in Repriced(disk.csv, disk.before) : Newest(db'.log, k) = disk.csv[k].price]_vars

\* No change is reported twice: two rows of one week for an item and a price
\* have a row between them that moved the price away, whether the load or the
\* import wrote them ("auto-print printed that label twice").
ReportedOnce ==
    \A i, j \in DOMAIN db.log :
        LET a == db.log[i]
            b == db.log[j]
        IN  i < j /\ a.key = b.key /\ a.new = b.new /\ a.week = b.week =>
                \E m \in i..j : db.log[m].key = a.key /\ db.log[m].new # a.new

\* A sale set or ended by hand stays as it is while its item is on file, also
\* when a sync that started before the edit pushes after it.
HandEditsSurvive ==
    [][edits' = edits =>
         \A k \in Keys : head.csv[k].price # Absent /\ head'.csv[k].price # Absent =>
             head'.csv[k].sale = head.csv[k].sale]_vars
=============================================================================
