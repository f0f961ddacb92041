------------------------------ MODULE Catalog -------------------------------
(***************************************************************************)
(* The product catalog and the labels of new items: services/loader.py      *)
(* (bulk_load under _refresh_lock, upsert_record), services/cache.py (the   *)
(* scan-time refresh of one barcode), services/scheduler.py and POST        *)
(* /api/refresh (who starts a load), _run_events_pass of                    *)
(* services/auto_print.py and the switches of services/label_settings.py.   *)
(*                                                                          *)
(* A load reads the whole catalog into a map, then the feed, and upserts    *)
(* the records batch by batch; a batch becomes visible when it commits.     *)
(* Meanwhile a scan may refresh the same item.  A load works on the         *)
(* objects of its map: until its first commit they keep the values read     *)
(* with the map, and an attribute is written only if it differs from the    *)
(* value read.  An item inserted by a load into a catalog that was not      *)
(* empty gets a label event, and the pass after the load prints it.         *)
(*                                                                          *)
(* A key is a pair (barcode, name).  A row's id is its place in `rows`;     *)
(* rows are never deleted.  Batches hold one record.  Not modelled: the     *)
(* flag for suspicious prices, which only shortens the time a row is fresh  *)
(* (a scan may find any row stale here), other columns than the price, and  *)
(* the re-keying of rows that carry a supplier's name as their barcode.     *)
(* Staff may set the price of any row by hand: POST /api/products/custom    *)
(* writes no price log.  The import of price_changes.json at a start logs   *)
(* the price that is on file; it is in CatalogSync.                         *)
(*                                                                          *)
(* Definitions whose name ends in Mutant are distorted copies of the        *)
(* definition that follows them; nothing uses them in a specification.      *)
(***************************************************************************)
EXTENDS Integers, FiniteSets, Sequences

CONSTANTS
    Keys,        \* (barcode, name) pairs
    NameOf,      \* NameOf[k] : the name of key k
    Scheduled,   \* the scheduler's refresh jobs
    Manual,      \* threads of POST /api/refresh
    Nobody,
    FirstFeed,   \* what the point of sale sells at first
    MaxPrice,    \* bound: prices are 1..MaxPrice, 0 is "no price yet"
    HandPrices,  \* bound: the prices that staff set by hand
    PassCap,     \* AUTO_PRINT_EVENTS_PER_PASS
    MaxChanges,  \* bound: changes of the point of sale
    MaxTrouble   \* bound: failures, crashes, switch changes, hand edits and
                 \* labels printed by staff, all together

Refreshers == Scheduled \cup Manual
Absent == -1

ASSUME CatalogAssumption ==
    /\ {MaxPrice, MaxChanges, MaxTrouble} \subseteq Nat
    /\ FirstFeed \in [Keys -> {Absent} \cup 0..MaxPrice]
    /\ PassCap \in Nat \ {0}
    /\ HandPrices \subseteq Nat
    /\ IsFiniteSet(Keys)
    /\ Scheduled \cap Manual = {} /\ Nobody \notin Refreshers

VARIABLES
    pos,         \* external: pos[k], the price at the point of sale, or Absent
    rows,        \* the products table with each row's label event
    refreshLock, \* _refresh_lock
    passLock,    \* _pass_lock
    job,         \* job[r] : what refresher r is doing
    request,     \* the request under way that writes a product: a scan-time
                 \* refresh or a hand edit (bound: one at a time)
    switches,    \* the saved switches, by kind of event
    changes, trouble,        \* bounds only
    lost         \* history: events claimed by a pass that died or broke off

bounds == <<changes, trouble>>
vars == <<pos, rows, refreshLock, passLock, job, request, switches, bounds, lost>>

-----------------------------------------------------------------------------
Kinds == {"new_item", "barcode_change"}
Idle == [at |-> "idle"]

\* A row: its key and price, the new price of its newest price_history row
\* (the first price while there is none), its label event, the labels, and
\* whether its price was set by hand since the last move the log has.
Row(k, price, kind) ==
    [key |-> k, price |-> price, logged |-> price, kind |-> kind,
     event |-> IF kind = "none" THEN "none" ELSE "open", labels |-> 0, staffLabel |-> FALSE,
     byHand |-> FALSE]

Ids == DOMAIN rows
RowsOf(k) == {i \in Ids : rows[i].key = k}
None == 0

\* filter_by(upc, name).first(): the oldest row; the map keeps the newest one.
FirstRow(k) == IF RowsOf(k) = {} THEN None ELSE CHOOSE i \in RowsOf(k) : \A j \in RowsOf(k) : i <= j
LastRow(k) == IF RowsOf(k) = {} THEN None ELSE CHOOSE i \in RowsOf(k) : \A j \in RowsOf(k) : i >= j

\* _record_label_event: the same name is on file under another barcode.
KindOf(k) ==
    IF \E i \in Ids : rows[i].key # k /\ NameOf[rows[i].key] = NameOf[k]
    THEN "barcode_change" ELSE "new_item"

\* What is about to be written, given the row and the price read.
Upsert(k, id, old, new, kind) == [key |-> k, id |-> id, old |-> old, new |-> new, kind |-> kind]

WrittenMutant(w) ==
    IF w.id = None THEN Append(rows, Row(w.key, w.new, w.kind))
    ELSE IF w.new = w.old THEN rows
    ELSE [rows EXCEPT ![w.id].price = w.new, ![w.id].logged = IF w.old = 0 THEN @ ELSE w.new,
                      ![w.id].byHand = FALSE]

\* upsert_record and its commit: a new row with its event, or a moved price
\* with its log entry.
Written(w) ==
    IF w.id = None THEN Append(rows, Row(w.key, w.new, w.kind))
    ELSE IF w.new = w.old THEN rows
    ELSE [rows EXCEPT ![w.id].price = w.new, ![w.id].logged = w.new, ![w.id].byHand = FALSE]

\* create_custom_product and its commit: a new row, or a price without a log
\* entry; an attribute that is given the value read is not written.
Edited(w) ==
    IF w.id = None THEN Append(rows, Row(w.key, w.new, "none"))
    ELSE IF w.new = w.old THEN rows
    ELSE [rows EXCEPT ![w.id].price = w.new, ![w.id].byHand = TRUE]

-----------------------------------------------------------------------------
(* A load.                                                                  *)

\* bulk_load_guarded: the lock must be free, else the refresh is skipped
\* (scheduler) or refused with 409.  The catalog is read into the map.
BeginLoad(r) ==
    /\ job[r] = Idle
    /\ refreshLock = Nobody
    /\ refreshLock' = r
    /\ job' = [job EXCEPT ![r] =
                 [at |-> "mapped", map |-> [k \in Keys |-> LastRow(k)],
                  read |-> [k \in Keys |-> IF LastRow(k) = None THEN 0 ELSE rows[LastRow(k)].price],
                  events |-> rows # <<>>]]
    /\ UNCHANGED <<pos, rows, passLock, request, switches, bounds, lost>>

\* fetch_all: the feed as it is now.
ReadFeed(r) ==
    /\ job[r].at = "mapped"
    /\ job' = [job EXCEPT ![r] =
                 [at |-> "load", map |-> @.map, read |-> @.read, events |-> @.events,
                  expired |-> FALSE, feed |-> pos, todo |-> {k \in Keys : pos[k] # Absent}]]
    /\ UNCHANGED <<pos, rows, refreshLock, passLock, request, switches, bounds, lost>>

\* One record: the object of the map as the load knows it, or a query.
LoadRecord(r, k) ==
    /\ job[r].at = "load" /\ k \in job[r].todo
    /\ LET j == job[r]
           id == IF j.map[k] # None THEN j.map[k] ELSE FirstRow(k)
           old == IF id = None THEN 0
                  ELSE IF j.map[k] # None /\ ~j.expired THEN j.read[k] ELSE rows[id].price
           kind == IF j.events THEN KindOf(k) ELSE "none"
       IN  job' = [job EXCEPT ![r] =
                     [at |-> "batch", map |-> j.map, read |-> j.read, events |-> j.events,
                      expired |-> j.expired, feed |-> j.feed, todo |-> j.todo \ {k},
                      write |-> Upsert(k, id, old, j.feed[k], kind)]]
    /\ UNCHANGED <<pos, rows, refreshLock, passLock, request, switches, bounds, lost>>

\* The batch commits; the objects of the session are read again from now on.
LoadCommit(r) ==
    /\ job[r].at = "batch"
    /\ rows' = Written(job[r].write)
    /\ job' = [job EXCEPT ![r] =
                 [at |-> "load", map |-> @.map, read |-> [k \in Keys |-> 0], events |-> @.events,
                  expired |-> TRUE, feed |-> @.feed, todo |-> @.todo]]
    /\ UNCHANGED <<pos, refreshLock, passLock, request, switches, bounds, lost>>

\* The end of a load.  A refresh asked for by a demo login prints nothing.
EndLoad(r) ==
    /\ job[r].at = "load" /\ job[r].todo = {}
    /\ refreshLock' = Nobody
    /\ \/ job' = [job EXCEPT ![r] = [at |-> "loaded"]]
       \/ r \in Manual /\ job' = [job EXCEPT ![r] = Idle]
    /\ UNCHANGED <<pos, rows, passLock, request, switches, bounds, lost>>

Trouble == trouble < MaxTrouble /\ trouble' = trouble + 1

LoadFailsMutant(r) ==
    /\ Trouble
    /\ job[r].at \in {"mapped", "load", "batch"}
    /\ refreshLock' = refreshLock
    /\ job' = [job EXCEPT ![r] = Idle]
    /\ UNCHANGED <<pos, rows, passLock, request, switches, changes, lost>>

\* The feed breaks off or a commit fails: the open batch is rolled back, the
\* ones before it stay, and no labels are printed after this load.
LoadFails(r) ==
    /\ Trouble
    /\ job[r].at \in {"mapped", "load", "batch"}
    /\ refreshLock' = Nobody
    /\ job' = [job EXCEPT ![r] = Idle]
    /\ UNCHANGED <<pos, rows, passLock, request, switches, changes, lost>>

-----------------------------------------------------------------------------
(* The pass over the label events after a load.                             *)

\* The pass lock is free: the switches and the open events are read once.
\* (If it is not, the pass is skipped.)
BeginPass(r) ==
    /\ job[r].at = "loaded"
    /\ IF passLock = Nobody
       THEN /\ passLock' = r
            /\ job' = [job EXCEPT ![r] =
                         [at |-> "pass", allowed |-> switches, printed |-> 0, id |-> None,
                          todo |-> {i \in Ids : rows[i].event = "open"}]]
       ELSE /\ passLock' = passLock
            /\ job' = [job EXCEPT ![r] = Idle]
    /\ UNCHANGED <<pos, rows, refreshLock, request, switches, bounds, lost>>

\* The pass looks at i, the oldest event it has not looked at.
Looking(r, i) ==
    /\ job[r].at = "pass"
    /\ i \in job[r].todo /\ \A j \in job[r].todo : i <= j

Allowed(r, i) == job[r].allowed[rows[i].kind]

\* Not wanted any more, too old, or staff printed the label in the meantime.
PassCloses(r, i) ==
    /\ Looking(r, i)
    /\ \E outcome \in {"switched_off", "too_old", "already_printed"} :
         /\ outcome = "switched_off" => ~Allowed(r, i)
         /\ outcome = "already_printed" =>
              Allowed(r, i) /\ rows[i].price > 0 /\ rows[i].staffLabel
         /\ outcome = "too_old" => Allowed(r, i)
         /\ rows' = [rows EXCEPT ![i].event = outcome]
    /\ job' = [job EXCEPT ![r].todo = @ \ {i}]
    /\ UNCHANGED <<pos, refreshLock, passLock, request, switches, bounds, lost>>

\* No price yet, or the cap of the pass is reached: the event waits.
PassWaits(r, i) ==
    /\ Looking(r, i) /\ Allowed(r, i)
    /\ rows[i].price = 0 \/ (~rows[i].staffLabel /\ job[r].printed >= PassCap)
    /\ job' = [job EXCEPT ![r].todo = @ \ {i}]
    /\ UNCHANGED <<pos, rows, refreshLock, passLock, request, switches, bounds, lost>>

\* The claim: a conditional update of handled_at, committed at once.
PassClaims(r, i) ==
    /\ Looking(r, i) /\ Allowed(r, i)
    /\ rows[i].price > 0 /\ ~rows[i].staffLabel /\ job[r].printed < PassCap
    /\ rows[i].event = "open"
    /\ rows' = [rows EXCEPT ![i].event = "claimed"]
    /\ job' = [job EXCEPT ![r].at = "claimed", ![r].id = i, ![r].todo = @ \ {i}]
    /\ UNCHANGED <<pos, refreshLock, passLock, request, switches, bounds, lost>>

\* The job is queued, then the event is closed as printed.
PassPrints(r) ==
    /\ job[r].at = "claimed"
    /\ rows' = [rows EXCEPT ![job[r].id].labels = @ + 1]
    /\ job' = [job EXCEPT ![r].at = "queued"]
    /\ UNCHANGED <<pos, refreshLock, passLock, request, switches, bounds, lost>>

PassMarks(r) ==
    /\ job[r].at = "queued"
    /\ rows' = [rows EXCEPT ![job[r].id].event = "printed"]
    /\ job' = [job EXCEPT ![r].at = "pass", ![r].printed = @ + 1, ![r].id = None]
    /\ UNCHANGED <<pos, refreshLock, passLock, request, switches, bounds, lost>>

PassFailsMutant(r) ==
    /\ Trouble
    /\ job[r].at = "claimed"
    /\ job' = [job EXCEPT ![r].at = "pass", ![r].id = None]
    /\ UNCHANGED <<pos, rows, refreshLock, passLock, request, switches, changes, lost>>

\* The queue refused the job (RuntimeError or QueueFull): the claim is given
\* back.
PassFails(r) ==
    /\ Trouble
    /\ job[r].at = "claimed"
    /\ rows' = [rows EXCEPT ![job[r].id].event = "open"]
    /\ job' = [job EXCEPT ![r].at = "pass", ![r].id = None]
    /\ UNCHANGED <<pos, refreshLock, passLock, request, switches, changes, lost>>

PassStages == {"pass", "claimed", "queued"}

\* Any other exception, of a commit or in the queue (or in the pass over price
\* changes, which holds the same lock before): the pass is over, the lock free
\* and the process alive, but the event in its hand stays claimed.
PassBreaks(r) ==
    /\ Trouble
    /\ job[r].at \in PassStages
    /\ passLock' = Nobody
    /\ lost' = lost \cup ({job[r].id} \ {None})
    /\ job' = [job EXCEPT ![r] = Idle]
    /\ UNCHANGED <<pos, rows, refreshLock, request, switches, changes>>

EndPassMutant(r) ==
    /\ job[r].at = "pass" /\ job[r].todo = {}
    /\ job' = [job EXCEPT ![r] = Idle]
    /\ UNCHANGED <<pos, rows, refreshLock, passLock, request, switches, bounds, lost>>

EndPass(r) ==
    /\ job[r].at = "pass" /\ job[r].todo = {}
    /\ passLock' = Nobody
    /\ job' = [job EXCEPT ![r] = Idle]
    /\ UNCHANGED <<pos, rows, refreshLock, request, switches, bounds, lost>>

-----------------------------------------------------------------------------
(* A scan that finds no fresh row.                                          *)

ScanFetch(k) ==
    /\ request = Idle
    /\ pos[k] # Absent
    /\ request' = [at |-> "fetched", key |-> k, price |-> pos[k]]
    /\ UNCHANGED <<pos, rows, refreshLock, passLock, job, switches, bounds, lost>>

\* _refresh_one: upsert without an event, and commit.
ScanStore ==
    /\ request.at = "fetched"
    /\ LET id == FirstRow(request.key)
           old == IF id = None THEN 0 ELSE rows[id].price
       IN  rows' = Written(Upsert(request.key, id, old, request.price, "none"))
    /\ request' = Idle
    /\ UNCHANGED <<pos, refreshLock, passLock, job, switches, bounds, lost>>

\* The commit fails: rolled back, the scan shows what was on file.
ScanFails ==
    /\ Trouble
    /\ request.at = "fetched"
    /\ request' = Idle
    /\ UNCHANGED <<pos, rows, refreshLock, passLock, job, switches, changes, lost>>

-----------------------------------------------------------------------------
(* The point of sale, staff, and the process.                               *)

\* External: an item is added, repriced, or taken off the menu.
PosChanges(k) ==
    /\ changes < MaxChanges
    /\ \E p \in ({Absent} \cup 0..MaxPrice) \ {pos[k]} : pos' = [pos EXCEPT ![k] = p]
    /\ changes' = changes + 1
    /\ UNCHANGED <<rows, refreshLock, passLock, job, request, switches, trouble, lost>>

\* set_auto_print_switches.
FlipSwitch(kind) ==
    /\ Trouble
    /\ switches' = [switches EXCEPT ![kind] = ~@]
    /\ UNCHANGED <<pos, rows, refreshLock, passLock, job, request, changes, lost>>

\* A label of the row printed from the scanner page, after its event.
StaffPrints(i) ==
    /\ Trouble
    /\ rows[i].event \in {"open", "claimed"} /\ ~rows[i].staffLabel
    /\ rows' = [rows EXCEPT ![i].staffLabel = TRUE]
    /\ UNCHANGED <<pos, refreshLock, passLock, job, request, switches, changes, lost>>

\* create_custom_product looks the row up ...
EditRead(k, p) ==
    /\ Trouble
    /\ request = Idle
    /\ LET id == FirstRow(k)
           old == IF id = None THEN 0 ELSE rows[id].price
       IN  request' = [at |-> "edit", write |-> Upsert(k, id, old, p, "none")]
    /\ UNCHANGED <<pos, rows, refreshLock, passLock, job, switches, changes, lost>>

\* ... and commits, whatever was committed to the row in between.
EditCommit ==
    /\ request.at = "edit"
    /\ rows' = Edited(request.write)
    /\ request' = Idle
    /\ UNCHANGED <<pos, refreshLock, passLock, job, switches, bounds, lost>>

\* The process dies: locks, map, batch and pass are gone, committed rows stay.
Crash ==
    /\ Trouble
    /\ job # [r \in Refreshers |-> Idle] \/ request # Idle
    /\ refreshLock' = Nobody /\ passLock' = Nobody
    /\ job' = [r \in Refreshers |-> Idle]
    /\ request' = Idle
    /\ lost' = lost \cup {i \in Ids : rows[i].event = "claimed"}
    /\ UNCHANGED <<pos, rows, switches, changes>>

Init ==
    /\ pos = FirstFeed
    /\ rows = <<>>
    /\ refreshLock = Nobody /\ passLock = Nobody
    /\ job = [r \in Refreshers |-> Idle]
    /\ request = Idle
    /\ switches = [kind \in Kinds |-> TRUE]
    /\ changes = 0 /\ trouble = 0
    /\ lost = {}

Load(r) == ReadFeed(r) \/ (\E k \in Keys : LoadRecord(r, k)) \/ LoadCommit(r) \/ EndLoad(r)

Pass(r) ==
    \/ BeginPass(r)
    \/ \E i \in Ids : PassCloses(r, i) \/ PassWaits(r, i) \/ PassClaims(r, i)
    \/ PassPrints(r) \/ PassMarks(r) \/ EndPass(r)

Next ==
    \/ \E r \in Refreshers : BeginLoad(r) \/ Load(r) \/ LoadFails(r)
    \/ \E r \in Refreshers : Pass(r) \/ PassFails(r) \/ PassBreaks(r)
    \/ \E k \in Keys : ScanFetch(k) \/ PosChanges(k)
    \/ ScanStore \/ ScanFails
    \/ \E kind \in Kinds : FlipSwitch(kind)
    \/ \E i \in Ids : StaffPrints(i)
    \/ \E k \in Keys, p \in HandPrices : EditRead(k, p)
    \/ EditCommit
    \/ Crash

Spec == Init /\ [][Next]_vars

\* The scheduler comes back for ever and finds the lock free now and then;
\* whatever holds it goes on.  Scans, staff, manual refreshes and the point of
\* sale owe nothing.
FairSpec ==
    /\ Spec
    /\ \A r \in Scheduled : SF_vars(BeginLoad(r))
    /\ \A r \in Refreshers : WF_vars(Load(r) \/ Pass(r))

-----------------------------------------------------------------------------
(* Properties.                                                              *)

\* The price on file is the newest one in the price log, for every row and
\* however loads and scans of an item overlap or fail half way: a price that
\* moved without a log entry would never get its label (upsert_record).  Only a
\* price set by hand parts the two, until a load or a scan moves it again.
LoggedPriceIsCurrent ==
    \A i \in Ids : rows[i].byHand \/ rows[i].logged = rows[i].price

\* Labels and outcomes of the events agree: a label per event at most; none
\* for an event that is open or was closed without one; and an event stays
\* claimed only while its pass is at it, or if its pass broke off there or the
\* process died.
EventsAndLabelsAgree ==
    \A i \in Ids :
        /\ rows[i].labels <= 1
        /\ rows[i].labels = 1 => rows[i].event \in {"claimed", "printed"}
        /\ rows[i].event = "printed" => rows[i].labels = 1
        /\ rows[i].event = "claimed" =>
             i \in lost \/ \E r \in Refreshers : job[r].at \in {"claimed", "queued"} /\ job[r].id = i

\* Every event of an item with a price is handled in the end, although a pass
\* prints PassCap labels at most and the queue may refuse (_run_events_pass).
\* An item that has no price may wait for ever.
EventsAreHandled ==
    \A k \in Keys :
        (\E i \in RowsOf(k) : rows[i].event = "open") ~>
            (\A i \in RowsOf(k) : rows[i].event = "open" => rows[i].price = 0)

\* Once the point of sale rests, every item it sells is on file at its price,
\* whatever raced or failed before (bulk_load): some row of the key has it.
CatalogFollowsFeed ==
    <>[](\A k \in Keys : pos[k] # Absent => \E i \in RowsOf(k) : rows[i].price = pos[k])
=============================================================================
