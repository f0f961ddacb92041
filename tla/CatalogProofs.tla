---------------------------- MODULE CatalogProofs ----------------------------
(***************************************************************************)
(* What holds of the catalog for any items, any number of refreshers and    *)
(* any number of changes, hand edits, failures and crashes: the price log   *)
(* keeps up with the prices that loads and scans write, and the labels of   *)
(* the events agree with their outcomes.                                    *)
(***************************************************************************)
EXTENDS Catalog, TLAPS

-----------------------------------------------------------------------------
(* Types: only what the steps below read.                                   *)

Events == {"none", "open", "claimed", "printed", "switched_off", "too_old", "already_printed"}

RowKinds == Kinds \cup {"none"}

RowType ==
    [key : Keys, price : Int, logged : Int, kind : RowKinds, event : Events,
     labels : Nat, staffLabel : BOOLEAN, byHand : BOOLEAN]

Prices == [Keys -> Int]

PassType ==
    [at : PassStages, allowed : [Kinds -> BOOLEAN], printed : Nat, id : Nat, todo : SUBSET Nat]

\* A write that may be committed: its row and its old price may be anything.
Writable(w) == w.key \in Keys /\ w.new \in Int /\ w.kind \in RowKinds

JobInv(r) ==
    /\ job[r].at \in {"load", "batch"} => job[r].feed \in Prices /\ job[r].todo \subseteq Keys
    /\ job[r].at = "batch" => Writable(job[r].write)
    /\ job[r].at \in PassStages => job[r] \in PassType

\* The types, in every reachable state.
TypeInv ==
    /\ pos \in Prices
    /\ rows \in Seq(RowType)
    /\ job = [r \in Refreshers |-> job[r]]
    /\ \A r \in Refreshers : JobInv(r)
    /\ request.at = "fetched" => request.key \in Keys /\ request.price \in Int
    /\ request.at = "edit" => Writable(request.write)
    /\ switches \in [Kinds -> BOOLEAN]

-----------------------------------------------------------------------------
(* The ways a row changes.                                                  *)

\* The price log of a row ends with its price, unless it was set by hand.
Logged(row) == row.byHand \/ row.logged = row.price

\* A new outcome of the event of row i, and nothing else.
LEMMA SetEvent ==
    ASSUME NEW s \in Seq(RowType), NEW i \in DOMAIN s, NEW e \in Events
    PROVE  LET t == [s EXCEPT ![i].event = e]
           IN  /\ t \in Seq(RowType) /\ DOMAIN t = DOMAIN s
               /\ \A j \in DOMAIN s : j # i => t[j] = s[j]
               /\ t[i].event = e
               /\ t[i].labels = s[i].labels /\ (Logged(s[i]) => Logged(t[i]))
<1> DEFINE t == [s EXCEPT ![i].event = e]
<1>1. s[i] \in RowType
  OBVIOUS
<1>2. [s[i] EXCEPT !.event = e] \in RowType
  BY <1>1 DEF RowType
<1>3. t = [s EXCEPT ![i] = [s[i] EXCEPT !.event = e]]
  OBVIOUS
<1>4. t \in Seq(RowType) /\ DOMAIN t = DOMAIN s
  BY <1>2, <1>3
<1>5. t[i] = [s[i] EXCEPT !.event = e] /\ \A j \in DOMAIN s : j # i => t[j] = s[j]
  BY <1>3
<1> QED
  BY <1>1, <1>4, <1>5 DEF RowType, Logged

\* One more label of row i.
LEMMA AddLabel ==
    ASSUME NEW s \in Seq(RowType), NEW i \in DOMAIN s
    PROVE  LET t == [s EXCEPT ![i].labels = @ + 1]
           IN  /\ t \in Seq(RowType) /\ DOMAIN t = DOMAIN s
               /\ \A j \in DOMAIN s : j # i => t[j] = s[j]
               /\ t[i].event = s[i].event
               /\ t[i].labels = s[i].labels + 1
               /\ Logged(s[i]) => Logged(t[i])
<1> DEFINE t == [s EXCEPT ![i].labels = @ + 1]
           row == [s[i] EXCEPT !.labels = s[i].labels + 1]
<1>1. s[i] \in RowType
  OBVIOUS
<1>2. row \in RowType
  <2>1. s[i].labels + 1 \in Nat
    BY <1>1 DEF RowType
  <2> QED
    BY <1>1, <2>1 DEF RowType
<1>3. t = [s EXCEPT ![i] = row]
  OBVIOUS
<1>4. t \in Seq(RowType) /\ DOMAIN t = DOMAIN s
  BY <1>2, <1>3
<1>5. t[i] = row /\ \A j \in DOMAIN s : j # i => t[j] = s[j]
  BY <1>3
<1> QED
  BY <1>1, <1>4, <1>5 DEF RowType, Logged

\* A label that staff print.
LEMMA SetStaffLabel ==
    ASSUME NEW s \in Seq(RowType), NEW i \in DOMAIN s
    PROVE  LET t == [s EXCEPT ![i].staffLabel = TRUE]
           IN  /\ t \in Seq(RowType) /\ DOMAIN t = DOMAIN s
               /\ \A j \in DOMAIN s :
                    /\ t[j].event = s[j].event /\ t[j].labels = s[j].labels
                    /\ Logged(s[j]) => Logged(t[j])
<1> DEFINE t == [s EXCEPT ![i].staffLabel = TRUE]
           row == [s[i] EXCEPT !.staffLabel = TRUE]
<1>1. s[i] \in RowType
  OBVIOUS
<1>2. row \in RowType
  BY <1>1 DEF RowType
<1>3. t = [s EXCEPT ![i] = row]
  OBVIOUS
<1>4. t \in Seq(RowType) /\ DOMAIN t = DOMAIN s
  BY <1>2, <1>3
<1>5. t[i] = row /\ \A j \in DOMAIN s : j # i => t[j] = s[j]
  BY <1>3
<1> QED
  BY <1>1, <1>4, <1>5 DEF RowType, Logged

\* What a commit of a load, a scan or a hand edit may make of the rows: it keeps
\* events and labels, parts no price from its log but by hand, and the rows it
\* adds have an open event or none, and no label.
Committed(t) ==
    /\ t \in Seq(RowType)
    /\ DOMAIN rows \subseteq DOMAIN t
    /\ \A i \in DOMAIN rows :
         /\ t[i].event = rows[i].event /\ t[i].labels = rows[i].labels
         /\ Logged(rows[i]) => Logged(t[i])
    /\ \A i \in DOMAIN t \ DOMAIN rows :
         /\ t[i].event \in {"none", "open"} /\ t[i].labels = 0
         /\ Logged(t[i])

\* A new row.
LEMMA NewRow ==
    ASSUME rows \in Seq(RowType), NEW key \in Keys, NEW price \in Int, NEW kind \in RowKinds
    PROVE  Committed(Append(rows, Row(key, price, kind)))
<1> DEFINE new == Row(key, price, kind)
<1>1. /\ new.key = key /\ new.price = price /\ new.logged = price /\ new.kind = kind
      /\ new.event = (IF kind = "none" THEN "none" ELSE "open")
      /\ new.labels = 0 /\ new.staffLabel = FALSE /\ new.byHand = FALSE
      /\ new = [key |-> new.key, price |-> new.price, logged |-> new.logged,
                kind |-> new.kind, event |-> new.event, labels |-> new.labels,
                staffLabel |-> new.staffLabel, byHand |-> new.byHand]
  BY DEF Row
<1> HIDE DEF new
<1>2. new.event \in Events
  BY <1>1 DEF Events
<1>3. /\ new.key \in Keys /\ new.price \in Int /\ new.logged \in Int /\ new.kind \in RowKinds
      /\ new.labels \in Nat /\ new.staffLabel \in BOOLEAN /\ new.byHand \in BOOLEAN
  <2>1. 0 \in Nat /\ FALSE \in BOOLEAN
    OBVIOUS
  <2> QED
    BY <1>1, <2>1, Zenon
<1>4. new \in RowType
  BY <1>1, <1>2, <1>3 DEF RowType
<1>5. new.event \in {"none", "open"} /\ new.labels = 0 /\ Logged(new)
  BY <1>1 DEF Logged
<1>6. /\ Append(rows, new) \in Seq(RowType)
      /\ DOMAIN Append(rows, new) = 1..(Len(rows) + 1) /\ DOMAIN rows = 1..Len(rows)
      /\ Len(rows) \in Nat
      /\ \A i \in 1..Len(rows) : Append(rows, new)[i] = rows[i]
      /\ Append(rows, new)[Len(rows) + 1] = new
  BY <1>4
<1>7. Committed(Append(rows, new))
  BY <1>5, <1>6 DEF Committed
<1> QED
  BY <1>7 DEF new

\* A row with another price.
LEMMA MovedRow ==
    ASSUME rows \in Seq(RowType), NEW i \in DOMAIN rows, NEW row \in RowType,
           row.event = rows[i].event, row.labels = rows[i].labels, Logged(row)
    PROVE  Committed([rows EXCEPT ![i] = row])
<1> DEFINE t == [rows EXCEPT ![i] = row]
<1>1. t \in Seq(RowType) /\ DOMAIN t = DOMAIN rows
  OBVIOUS
<1>2. t[i] = row /\ \A j \in DOMAIN rows : j # i => t[j] = rows[j]
  OBVIOUS
<1> HIDE DEF t
<1>3. Committed(t)
  BY <1>1, <1>2 DEF Committed
<1> QED
  BY <1>3 DEF t

LEMMA SameRows == rows \in Seq(RowType) => Committed(rows)
BY DEF Committed

\* upsert_record moves the price of a row and its log together.
LEMMA WrittenRows ==
    ASSUME rows \in Seq(RowType), NEW w, Writable(w)
    PROVE  Committed(Written(w))
<1>1. CASE w.id = None
  BY <1>1, NewRow DEF Written, Writable
<1>2. CASE w.id # None /\ w.new = w.old
  BY <1>2, SameRows DEF Written
<1>3. CASE w.id # None /\ w.new # w.old /\ w.id \in DOMAIN rows
  <2> DEFINE row == [rows[w.id] EXCEPT !.price = w.new, !.logged = w.new, !.byHand = FALSE]
  <2>1. rows[w.id] \in RowType
    BY <1>3
  <2>2. /\ row \in RowType /\ row.event = rows[w.id].event
        /\ row.labels = rows[w.id].labels /\ Logged(row)
    BY <2>1 DEF RowType, Writable, Logged
  <2>3. Written(w) = [rows EXCEPT ![w.id] = row]
    BY <1>3 DEF Written
  <2> HIDE DEF row
  <2> QED
    BY <1>3, <2>2, <2>3, MovedRow
<1>4. CASE w.id # None /\ w.new # w.old /\ w.id \notin DOMAIN rows
  <2>1. [rows EXCEPT ![w.id].price = w.new, ![w.id].logged = w.new, ![w.id].byHand = FALSE] = rows
    BY <1>4
  <2>2. Written(w) = rows
    BY <1>4, <2>1 DEF Written
  <2> QED
    BY <2>2, SameRows
<1> QED
  BY <1>1, <1>2, <1>3, <1>4

\* create_custom_product moves the price of a row and says so.
LEMMA EditedRows ==
    ASSUME rows \in Seq(RowType), NEW w, Writable(w)
    PROVE  Committed(Edited(w))
<1>1. CASE w.id = None
  BY <1>1, NewRow DEF Edited, Writable, RowKinds
<1>2. CASE w.id # None /\ w.new = w.old
  BY <1>2, SameRows DEF Edited
<1>3. CASE w.id # None /\ w.new # w.old /\ w.id \in DOMAIN rows
  <2> DEFINE row == [rows[w.id] EXCEPT !.price = w.new, !.byHand = TRUE]
  <2>1. rows[w.id] \in RowType
    BY <1>3
  <2>2. /\ row \in RowType /\ row.event = rows[w.id].event
        /\ row.labels = rows[w.id].labels /\ Logged(row)
    BY <2>1 DEF RowType, Writable, Logged
  <2>3. Edited(w) = [rows EXCEPT ![w.id] = row]
    BY <1>3 DEF Edited
  <2> HIDE DEF row
  <2> QED
    BY <1>3, <2>2, <2>3, MovedRow
<1>4. CASE w.id # None /\ w.new # w.old /\ w.id \notin DOMAIN rows
  <2>1. [rows EXCEPT ![w.id].price = w.new, ![w.id].byHand = TRUE] = rows
    BY <1>4
  <2>2. Edited(w) = rows
    BY <1>4, <2>1 DEF Edited
  <2> QED
    BY <2>2, SameRows
<1> QED
  BY <1>1, <1>2, <1>3, <1>4

-----------------------------------------------------------------------------
(* The steps keep the types.                                                *)

\* A step of one refresher that leaves rows, prices and switches of the right
\* type, and a job that is.
LEMMA OneJob ==
    ASSUME TypeInv, NEW r \in Refreshers, NEW j, job' = [job EXCEPT ![r] = j]
    PROVE  /\ job' = [q \in Refreshers |-> job'[q]]
           /\ job'[r] = j
           /\ \A q \in Refreshers : q # r => job'[q] = job[q] /\ JobInv(q)'
<1>1. job = [q \in Refreshers |-> job[q]] /\ \A q \in Refreshers : JobInv(q)
  BY DEF TypeInv
<1>2. job' = [q \in Refreshers |-> job'[q]] /\ job'[r] = j
  BY <1>1
<1>3. \A q \in Refreshers : q # r => job'[q] = job[q]
  BY <1>1
<1>4. \A q \in Refreshers : q # r => JobInv(q)'
  BY <1>1, <1>3 DEF JobInv
<1> QED
  BY <1>2, <1>3, <1>4

LEMMA TypeStart == Init => TypeInv
<1> SUFFICES ASSUME Init PROVE TypeInv
  OBVIOUS
<1>1. pos \in Prices
  BY CatalogAssumption DEF Init, Prices, Absent
<1>2. rows \in Seq(RowType) /\ switches \in [Kinds -> BOOLEAN] /\ request.at = "idle"
  BY DEF Init, Idle
<1>3. job = [r \in Refreshers |-> job[r]] /\ \A r \in Refreshers : job[r].at = "idle"
  BY DEF Init, Idle
<1> QED
  BY <1>1, <1>2, <1>3 DEF TypeInv, JobInv, PassStages

\* A load: its jobs.
LEMMA LoadTypes ==
    ASSUME TypeInv, NEW r \in Refreshers,
           BeginLoad(r) \/ Load(r) \/ LoadFails(r)
    PROVE  TypeInv'
<1>1. ASSUME NEW j, job' = [job EXCEPT ![r] = j], JobInv(r)', rows' \in Seq(RowType),
             pos' = pos, request' = request, switches' = switches
      PROVE  TypeInv'
  BY <1>1, OneJob DEF TypeInv
<1>2. rows \in Seq(RowType) /\ pos \in Prices /\ JobInv(r)
  BY DEF TypeInv
<1>3. CASE BeginLoad(r)
  <2> DEFINE j == [at |-> "mapped", map |-> [k \in Keys |-> LastRow(k)],
                   read |-> [k \in Keys |-> IF LastRow(k) = None THEN 0 ELSE rows[LastRow(k)].price],
                   events |-> rows # <<>>]
  <2>1. job' = [job EXCEPT ![r] = j] /\ j.at = "mapped"
    BY <1>3 DEF BeginLoad
  <2> HIDE DEF j
  <2>2. JobInv(r)'
    BY <2>1, OneJob DEF JobInv, PassStages
  <2> QED
    BY <1>1, <1>2, <1>3, <2>1, <2>2 DEF BeginLoad
<1>4. CASE ReadFeed(r)
  <2> DEFINE j == [at |-> "load", map |-> job[r].map, read |-> job[r].read, events |-> job[r].events,
                   expired |-> FALSE, feed |-> pos, todo |-> {k \in Keys : pos[k] # Absent}]
  <2>1. job' = [job EXCEPT ![r] = j]
    BY <1>4 DEF ReadFeed, TypeInv
  <2>2. j.at = "load" /\ j.feed = pos /\ j.todo \subseteq Keys
    OBVIOUS
  <2> HIDE DEF j
  <2>3. JobInv(r)'
    BY <1>2, <2>1, <2>2, OneJob DEF JobInv, PassStages
  <2> QED
    BY <1>1, <1>2, <1>4, <2>1, <2>3 DEF ReadFeed
<1>5. ASSUME NEW k \in Keys, LoadRecord(r, k) PROVE TypeInv'
  <2>1. PICK w, o, n, c :
          /\ job' = [job EXCEPT ![r] =
                       [at |-> "batch", map |-> job[r].map, read |-> job[r].read,
                        events |-> job[r].events, expired |-> job[r].expired,
                        feed |-> job[r].feed, todo |-> job[r].todo \ {k}, write |-> w]]
          /\ w = Upsert(k, o, n, job[r].feed[k], c)
          /\ c \in {KindOf(k), "none"}
    BY <1>5 DEF LoadRecord
  <2> DEFINE j == [at |-> "batch", map |-> job[r].map, read |-> job[r].read,
                   events |-> job[r].events, expired |-> job[r].expired,
                   feed |-> job[r].feed, todo |-> job[r].todo \ {k}, write |-> w]
  <2>2. job[r].at = "load" /\ job[r].feed \in Prices /\ job[r].todo \subseteq Keys
    BY <1>2, <1>5 DEF LoadRecord, JobInv
  <2>3. job' = [job EXCEPT ![r] = j]
    BY <2>1
  <2>4. j.at = "batch" /\ j.feed \in Prices /\ j.todo \subseteq Keys /\ j.write = w
    BY <2>2
  <2>5. c \in RowKinds
    BY <2>1 DEF RowKinds, Kinds, KindOf
  <2>6. w.key = k /\ w.new = job[r].feed[k] /\ w.kind = c
    BY <2>1 DEF Upsert
  <2>7. Writable(w)
    BY <2>2, <2>5, <2>6 DEF Writable, Prices
  <2> HIDE DEF j
  <2>8. JobInv(r)'
    BY <2>3, <2>4, <2>7, OneJob DEF JobInv, PassStages
  <2> QED
    BY <1>1, <1>2, <1>5, <2>3, <2>8 DEF LoadRecord
<1>6. CASE LoadCommit(r)
  <2> DEFINE j == [at |-> "load", map |-> job[r].map, read |-> [k \in Keys |-> 0],
                   events |-> job[r].events, expired |-> TRUE, feed |-> job[r].feed,
                   todo |-> job[r].todo]
  <2>1. job[r].feed \in Prices /\ job[r].todo \subseteq Keys /\ Writable(job[r].write)
    BY <1>2, <1>6 DEF LoadCommit, JobInv
  <2>2. job' = [job EXCEPT ![r] = j]
    BY <1>6 DEF LoadCommit, TypeInv
  <2>3. j.at = "load" /\ j.feed \in Prices /\ j.todo \subseteq Keys
    BY <2>1
  <2> HIDE DEF j
  <2>4. JobInv(r)'
    BY <2>2, <2>3, OneJob DEF JobInv, PassStages
  <2>5. rows' \in Seq(RowType)
    BY <1>2, <1>6, <2>1, WrittenRows DEF LoadCommit, Committed
  <2> QED
    BY <1>1, <1>6, <2>2, <2>4, <2>5 DEF LoadCommit
<1>7. CASE EndLoad(r) \/ LoadFails(r)
  <2>1. /\ \/ job' = [job EXCEPT ![r] = [at |-> "loaded"]]
           \/ job' = [job EXCEPT ![r] = Idle]
        /\ rows' = rows /\ pos' = pos /\ request' = request /\ switches' = switches
    BY <1>7 DEF EndLoad, LoadFails
  <2>2. ASSUME NEW j, job' = [job EXCEPT ![r] = j], j.at \in {"loaded", "idle"}
        PROVE  TypeInv'
    <3>1. JobInv(r)'
      BY <2>2, OneJob DEF JobInv, PassStages
    <3> QED
      BY <1>1, <1>2, <2>1, <2>2, <3>1
  <2>3. [at |-> "loaded"].at = "loaded" /\ Idle.at = "idle"
    BY DEF Idle
  <2> QED
    BY <2>1, <2>2, <2>3
<1> QED
  BY <1>3, <1>4, <1>5, <1>6, <1>7 DEF Load

\* A pass: its jobs, and the events it writes.
LEMMA PassTypes ==
    ASSUME TypeInv, NEW r \in Refreshers, Pass(r) \/ PassFails(r) \/ PassBreaks(r)
    PROVE  TypeInv'
<1>1. ASSUME NEW j, job' = [job EXCEPT ![r] = j], j \in PassType \/ j.at = "idle",
             rows' \in Seq(RowType), pos' = pos, request' = request, switches' = switches
      PROVE  TypeInv'
  <2>1. JobInv(r)'
    <3>1. job'[r] = j
      BY <1>1, OneJob
    <3>2. j \in PassType => j.at \in PassStages
      BY DEF PassType
    <3> QED
      BY <1>1, <3>1, <3>2 DEF JobInv, PassStages
  <2> QED
    BY <1>1, <2>1, OneJob DEF TypeInv
<1>2. rows \in Seq(RowType) /\ JobInv(r) /\ switches \in [Kinds -> BOOLEAN]
  BY DEF TypeInv
<1>3. ASSUME NEW i \in Ids, NEW e \in Events, rows' = [rows EXCEPT ![i].event = e]
      PROVE  rows' \in Seq(RowType)
  BY <1>2, <1>3, SetEvent DEF Ids
<1>4. Ids \subseteq Nat
  BY <1>2 DEF Ids
<1>5. Idle.at = "idle"
  BY DEF Idle
<1>6. CASE BeginPass(r)
  <2>1. CASE passLock = Nobody
    <3> DEFINE j == [at |-> "pass", allowed |-> switches, printed |-> 0, id |-> None,
                     todo |-> {i \in Ids : rows[i].event = "open"}]
    <3>1. job' = [job EXCEPT ![r] = j]
      BY <1>6, <2>1 DEF BeginPass
    <3>2. j \in PassType
      BY <1>2, <1>4 DEF PassType, PassStages, None
    <3> QED
      BY <1>1, <1>2, <1>6, <3>1, <3>2 DEF BeginPass
  <2>2. CASE passLock # Nobody
    BY <1>1, <1>2, <1>5, <1>6, <2>2 DEF BeginPass
  <2> QED
    BY <2>1, <2>2
<1>7. ASSUME NEW i \in Ids, PassCloses(r, i) \/ PassWaits(r, i) PROVE TypeInv'
  <2> DEFINE j == [job[r] EXCEPT !.todo = @ \ {i}]
  <2>1. job[r] \in PassType
    BY <1>2, <1>7 DEF PassCloses, PassWaits, Looking, JobInv, PassStages
  <2>2. j \in PassType
    BY <2>1 DEF PassType
  <2>3. job' = [job EXCEPT ![r] = j]
    BY <1>7 DEF PassCloses, PassWaits, TypeInv
  <2>4. rows' \in Seq(RowType)
    <3>1. CASE PassCloses(r, i)
      <4>1. PICK e \in {"switched_off", "too_old", "already_printed"} :
              rows' = [rows EXCEPT ![i].event = e]
        BY <3>1 DEF PassCloses
      <4> QED
        BY <1>3, <4>1 DEF Events
    <3>2. CASE PassWaits(r, i)
      BY <1>2, <3>2 DEF PassWaits
    <3> QED
      BY <1>7, <3>1, <3>2
  <2> QED
    BY <1>1, <1>7, <2>2, <2>3, <2>4 DEF PassCloses, PassWaits
<1>8. ASSUME NEW i \in Ids, PassClaims(r, i) PROVE TypeInv'
  <2> DEFINE j == [job[r] EXCEPT !.at = "claimed", !.id = i, !.todo = @ \ {i}]
  <2>1. job[r] \in PassType
    BY <1>2, <1>8 DEF PassClaims, Looking, JobInv, PassStages
  <2>2. j \in PassType
    BY <1>4, <2>1 DEF PassType, PassStages
  <2>3. job' = [job EXCEPT ![r] = j]
    BY <1>8 DEF PassClaims, TypeInv
  <2>4. rows' \in Seq(RowType)
    BY <1>3, <1>8 DEF PassClaims, Events
  <2> QED
    BY <1>1, <1>8, <2>2, <2>3, <2>4 DEF PassClaims
<1>9. CASE PassPrints(r)
  <2> DEFINE j == [job[r] EXCEPT !.at = "queued"]
  <2>1. job[r] \in PassType
    BY <1>2, <1>9 DEF PassPrints, JobInv, PassStages
  <2>2. j \in PassType
    BY <2>1 DEF PassType, PassStages
  <2>3. job' = [job EXCEPT ![r] = j]
    BY <1>9 DEF PassPrints, TypeInv
  <2>4. rows' \in Seq(RowType)
    <3>1. CASE job[r].id \in Ids
      BY <1>2, <1>9, <3>1, AddLabel DEF PassPrints, Ids
    <3>2. CASE job[r].id \notin Ids
      <4>1. rows' = [rows EXCEPT ![job[r].id].labels = @ + 1]
        BY <1>9 DEF PassPrints
      <4>2. rows' = rows
        BY <1>2, <3>2, <4>1 DEF Ids
      <4> QED
        BY <1>2, <4>2
    <3> QED
      BY <3>1, <3>2
  <2> QED
    BY <1>1, <1>9, <2>2, <2>3, <2>4 DEF PassPrints
<1>10. ASSUME NEW e \in Events, job[r].at \in PassStages,
              rows' = [rows EXCEPT ![job[r].id].event = e]
       PROVE  job[r] \in PassType /\ rows' \in Seq(RowType)
  <2>1. job[r] \in PassType
    BY <1>2, <1>10 DEF JobInv
  <2>2. CASE job[r].id \in Ids
    BY <1>3, <1>10, <2>1, <2>2
  <2>3. CASE job[r].id \notin Ids
    <3>1. rows' = rows
      BY <1>2, <1>10, <2>3 DEF Ids
    <3> QED
      BY <1>2, <2>1, <3>1
  <2> QED
    BY <2>1, <2>2, <2>3
<1>11. CASE PassMarks(r)
  <2> DEFINE j == [job[r] EXCEPT !.at = "pass", !.printed = @ + 1, !.id = None]
  <2>1. job[r] \in PassType /\ rows' \in Seq(RowType)
    BY <1>10, <1>11 DEF PassMarks, PassStages, Events
  <2>2. j \in PassType
    <3>1. job[r].printed + 1 \in Nat
      BY <2>1 DEF PassType
    <3> QED
      BY <2>1, <3>1 DEF PassType, PassStages, None
  <2>3. job' = [job EXCEPT ![r] = j]
    BY <1>11 DEF PassMarks, TypeInv
  <2> QED
    BY <1>1, <1>11, <2>1, <2>2, <2>3 DEF PassMarks
<1>12. CASE PassFails(r)
  <2> DEFINE j == [job[r] EXCEPT !.at = "pass", !.id = None]
  <2>1. job[r] \in PassType /\ rows' \in Seq(RowType)
    BY <1>10, <1>12 DEF PassFails, PassStages, Events
  <2>2. j \in PassType
    BY <2>1 DEF PassType, PassStages, None
  <2>3. job' = [job EXCEPT ![r] = j]
    BY <1>12 DEF PassFails, TypeInv
  <2> QED
    BY <1>1, <1>12, <2>1, <2>2, <2>3 DEF PassFails
<1>13. CASE EndPass(r)
  BY <1>1, <1>2, <1>5, <1>13 DEF EndPass
<1>14. CASE PassBreaks(r)
  BY <1>1, <1>2, <1>5, <1>14 DEF PassBreaks
<1> QED
  BY <1>6, <1>7, <1>8, <1>9, <1>11, <1>12, <1>13, <1>14 DEF Pass

\* Every step.
LEMMA TypeStep == TypeInv /\ [Next]_vars => TypeInv'
<1> SUFFICES ASSUME TypeInv, [Next]_vars PROVE TypeInv'
  OBVIOUS
<1>1. rows \in Seq(RowType) /\ pos \in Prices
  BY DEF TypeInv
<1>2. ASSUME job' = job, rows' \in Seq(RowType), pos' \in Prices,
             request'.at = "fetched" => request'.key \in Keys /\ request'.price \in Int,
             request'.at = "edit" => Writable(request'.write),
             switches' \in [Kinds -> BOOLEAN]
      PROVE  TypeInv'
  BY <1>2 DEF TypeInv, JobInv
<1>3. ASSUME NEW r \in Refreshers, BeginLoad(r) \/ Load(r) \/ LoadFails(r) PROVE TypeInv'
  BY <1>3, LoadTypes
<1>4. ASSUME NEW r \in Refreshers, Pass(r) \/ PassFails(r) \/ PassBreaks(r) PROVE TypeInv'
  BY <1>4, PassTypes
<1>5. ASSUME NEW k \in Keys, ScanFetch(k) PROVE TypeInv'
  <2>1. request'.at = "fetched" /\ request'.key = k /\ request'.price = pos[k] /\ pos[k] \in Int
    BY <1>1, <1>5 DEF ScanFetch, Prices
  <2> QED
    BY <1>2, <1>5, <2>1, <1>1 DEF ScanFetch, TypeInv
<1>6. ASSUME NEW k \in Keys, PosChanges(k) PROVE TypeInv'
  <2>1. PICK p \in ({Absent} \cup 0..MaxPrice) : pos' = [pos EXCEPT ![k] = p]
    BY <1>6 DEF PosChanges
  <2>2. pos' \in Prices
    BY <1>1, <2>1, CatalogAssumption DEF Prices, Absent
  <2> QED
    BY <1>1, <1>2, <1>6, <2>2 DEF PosChanges, TypeInv
<1>7. CASE ScanStore
  <2>1. PICK o, n : rows' = Written(Upsert(request.key, o, n, request.price, "none"))
    BY <1>7 DEF ScanStore
  <2>2. Writable(Upsert(request.key, o, n, request.price, "none"))
    BY <1>7 DEF ScanStore, TypeInv, Writable, Upsert, RowKinds
  <2>3. rows' \in Seq(RowType)
    BY <1>1, <2>1, <2>2, WrittenRows DEF Committed
  <2> QED
    BY <1>1, <1>2, <1>7, <2>3 DEF ScanStore, TypeInv, Idle
<1>8. CASE ScanFails
  BY <1>1, <1>2, <1>8 DEF ScanFails, TypeInv, Idle
<1>9. ASSUME NEW kind \in Kinds, FlipSwitch(kind) PROVE TypeInv'
  <2>1. switches' \in [Kinds -> BOOLEAN]
    BY <1>9 DEF FlipSwitch, TypeInv
  <2> QED
    BY <1>1, <1>2, <1>9, <2>1 DEF FlipSwitch, TypeInv
<1>10. ASSUME NEW i \in Ids, StaffPrints(i) PROVE TypeInv'
  <2>1. rows' \in Seq(RowType)
    BY <1>1, <1>10, SetStaffLabel DEF StaffPrints, Ids
  <2> QED
    BY <1>1, <1>2, <1>10, <2>1 DEF StaffPrints, TypeInv
<1>11. CASE Crash
  <2>1. job' = [r \in Refreshers |-> job'[r]] /\ \A r \in Refreshers : job'[r].at = "idle"
    BY <1>11 DEF Crash, Idle
  <2>2. \A r \in Refreshers : JobInv(r)'
    BY <2>1 DEF JobInv, PassStages
  <2> QED
    BY <1>1, <1>11, <2>1, <2>2 DEF Crash, TypeInv, Idle
<1>12. CASE vars' = vars
  BY <1>1, <1>2, <1>12 DEF vars, bounds, TypeInv
<1>13. ASSUME NEW k \in Keys, NEW p \in HandPrices, EditRead(k, p) PROVE TypeInv'
  <2>1. PICK o, n : request' = [at |-> "edit", write |-> Upsert(k, o, n, p, "none")]
    BY <1>13 DEF EditRead
  <2>2. Writable(Upsert(k, o, n, p, "none"))
    BY CatalogAssumption DEF Writable, Upsert, RowKinds
  <2>3. request'.at = "edit" /\ Writable(request'.write)
    BY <2>1, <2>2
  <2> QED
    BY <1>1, <1>2, <1>13, <2>3 DEF EditRead, TypeInv
<1>14. CASE EditCommit
  <2>1. rows' = Edited(request.write) /\ Writable(request.write)
    BY <1>14 DEF EditCommit, TypeInv
  <2>2. rows' \in Seq(RowType)
    BY <1>1, <2>1, EditedRows DEF Committed
  <2> QED
    BY <1>1, <1>2, <1>14, <2>2 DEF EditCommit, TypeInv, Idle
<1> QED
  BY <1>3, <1>4, <1>5, <1>6, <1>7, <1>8, <1>9, <1>10, <1>11, <1>12, <1>13, <1>14 DEF Next

-----------------------------------------------------------------------------
(* Outside the pass.                                                        *)

\* A step that is not of a pass is like a commit, for the rows.
Quiet == Committed(rows')

\* A step that lets the rows be is quiet, and so is a commit.
LEMMA QuietSteps ==
    ASSUME TypeInv
    PROVE  /\ rows' = rows => Quiet
           /\ \A w : Writable(w) /\ (rows' = Written(w) \/ rows' = Edited(w)) => Quiet
           /\ \A i \in Ids : StaffPrints(i) => Quiet
<1>1. rows \in Seq(RowType)
  BY DEF TypeInv
<1>2. rows' = rows => Quiet
  BY <1>1, SameRows DEF Quiet
<1>3. ASSUME NEW w, Writable(w), rows' = Written(w) \/ rows' = Edited(w) PROVE Quiet
  BY <1>1, <1>3, WrittenRows, EditedRows DEF Quiet
<1>4. ASSUME NEW i \in Ids, StaffPrints(i) PROVE Quiet
  BY <1>1, <1>4, SetStaffLabel DEF Quiet, Committed, Ids, StaffPrints
<1> QED
  BY <1>2, <1>3, <1>4

\* Steps of loads, scans, the point of sale and staff.
Outside ==
    \/ \E r \in Refreshers : BeginLoad(r) \/ Load(r) \/ LoadFails(r)
    \/ \E k \in Keys : ScanFetch(k) \/ PosChanges(k)
    \/ ScanStore \/ ScanFails
    \/ \E kind \in Kinds : FlipSwitch(kind)
    \/ \E i \in Ids : StaffPrints(i)
    \/ \E k \in Keys, p \in HandPrices : EditRead(k, p)
    \/ EditCommit
    \/ vars' = vars

\* They are quiet, and leave every pass and its lock alone.
LEMMA OutsideIsQuiet ==
    ASSUME TypeInv, Outside
    PROVE  /\ Quiet
           /\ passLock' = passLock /\ lost' = lost
           /\ \A r \in Refreshers :
                job[r].at \in PassStages \/ job'[r].at \in PassStages => job'[r] = job[r]
<1>1. job = [r \in Refreshers |-> job[r]] /\ \A r \in Refreshers : JobInv(r)
  BY DEF TypeInv
<1>2. ASSUME NEW r \in Refreshers, BeginLoad(r) \/ Load(r) \/ LoadFails(r)
      PROVE  /\ Quiet
             /\ passLock' = passLock /\ lost' = lost
             /\ \A q \in Refreshers : q # r => job'[q] = job[q]
             /\ job[r].at \notin PassStages /\ job'[r].at \notin PassStages
  <2>1. CASE BeginLoad(r)
    BY <1>1, <2>1, QuietSteps DEF BeginLoad, Idle, PassStages
  <2>2. CASE ReadFeed(r)
    BY <1>1, <2>2, QuietSteps DEF ReadFeed, PassStages
  <2>3. ASSUME NEW k \in Keys, LoadRecord(r, k)
        PROVE  /\ rows' = rows /\ passLock' = passLock /\ lost' = lost
               /\ \A q \in Refreshers : q # r => job'[q] = job[q]
               /\ job[r].at \notin PassStages /\ job'[r].at \notin PassStages
    BY <1>1, <2>3 DEF LoadRecord, PassStages
  <2>4. CASE LoadCommit(r)
    <3>1. Writable(job[r].write)
      BY <1>1, <2>4 DEF LoadCommit, JobInv
    <3> QED
      BY <1>1, <2>4, <3>1, QuietSteps DEF LoadCommit, PassStages
  <2>5. CASE EndLoad(r) \/ LoadFails(r)
    BY <1>1, <2>5, QuietSteps DEF EndLoad, LoadFails, Idle, PassStages
  <2> QED
    BY <1>2, <2>1, <2>2, <2>3, <2>4, <2>5, QuietSteps DEF Load
<1>3. CASE ScanStore
  <2>1. PICK o, n : rows' = Written(Upsert(request.key, o, n, request.price, "none"))
    BY <1>3 DEF ScanStore
  <2>2. Writable(Upsert(request.key, o, n, request.price, "none"))
    BY <1>3 DEF ScanStore, TypeInv, Writable, Upsert, RowKinds
  <2>3. Quiet
    BY <2>1, <2>2, QuietSteps
  <2> QED
    BY <1>3, <2>3 DEF ScanStore
<1>4. ASSUME NEW i \in Ids, StaffPrints(i)
      PROVE  Quiet /\ passLock' = passLock /\ lost' = lost /\ job' = job
  BY <1>4, QuietSteps DEF StaffPrints
<1>5. ASSUME \/ \E k \in Keys : ScanFetch(k) \/ PosChanges(k)
             \/ ScanFails
             \/ \E kind \in Kinds : FlipSwitch(kind)
             \/ \E k \in Keys, p \in HandPrices : EditRead(k, p)
             \/ vars' = vars
      PROVE  rows' = rows /\ passLock' = passLock /\ lost' = lost /\ job' = job
  BY <1>5 DEF ScanFetch, PosChanges, ScanFails, FlipSwitch, EditRead, vars
<1>6. CASE EditCommit
  <2>1. rows' = Edited(request.write) /\ Writable(request.write)
    BY <1>6 DEF EditCommit, TypeInv
  <2>2. Quiet
    BY <2>1, QuietSteps
  <2> QED
    BY <1>6, <2>2 DEF EditCommit
<1> QED
  BY <1>2, <1>3, <1>4, <1>5, <1>6, QuietSteps DEF Outside

-----------------------------------------------------------------------------
(* The price log.                                                           *)

\* A pass writes events and labels, never a price.
LEMMA PassKeepsPrices ==
    ASSUME TypeInv, LoggedPriceIsCurrent, NEW r \in Refreshers,
           Pass(r) \/ PassFails(r) \/ PassBreaks(r)
    PROVE  LoggedPriceIsCurrent'
<1>1. rows \in Seq(RowType)
  BY DEF TypeInv
<1>2. ASSUME rows' = rows PROVE LoggedPriceIsCurrent'
  BY <1>2 DEF LoggedPriceIsCurrent, Ids
<1>3. ASSUME NEW i, NEW e \in Events, rows' = [rows EXCEPT ![i].event = e]
      PROVE  LoggedPriceIsCurrent'
  <2>1. CASE i \in Ids
    BY <1>1, <1>3, <2>1, SetEvent DEF LoggedPriceIsCurrent, Logged, Ids
  <2>2. CASE i \notin Ids
    <3>1. rows' = rows
      BY <1>1, <1>3, <2>2 DEF Ids
    <3> QED
      BY <1>2, <3>1
  <2> QED
    BY <2>1, <2>2
<1>4. CASE PassPrints(r)
  <2>1. rows' = [rows EXCEPT ![job[r].id].labels = @ + 1]
    BY <1>4 DEF PassPrints
  <2>2. CASE job[r].id \in Ids
    BY <1>1, <2>1, <2>2, AddLabel DEF LoggedPriceIsCurrent, Logged, Ids
  <2>3. CASE job[r].id \notin Ids
    <3>1. rows' = rows
      BY <1>1, <2>1, <2>3 DEF Ids
    <3> QED
      BY <1>2, <3>1
  <2> QED
    BY <2>2, <2>3
<1>5. CASE BeginPass(r) \/ EndPass(r) \/ PassBreaks(r) \/ \E i \in Ids : PassWaits(r, i)
  BY <1>2, <1>5 DEF BeginPass, EndPass, PassBreaks, PassWaits
<1>6. ASSUME NEW i \in Ids, PassCloses(r, i) PROVE LoggedPriceIsCurrent'
  <2>1. PICK e \in {"switched_off", "too_old", "already_printed"} :
          rows' = [rows EXCEPT ![i].event = e]
    BY <1>6 DEF PassCloses
  <2> QED
    BY <1>3, <2>1 DEF Events
<1>7. ASSUME NEW i \in Ids, PassClaims(r, i) PROVE LoggedPriceIsCurrent'
  BY <1>3, <1>7 DEF PassClaims, Events
<1>8. CASE PassMarks(r) \/ PassFails(r)
  BY <1>3, <1>8 DEF PassMarks, PassFails, Events
<1> QED
  BY <1>4, <1>5, <1>6, <1>7, <1>8 DEF Pass

LEMMA LogStep == TypeInv /\ LoggedPriceIsCurrent /\ [Next]_vars => LoggedPriceIsCurrent'
<1> SUFFICES ASSUME TypeInv, LoggedPriceIsCurrent, [Next]_vars PROVE LoggedPriceIsCurrent'
  OBVIOUS
<1>1. CASE Outside
  BY <1>1, OutsideIsQuiet DEF Quiet, Committed, LoggedPriceIsCurrent, Logged, Ids
<1>2. ASSUME NEW r \in Refreshers, Pass(r) \/ PassFails(r) \/ PassBreaks(r) PROVE LoggedPriceIsCurrent'
  BY <1>2, PassKeepsPrices
<1>3. CASE Crash
  BY <1>3 DEF Crash, LoggedPriceIsCurrent, Ids
<1> QED
  BY <1>1, <1>2, <1>3 DEF Next, Outside

\* The price on file is the newest one in the price log unless it was set by
\* hand since (LoggedPriceIsCurrent): no overlap of loads, scans and hand edits,
\* no failure and no crash parts the two otherwise.
THEOREM PriceLogIsComplete == Spec => [](TypeInv /\ LoggedPriceIsCurrent)
<1>1. Init => LoggedPriceIsCurrent
  BY DEF Init, LoggedPriceIsCurrent, Ids
<1> QED
  BY <1>1, TypeStart, TypeStep, LogStep, PTL DEF Spec

-----------------------------------------------------------------------------
(* The labels.                                                              *)

\* A refresher in a pass holds the pass lock; the events it has still to look
\* at are open; and the one in its hand is claimed, with a label once it is
\* queued.
PassInv(r) ==
    job[r].at \in PassStages =>
        /\ passLock = r
        /\ \A i \in job[r].todo : i \in Ids /\ rows[i].event = "open"
        /\ job[r].at \in {"claimed", "queued"} =>
             /\ job[r].id \in Ids /\ job[r].id \notin job[r].todo
             /\ rows[job[r].id].event = "claimed"
             /\ rows[job[r].id].labels = (IF job[r].at = "queued" THEN 1 ELSE 0)

LabelInv == EventsAndLabelsAgree /\ \A r \in Refreshers : PassInv(r)

\* What happens outside the pass does not disturb it.
LEMMA LabelOutside ==
    ASSUME TypeInv, LabelInv, Outside
    PROVE  LabelInv'
<1>1. /\ Quiet
      /\ passLock' = passLock /\ lost' = lost
      /\ \A r \in Refreshers :
           job[r].at \in PassStages \/ job'[r].at \in PassStages => job'[r] = job[r]
  BY OutsideIsQuiet
<1>2. \A r \in Refreshers : PassInv(r)'
  <2> SUFFICES ASSUME NEW r \in Refreshers, job'[r].at \in PassStages PROVE PassInv(r)'
    BY DEF PassInv
  <2>1. job'[r] = job[r] /\ PassInv(r)
    BY <1>1 DEF LabelInv
  <2> QED
    BY <1>1, <2>1 DEF PassInv, Quiet, Committed, Ids
<1>3. \A r \in Refreshers : job[r].at \in {"claimed", "queued"} => job'[r] = job[r]
  BY <1>1 DEF PassStages
<1>4. EventsAndLabelsAgree'
  <2> SUFFICES ASSUME NEW i \in Ids' PROVE
        /\ rows'[i].labels <= 1
        /\ rows'[i].labels = 1 => rows'[i].event \in {"claimed", "printed"}
        /\ rows'[i].event = "printed" => rows'[i].labels = 1
        /\ rows'[i].event = "claimed" =>
             i \in lost' \/ \E r \in Refreshers : job'[r].at \in {"claimed", "queued"} /\ job'[r].id = i
    BY DEF EventsAndLabelsAgree
  <2>1. CASE i \in Ids
    <3>1. rows'[i].event = rows[i].event /\ rows'[i].labels = rows[i].labels
      BY <1>1, <2>1 DEF Quiet, Committed, Ids
    <3>2. /\ rows[i].labels <= 1
          /\ rows[i].labels = 1 => rows[i].event \in {"claimed", "printed"}
          /\ rows[i].event = "printed" => rows[i].labels = 1
          /\ rows[i].event = "claimed" =>
               i \in lost \/ \E r \in Refreshers : job[r].at \in {"claimed", "queued"} /\ job[r].id = i
      BY <2>1 DEF LabelInv, EventsAndLabelsAgree
    <3> QED
      BY <1>1, <1>3, <3>1, <3>2
  <2>2. CASE i \notin Ids
    BY <1>1, <2>2 DEF Quiet, Committed, Ids
  <2> QED
    BY <2>1, <2>2
<1> QED
  BY <1>2, <1>4 DEF LabelInv

\* A step of one pass that changes at most row i: it is enough to look at that
\* row and at that pass, for no other refresher is in a pass.
LEMMA OnePass ==
    ASSUME TypeInv, LabelInv, NEW r \in Refreshers, NEW i \in Ids,
           \A q \in Refreshers : q # r => job'[q] = job[q],
           Ids' = Ids, \A k \in Ids : k # i => rows'[k] = rows[k],
           lost' = lost,
           \A q \in Refreshers : q # r => job[q].at \notin PassStages,
           PassInv(r)',
           job[r].at \in {"claimed", "queued"} => job[r].id = i,
           /\ rows'[i].labels <= 1
           /\ rows'[i].labels = 1 => rows'[i].event \in {"claimed", "printed"}
           /\ rows'[i].event = "printed" => rows'[i].labels = 1
           /\ rows'[i].event = "claimed" =>
                \/ i \in lost'
                \/ job'[r].at \in {"claimed", "queued"} /\ job'[r].id = i
    PROVE  LabelInv'
<1>1. \A q \in Refreshers : PassInv(q)'
  BY DEF PassInv
<1>2. ASSUME NEW k \in Ids
      PROVE  /\ rows'[k].labels <= 1
             /\ rows'[k].labels = 1 => rows'[k].event \in {"claimed", "printed"}
             /\ rows'[k].event = "printed" => rows'[k].labels = 1
             /\ rows'[k].event = "claimed" =>
                  k \in lost' \/ \E q \in Refreshers : job'[q].at \in {"claimed", "queued"} /\ job'[q].id = k
  <2>1. CASE k = i
    BY <2>1
  <2>2. CASE k # i
    <3>1. /\ rows[k].labels <= 1
          /\ rows[k].labels = 1 => rows[k].event \in {"claimed", "printed"}
          /\ rows[k].event = "printed" => rows[k].labels = 1
          /\ rows[k].event = "claimed" =>
               k \in lost \/ \E q \in Refreshers : job[q].at \in {"claimed", "queued"} /\ job[q].id = k
      BY <1>2 DEF LabelInv, EventsAndLabelsAgree
    <3>2. \A q \in Refreshers : job[q].at \in {"claimed", "queued"} /\ job[q].id = k => q # r
      BY <2>2
    <3> QED
      BY <2>2, <3>1, <3>2
  <2> QED
    BY <2>1, <2>2
<1> QED
  BY <1>1, <1>2 DEF LabelInv, EventsAndLabelsAgree

\* The pass lock keeps everybody else out.
LEMMA OthersOut ==
    ASSUME LabelInv, NEW r \in Refreshers, job[r].at \in PassStages
    PROVE  /\ PassInv(r) /\ passLock = r
           /\ \A q \in Refreshers : q # r => job[q].at \notin PassStages
BY DEF LabelInv, PassInv

\* A pass: begin and end, and its steps over one event.
LEMMA LabelPass ==
    ASSUME TypeInv, LabelInv, NEW r \in Refreshers, Pass(r) \/ PassFails(r) \/ PassBreaks(r)
    PROVE  LabelInv'
<1>1. /\ rows \in Seq(RowType) /\ job = [q \in Refreshers |-> job[q]]
      /\ job[r].at \in PassStages => job[r] \in PassType
  BY DEF TypeInv, JobInv
<1>2. ASSUME NEW j, job' = [job EXCEPT ![r] = j], rows' = rows, lost' = lost,
             j.at \notin {"claimed", "queued"}, job[r].at \notin {"claimed", "queued"},
             j.at \in PassStages =>
               passLock' = r /\ \A i \in j.todo : i \in Ids /\ rows[i].event = "open",
             \A q \in Refreshers : q # r => PassInv(q)'
      PROVE  LabelInv'
  <2>1. job'[r] = j /\ \A q \in Refreshers : q # r => job'[q] = job[q]
    BY <1>1, <1>2
  <2>2. PassInv(r)'
    BY <1>2, <2>1 DEF PassInv, Ids
  <2>3. \A q \in Refreshers : job[q].at \in {"claimed", "queued"} => job'[q] = job[q]
    BY <1>2, <2>1
  <2>4. EventsAndLabelsAgree'
    BY <1>2, <2>3 DEF LabelInv, EventsAndLabelsAgree, Ids
  <2> QED
    BY <1>2, <2>2, <2>4 DEF LabelInv
<1>3. CASE BeginPass(r)
  <2>1. job[r].at = "loaded" /\ rows' = rows /\ lost' = lost
    BY <1>3 DEF BeginPass
  <2>2. CASE passLock = Nobody
    <3> DEFINE j == [at |-> "pass", allowed |-> switches, printed |-> 0, id |-> None,
                     todo |-> {i \in Ids : rows[i].event = "open"}]
    <3>1. job' = [job EXCEPT ![r] = j] /\ passLock' = r
      BY <1>3, <2>2 DEF BeginPass
    <3>2. \A q \in Refreshers : job[q].at \notin PassStages
      BY <2>2, CatalogAssumption DEF LabelInv, PassInv
    <3>3. \A q \in Refreshers : q # r => job'[q].at \notin PassStages
      BY <1>1, <3>1, <3>2
    <3>4. \A q \in Refreshers : q # r => PassInv(q)'
      BY <3>3 DEF PassInv
    <3>5. j.at = "pass" /\ \A i \in j.todo : i \in Ids /\ rows[i].event = "open"
      OBVIOUS
    <3> HIDE DEF j
    <3> QED
      BY <1>2, <2>1, <3>1, <3>4, <3>5
  <2>3. CASE passLock # Nobody
    <3>1. job' = [job EXCEPT ![r] = Idle] /\ passLock' = passLock /\ Idle.at = "idle"
      BY <1>3, <2>3 DEF BeginPass, Idle
    <3>2. \A q \in Refreshers : q # r => job'[q] = job[q]
      BY <1>1, <3>1
    <3>3. \A q \in Refreshers : q # r => PassInv(q)'
      BY <2>1, <3>1, <3>2 DEF LabelInv, PassInv, Ids
    <3> QED
      BY <1>2, <2>1, <3>1, <3>3 DEF PassStages
  <2> QED
    BY <2>2, <2>3
<1>4. CASE EndPass(r)
  <2>1. job[r].at = "pass" /\ rows' = rows /\ lost' = lost /\ job' = [job EXCEPT ![r] = Idle]
    BY <1>4 DEF EndPass
  <2>2. \A q \in Refreshers : q # r => job[q].at \notin PassStages
    BY <2>1, OthersOut DEF PassStages
  <2>3. \A q \in Refreshers : q # r => PassInv(q)'
    BY <1>1, <2>1, <2>2 DEF PassInv
  <2> QED
    BY <1>2, <2>1, <2>3 DEF Idle, PassStages
<1>5. ASSUME job[r].at \in PassStages, NEW j, job' = [job EXCEPT ![r] = j]
      PROVE  /\ PassInv(r) /\ passLock = r
             /\ job'[r] = j
             /\ \A q \in Refreshers : q # r => job'[q] = job[q] /\ job[q].at \notin PassStages
  BY <1>1, <1>5, OthersOut
<1>6. ASSUME NEW i \in Ids, PassCloses(r, i) PROVE LabelInv'
  <2> DEFINE j == [job[r] EXCEPT !.todo = @ \ {i}]
  <2>1. PICK e \in {"switched_off", "too_old", "already_printed"} :
          rows' = [rows EXCEPT ![i].event = e]
    BY <1>6 DEF PassCloses
  <2>2. /\ job[r].at = "pass" /\ i \in job[r].todo
        /\ job' = [job EXCEPT ![r] = j] /\ passLock' = passLock /\ lost' = lost
    BY <1>1, <1>6 DEF PassCloses, Looking
  <2>3. j.at = "pass" /\ j.todo = job[r].todo \ {i}
    BY <1>1, <2>2 DEF PassStages, PassType
  <2> HIDE DEF j
  <2>4. /\ PassInv(r) /\ passLock = r /\ job'[r] = j
        /\ \A q \in Refreshers : q # r => job'[q] = job[q] /\ job[q].at \notin PassStages
    BY <1>5, <2>2 DEF PassStages
  <2>5. rows[i].event = "open" /\ rows[i].labels <= 1 /\ rows[i].labels # 1
    BY <2>2, <2>4 DEF PassInv, PassStages, LabelInv, EventsAndLabelsAgree
  <2>6. e \in Events
    BY DEF Events
  <2>7. /\ Ids' = Ids /\ \A k \in Ids : k # i => rows'[k] = rows[k]
        /\ rows'[i].event = e /\ rows'[i].labels = rows[i].labels
    BY <1>1, <2>1, <2>6, SetEvent DEF Ids
  <2>8. PassInv(r)'
    BY <2>2, <2>3, <2>4, <2>7 DEF PassInv, PassStages
  <2> QED
    BY <2>2, <2>4, <2>5, <2>7, <2>8, OnePass
<1>7. ASSUME NEW i \in Ids, PassWaits(r, i) PROVE LabelInv'
  <2> DEFINE j == [job[r] EXCEPT !.todo = @ \ {i}]
  <2>1. /\ job[r].at = "pass" /\ rows' = rows
        /\ job' = [job EXCEPT ![r] = j] /\ passLock' = passLock /\ lost' = lost
    BY <1>1, <1>7 DEF PassWaits, Looking
  <2>2. j.at = "pass" /\ j.todo = job[r].todo \ {i}
    BY <1>1, <2>1 DEF PassStages, PassType
  <2> HIDE DEF j
  <2>3. /\ PassInv(r) /\ passLock = r
        /\ \A q \in Refreshers : q # r => job'[q] = job[q] /\ job[q].at \notin PassStages
    BY <1>5, <2>1 DEF PassStages
  <2>4. \A q \in Refreshers : q # r => PassInv(q)'
    BY <2>3 DEF PassInv
  <2>5. passLock' = r /\ \A k \in j.todo : k \in Ids /\ rows[k].event = "open"
    BY <2>1, <2>2, <2>3 DEF PassInv, PassStages
  <2> QED
    BY <1>2, <2>1, <2>2, <2>4, <2>5
<1>8. ASSUME NEW i \in Ids, PassClaims(r, i) PROVE LabelInv'
  <2> DEFINE j == [job[r] EXCEPT !.at = "claimed", !.id = i, !.todo = @ \ {i}]
  <2>1. /\ job[r].at = "pass" /\ rows[i].event = "open" /\ rows' = [rows EXCEPT ![i].event = "claimed"]
        /\ job' = [job EXCEPT ![r] = j] /\ passLock' = passLock /\ lost' = lost
    BY <1>1, <1>8 DEF PassClaims, Looking
  <2>2. j.at = "claimed" /\ j.id = i /\ j.todo = job[r].todo \ {i}
    BY <1>1, <2>1 DEF PassStages, PassType
  <2> HIDE DEF j
  <2>3. /\ PassInv(r) /\ passLock = r /\ job'[r] = j
        /\ \A q \in Refreshers : q # r => job'[q] = job[q] /\ job[q].at \notin PassStages
    BY <1>5, <2>1 DEF PassStages
  <2>4. rows[i].labels = 0
    <3>1. rows[i] \in RowType
      BY <1>1 DEF Ids
    <3>2. rows[i].labels \in Nat
      BY <3>1 DEF RowType
    <3>3. rows[i].labels <= 1 /\ rows[i].labels # 1
      BY <2>1 DEF LabelInv, EventsAndLabelsAgree
    <3> QED
      BY <3>2, <3>3
  <2>5. /\ Ids' = Ids /\ \A k \in Ids : k # i => rows'[k] = rows[k]
        /\ rows'[i].event = "claimed" /\ rows'[i].labels = 0
    <3>1. rows \in Seq(RowType) /\ i \in DOMAIN rows /\ "claimed" \in Events
      BY <1>1 DEF Ids, Events
    <3>2. /\ DOMAIN rows' = DOMAIN rows /\ \A k \in DOMAIN rows : k # i => rows'[k] = rows[k]
          /\ rows'[i].event = "claimed" /\ rows'[i].labels = rows[i].labels
      BY <2>1, <3>1, SetEvent
    <3> QED
      BY <2>4, <3>2 DEF Ids
  <2>6. PassInv(r)'
    BY <2>1, <2>2, <2>3, <2>5 DEF PassInv, PassStages
  <2> QED
    BY <2>1, <2>2, <2>3, <2>5, <2>6, OnePass
<1>9. CASE PassPrints(r)
  <2> DEFINE i == job[r].id
             j == [job[r] EXCEPT !.at = "queued"]
  <2>1. /\ job[r].at = "claimed" /\ rows' = [rows EXCEPT ![i].labels = @ + 1]
        /\ job' = [job EXCEPT ![r] = j] /\ passLock' = passLock /\ lost' = lost
    BY <1>1, <1>9 DEF PassPrints
  <2>2. j.at = "queued" /\ j.id = i /\ j.todo = job[r].todo
    BY <1>1, <2>1 DEF PassStages, PassType
  <2> HIDE DEF j
  <2>3. /\ PassInv(r) /\ passLock = r /\ job'[r] = j
        /\ \A q \in Refreshers : q # r => job'[q] = job[q] /\ job[q].at \notin PassStages
    BY <1>5, <2>1 DEF PassStages
  <2>4. i \in Ids /\ i \notin job[r].todo /\ rows[i].event = "claimed" /\ rows[i].labels = 0
    BY <2>1, <2>3 DEF PassInv, PassStages
  <2>5. /\ Ids' = Ids /\ \A k \in Ids : k # i => rows'[k] = rows[k]
        /\ rows'[i].event = "claimed" /\ rows'[i].labels = 1
    <3>1. rows \in Seq(RowType) /\ i \in DOMAIN rows
      BY <1>1, <2>4 DEF Ids
    <3> HIDE DEF i
    <3>2. /\ DOMAIN rows' = DOMAIN rows /\ \A k \in DOMAIN rows : k # i => rows'[k] = rows[k]
          /\ rows'[i].event = rows[i].event /\ rows'[i].labels = rows[i].labels + 1
      BY <2>1, <3>1, AddLabel
    <3> QED
      BY <2>4, <3>2 DEF Ids
  <2>6. PassInv(r)'
    BY <2>1, <2>2, <2>3, <2>4, <2>5 DEF PassInv, PassStages
  <2> QED
    BY <2>1, <2>2, <2>3, <2>4, <2>5, <2>6, OnePass
<1>10. ASSUME NEW e \in {"open", "printed"}, NEW n,
              rows' = [rows EXCEPT ![job[r].id].event = e],
              job[r].at = (IF e = "open" THEN "claimed" ELSE "queued"),
              job' = [job EXCEPT ![r] = [job[r] EXCEPT !.at = "pass", !.printed = n, !.id = None]],
              passLock' = passLock, lost' = lost
       PROVE  LabelInv'
  <2> DEFINE i == job[r].id
             j == [job[r] EXCEPT !.at = "pass", !.printed = n, !.id = None]
  <2>1. job[r].at \in {"claimed", "queued"} /\ job[r].at \in PassStages /\ e \in Events
    BY <1>10 DEF PassStages, Events
  <2>2. j.at = "pass" /\ j.todo = job[r].todo
    BY <1>1, <2>1 DEF PassType
  <2>3. /\ PassInv(r) /\ passLock = r /\ job'[r] = j
        /\ \A q \in Refreshers : q # r => job'[q] = job[q] /\ job[q].at \notin PassStages
    BY <1>5, <1>10, <2>1
  <2> HIDE DEF j
  <2>4. /\ i \in Ids /\ i \notin job[r].todo
        /\ rows[i].labels = (IF e = "open" THEN 0 ELSE 1)
    BY <1>10, <2>1, <2>3 DEF PassInv
  <2>5. /\ Ids' = Ids /\ \A k \in Ids : k # i => rows'[k] = rows[k]
        /\ rows'[i].event = e /\ rows'[i].labels = (IF e = "open" THEN 0 ELSE 1)
    BY <1>1, <1>10, <2>1, <2>4, SetEvent DEF Ids
  <2>6. PassInv(r)'
    BY <1>10, <2>1, <2>2, <2>3, <2>4, <2>5 DEF PassInv, PassStages
  <2> QED
    BY <1>10, <2>3, <2>4, <2>5, <2>6, OnePass
<1>11. CASE PassMarks(r)
  <2>1. job' = [job EXCEPT ![r] = [job[r] EXCEPT !.at = "pass", !.printed = job[r].printed + 1, !.id = None]]
    BY <1>1, <1>11 DEF PassMarks
  <2> QED
    BY <1>10, <1>11, <2>1 DEF PassMarks
<1>12. CASE PassFails(r)
  <2>1. job[r] \in PassType
    BY <1>1, <1>12 DEF PassFails, PassStages
  <2>2. [job[r] EXCEPT !.at = "pass", !.printed = job[r].printed, !.id = None]
          = [job[r] EXCEPT !.at = "pass", !.id = None]
    BY <2>1 DEF PassType
  <2>3. job' = [job EXCEPT ![r] = [job[r] EXCEPT !.at = "pass", !.id = None]]
    BY <1>1, <1>12 DEF PassFails
  <2> QED
    BY <1>10, <1>12, <2>2, <2>3 DEF PassFails
<1>13. CASE PassBreaks(r)
  <2>1. /\ job[r].at \in PassStages /\ rows' = rows /\ job' = [job EXCEPT ![r] = Idle]
        /\ lost' = lost \cup ({job[r].id} \ {None})
    BY <1>13 DEF PassBreaks
  <2>2. /\ PassInv(r) /\ job'[r] = Idle
        /\ \A q \in Refreshers : q # r => job'[q] = job[q] /\ job[q].at \notin PassStages
    BY <1>5, <2>1
  <2>3. \A q \in Refreshers : PassInv(q)'
    BY <2>2 DEF PassInv, Idle, PassStages
  <2>4. ASSUME NEW i \in Ids, rows[i].event = "claimed" PROVE i \in lost'
    <3>1. None \notin Ids
      BY <1>1 DEF Ids, None
    <3>2. i \in lost \/ \E q \in Refreshers : job[q].at \in {"claimed", "queued"} /\ job[q].id = i
      BY <2>4 DEF LabelInv, EventsAndLabelsAgree
    <3>3. i \in lost \/ job[r].id = i
      BY <2>2, <3>2 DEF PassStages
    <3> QED
      BY <2>1, <3>1, <3>3
  <2>5. EventsAndLabelsAgree'
    BY <2>1, <2>4 DEF LabelInv, EventsAndLabelsAgree, Ids
  <2> QED
    BY <2>3, <2>5 DEF LabelInv
<1> QED
  BY <1>3, <1>4, <1>6, <1>7, <1>8, <1>9, <1>11, <1>12, <1>13 DEF Pass

\* A crash empties every hand; the claims it leaves are the lost ones.
LEMMA LabelCrash ==
    ASSUME TypeInv, LabelInv, Crash
    PROVE  LabelInv'
<1>1. \A r \in Refreshers : job'[r].at = "idle"
  BY DEF Crash, Idle
<1>2. \A r \in Refreshers : PassInv(r)'
  BY <1>1 DEF PassInv, PassStages
<1>3. rows' = rows /\ lost' = lost \cup {i \in Ids : rows[i].event = "claimed"}
  BY DEF Crash
<1>4. EventsAndLabelsAgree'
  BY <1>3 DEF LabelInv, EventsAndLabelsAgree, Ids
<1> QED
  BY <1>2, <1>4 DEF LabelInv

LEMMA LabelStep == TypeInv /\ LabelInv /\ [Next]_vars => LabelInv'
<1> SUFFICES ASSUME TypeInv, LabelInv, [Next]_vars PROVE LabelInv'
  OBVIOUS
<1>1. CASE Outside
  BY <1>1, LabelOutside
<1>2. ASSUME NEW r \in Refreshers, Pass(r) \/ PassFails(r) \/ PassBreaks(r) PROVE LabelInv'
  BY <1>2, LabelPass
<1>3. CASE Crash
  BY <1>3, LabelCrash
<1> QED
  BY <1>1, <1>2, <1>3 DEF Next, Outside

\* Labels and outcomes of the events agree (EventsAndLabelsAgree): a label at
\* most for each, none for those still open or closed without one, and a claim
\* is forgotten only by a pass that broke off or a crash.
THEOREM OneLabelPerEvent == Spec => []EventsAndLabelsAgree
<1>1. Init => LabelInv
  <2> SUFFICES ASSUME Init PROVE LabelInv
    OBVIOUS
  <2>1. EventsAndLabelsAgree
    BY DEF Init, EventsAndLabelsAgree, Ids
  <2>2. \A r \in Refreshers : job[r].at = "idle"
    BY DEF Init, Idle
  <2> QED
    BY <2>1, <2>2 DEF LabelInv, PassInv, PassStages
<1>2. LabelInv => EventsAndLabelsAgree
  BY DEF LabelInv
<1> QED
  BY <1>1, <1>2, TypeStart, TypeStep, LabelStep, PTL DEF Spec
=============================================================================
