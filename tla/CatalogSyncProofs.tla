------------------------- MODULE CatalogSyncProofs --------------------------
(***************************************************************************)
(* What the catalog sync keeps for any items, feeds, prices, edits, deaths *)
(* and races of its two writers: the three properties of CatalogSync.      *)
(***************************************************************************)
EXTENDS CatalogSync, SequenceTheorems, FiniteSetTheorems, TLAPS

\* The values of the fields, as opaque sets.
PriceTags == 0 .. MaxPrice
CatalogRows == [price : PriceTags, sale : BOOLEAN]
Catalogs == [Keys -> CatalogRows]
PriceOfKey == [Keys -> PriceTags]
Diffs == [key : Keys, old : PriceTags, new : PriceTags]
DiffSets == SUBSET Diffs
Sources == {"file", "toast_sync_file"}
LogRows == [key : Keys, old : PriceTags, new : PriceTags, source : Sources, week : Nat]
Commits == [csv : Catalogs, changes : DiffSets, before : Catalogs, commit : Nat \ {0}]
Disks == [csv : Catalogs, changes : DiffSets, before : Catalogs, commit : Nat,
          clean : BOOLEAN, whole : BOOLEAN]
CiRuns == [at : {"fetched"}, base : Commits, rows : Catalogs]
HandRuns == [at : {"fetched", "half"}, base : Disks, rows : Catalogs]

\* The types of all variables.
TypeInv ==
  /\ feed \in Feeds
  /\ head \in Commits
  /\ disk \in Disks
  /\ pull \in Commits \cup {NoPull}
  /\ ci \in CiRuns \cup {Idle}
  /\ byHand \in HandRuns \cup {Idle}
  /\ app \in [at : {"down", "loaded", "up"}, read : Catalogs]
  /\ db \in [price : PriceOfKey, log : Seq(LogRows)]
  /\ {feeds, edits, trouble, week} \subseteq Nat

\* A file of differences names an item once, with a price.
Proper(changes) ==
  /\ IsFiniteSet(changes)
  /\ \A d \in changes : d.new # Absent
  /\ \A d, e \in changes : d.key = e.key => d = e

\* It names every item that two catalogs have at different prices.
Covers(changes, csv, before) ==
  \A k \in Repriced(csv, before) : \E d \in changes : d.key = k /\ d.new = csv[k].price

\* The sales of a new catalog are those of the one it replaces.
SalesKept(new, old) == \A k \in Keys : new[k].price # Absent => new[k].sale = old[k].sale

\* The files of differences: each is proper and, when it is of one sync with
\* the catalog, covers what that sync changed.  While a file is still to be
\* written, the catalog is the old one.
FilesInv ==
  /\ Proper(head.changes) /\ Covers(head.changes, head.csv, head.before)
  /\ Proper(disk.changes)
  /\ disk.whole => Covers(disk.changes, disk.csv, disk.before)
  /\ ~disk.whole /\ pull = NoPull => disk.csv = disk.before
  /\ pull # NoPull => /\ Proper(pull.changes)
                      /\ Covers(pull.changes, pull.csv, pull.before)

\* The two writers: the workflow works on a commit that is the newest one or
\* will be refused; nobody else writes the app's files while the sync runs.
WritersInv ==
  /\ ci # Idle => /\ ci.base.commit <= head.commit
                  /\ ci.base.commit = head.commit => ci.base.csv = head.csv
                  /\ SalesKept(ci.rows, ci.base.csv)
  /\ byHand # Idle => /\ pull = NoPull
                      /\ ~byHand.base.whole => byHand.base.csv = byHand.base.before
  /\ byHand.at = "fetched" => disk = byHand.base
  /\ byHand.at = "half" =>
       /\ disk.changes = PriceDiffs(byHand.rows, byHand.base.csv)
       /\ disk.before = byHand.base.csv

\* From every row of a log on, its item's price moves on to the price on file.
Follows(log, price) ==
  \A i \in DOMAIN log : \E m \in i .. Len(log) :
    log[m].key = log[i].key /\ log[m].new = price[log[i].key]

\* ReportedOnce of a log.
Once(log) ==
  \A i, j \in DOMAIN log :
    i < j /\ log[i].key = log[j].key /\ log[i].new = log[j].new /\ log[i].week = log[j].week =>
      \E m \in i .. j : log[m].key = log[i].key /\ log[m].new # log[i].new

\* The log leads to the prices on file, which between the load and the import
\* are those of the catalog that was loaded.
LogInv ==
  /\ Once(db.log)
  /\ Follows(db.log, db.price)
  /\ \A i \in DOMAIN db.log : db.price[db.log[i].key] # Absent
  /\ app.at = "loaded" =>
       \A k \in Keys : app.read[k].price # Absent => db.price[k] = app.read[k].price

\* The inductive invariant.
IInv == TypeInv /\ FilesInv /\ WritersInv /\ LogInv

-----------------------------------------------------------------------------
(* Smallest and greatest elements, and the listing of a set. *)

\* A set of numbers that is not empty has a smallest one.
LEMMA Smallest ==
  ASSUME NEW S \in SUBSET Nat, S # {}
  PROVE  Min(S) \in S /\ \A x \in S : Min(S) <= x
<1> DEFINE below == {0 .. x : x \in S}
<1>1. below # {} /\ below \subseteq FiniteSubsetsOf(Nat)
  <2>1. \A x \in S : 0 .. x \in SUBSET Nat /\ IsFiniteSet(0 .. x)
    BY FS_Interval
  <2> QED
    BY <2>1 DEF FiniteSubsetsOf
<1>2. PICK X \in below : \A Y \in below : <<Y, X>> \notin StrictSubsetOrdering(Nat)
  BY <1>1, FS_StrictSubsetOrderingWellFounded, WFMin
<1>3. PICK x \in S : X = 0 .. x
  OBVIOUS
<1>4. ASSUME NEW y \in S PROVE x <= y
  <2> SUFFICES ASSUME y < x PROVE FALSE
    OBVIOUS
  <2>1. 0 .. y \in below /\ 0 .. y \in SUBSET Nat /\ 0 .. x \in SUBSET Nat
    OBVIOUS
  <2>2. 0 .. y \subseteq 0 .. x
    OBVIOUS
  <2>3. x \in 0 .. x /\ x \notin 0 .. y
    OBVIOUS
  <2> QED
    BY <1>2, <1>3, <2>1, <2>2, <2>3 DEF StrictSubsetOrdering
<1> QED
  BY <1>4 DEF Min

\* A bounded one has a greatest one.
LEMMA Greatest ==
  ASSUME NEW n \in Nat, NEW S \in SUBSET (1 .. n), S # {}
  PROVE  Max(S) \in S /\ \A x \in S : x <= Max(S)
<1> DEFINE T == {y \in 0 .. n : n - y \in S}
<1>1. T \in SUBSET Nat /\ T # {}
  <2>1. PICK x \in S : TRUE
    OBVIOUS
  <2>2. n - x \in 0 .. n /\ n - (n - x) = x
    OBVIOUS
  <2>3. n - x \in T
    BY <2>1, <2>2
  <2>4. T \subseteq Nat
    OBVIOUS
  <2> HIDE DEF T
  <2> QED
    BY <2>3, <2>4
<1>2. Min(T) \in T /\ \A y \in T : Min(T) <= y
  BY <1>1, Smallest
<1>3. PICK y \in 0 .. n : y = Min(T)
  BY <1>2
<1>4. n - y \in S
  BY <1>2, <1>3
<1>5. ASSUME NEW x \in S PROVE x <= n - y
  <2>1. x \in 0 .. n /\ n - x \in 0 .. n /\ n - (n - x) = x
    OBVIOUS
  <2>2. n - x \in T
    BY <2>1
  <2>3. y <= n - x
    BY <1>2, <1>3, <2>2
  <2> QED
    BY <2>1, <2>3
<1> QED
  BY <1>4, <1>5 DEF Max

\* SetToSeq lists every element of a finite set, and none twice.
LEMMA ListingOfSet ==
  ASSUME NEW B, IsFiniteSet(B)
  PROVE  /\ SetToSeq(B) \in Seq(B)
         /\ \A b \in B : \E i \in 1 .. Len(SetToSeq(B)) : SetToSeq(B)[i] = b
         /\ \A i, j \in 1 .. Len(SetToSeq(B)) : SetToSeq(B)[i] = SetToSeq(B)[j] => i = j
<1> DEFINE n == Cardinality(B)
<1>1. n \in Nat /\ ExistsBijection(1 .. n, B)
  BY FS_CardinalityType
<1>2. PICK g \in [1 .. n -> B] : IsInjective(g)
  BY <1>1 DEF ExistsBijection, Bijection, Injection
<1> DEFINE f == SetToSeq(B)
<1>3. f \in [1 .. n -> B] /\ IsInjective(f)
  BY <1>2 DEF SetToSeq
<1>4. f \in Seq(B) /\ Len(f) = n
  BY <1>1, <1>3
<1>5. \A b \in B : \E i \in 1 .. n : f[i] = b
  <2>1. f \in Injection(1 .. n, B) /\ IsFiniteSet(1 .. n) /\ Cardinality(1 .. n) = n
    BY <1>1, <1>3, FS_Interval DEF Injection
  <2>2. f \in Surjection(1 .. n, B)
    BY <2>1, FS_Injection
  <2> QED
    BY <2>2 DEF Surjection
<1> HIDE DEF f, n
<1>6. \A i, j \in 1 .. n : f[i] = f[j] => i = j
  BY <1>3 DEF IsInjective
<1> QED
  BY <1>4, <1>5, <1>6 DEF f
-----------------------------------------------------------------------------
(* Differences and the log. *)

\* What a run finds repriced is a proper file of differences, which covers it.
LEMMA DiffsAreProper ==
  ASSUME NEW rows \in Catalogs, NEW old \in Catalogs
  PROVE  /\ PriceDiffs(rows, old) \in DiffSets
         /\ Proper(PriceDiffs(rows, old))
         /\ Covers(PriceDiffs(rows, old), rows, old)
<1> DEFINE D(k) == [key |-> k, old |-> old[k].price, new |-> rows[k].price]
<1>1. \A k \in Keys : D(k) \in Diffs /\ D(k).key = k /\ D(k).new = rows[k].price
  BY DEF Diffs, Catalogs, CatalogRows
<1> HIDE DEF D
<1>2. PriceDiffs(rows, old) = {D(k) : k \in Repriced(rows, old)}
  BY DEF D, PriceDiffs
<1>3. \A k \in Repriced(rows, old) : k \in Keys /\ rows[k].price # Absent
  BY DEF Repriced
<1>4. IsFiniteSet(PriceDiffs(rows, old))
  <2>1. IsFiniteSet(Repriced(rows, old))
    BY SyncAssumption, FS_Subset DEF Repriced
  <2> DEFINE f == [k \in Repriced(rows, old) |-> D(k)]
  <2>2. f \in Surjection(Repriced(rows, old), PriceDiffs(rows, old))
    BY <1>2 DEF Surjection
  <2> QED
    BY <2>1, <2>2, FS_Surjection
<1>5. PriceDiffs(rows, old) \in DiffSets
  BY <1>1, <1>2, <1>3 DEF DiffSets
<1>6. Proper(PriceDiffs(rows, old))
  BY <1>1, <1>2, <1>3, <1>4 DEF Proper
<1>7. Covers(PriceDiffs(rows, old), rows, old)
  BY <1>1, <1>2, <1>3 DEF Covers
<1> QED
  BY <1>5, <1>6, <1>7

\* A log has a row.
HasRow(log, r) == \E j \in DOMAIN log : log[j] = r

\* A batch of rows, one for an item, with its new price; an item the log speaks
\* of has no other new price, and none of the rows repeats what the log says.
Batch(B, log, old, new) ==
  /\ \A b, c \in B : b.key = c.key => b = c
  /\ \A b \in B : new[b.key] = b.new
  /\ \A k \in Keys : new[k] = old[k] \/ (\E b \in B : b.key = k)
                       \/ \A i \in DOMAIN log : log[i].key # k
  /\ \A b \in B : \A i \in DOMAIN log :
       log[i].key = b.key /\ log[i].new = b.new /\ log[i].week = b.week =>
         \E m \in i .. Len(log) : log[m].key = b.key /\ log[m].new # b.new

\* The first log is the second one with the rows of B behind it.
Grown(both, log, B) ==
  /\ \A i \in DOMAIN both : (i \in DOMAIN log /\ both[i] = log[i]) \/ both[i] \in B
  /\ \A i \in DOMAIN log : \E j \in DOMAIN both : both[j] = log[i]
  /\ \A b \in B : HasRow(both, b)

\* What holds of the log holds when a batch of rows is appended.
LEMMA LogGrows ==
  ASSUME NEW log \in Seq(LogRows), NEW old \in PriceOfKey, NEW new \in PriceOfKey,
         NEW B \in SUBSET LogRows, IsFiniteSet(B),
         Once(log), Follows(log, old), Batch(B, log, old, new)
  PROVE  LET both == log \o SetToSeq(B)
         IN  both \in Seq(LogRows) /\ Once(both) /\ Follows(both, new) /\ Grown(both, log, B)
<1> DEFINE batch == SetToSeq(B)
           both == log \o batch
           n == Len(log)
           l == Len(batch)
<1>1. /\ batch \in Seq(B) /\ batch \in Seq(LogRows)
      /\ \A b \in B : \E i \in 1 .. l : batch[i] = b
      /\ \A i, j \in 1 .. l : batch[i] = batch[j] => i = j
  BY ListingOfSet, SeqMonotonic
<1>2. /\ both \in Seq(LogRows) /\ Len(both) = n + l
      /\ \A i \in 1 .. n + l : both[i] = IF i <= n THEN log[i] ELSE batch[i - n]
  BY <1>1, ConcatProperties
<1>3. n \in Nat /\ l \in Nat /\ DOMAIN log = 1 .. n
  BY <1>1
<1>4. \A i \in 1 .. l : batch[i] \in B
  BY <1>1
<1> HIDE DEF batch, both, n, l
<1>5. DOMAIN both = 1 .. n + l /\ (\A i \in 1 .. n : i \in 1 .. n + l /\ both[i] = log[i])
      /\ \A i \in 1 .. l : n + i \in 1 .. n + l /\ both[n + i] = batch[i]
  BY <1>2, <1>3
<1>6. ASSUME NEW i \in 1 .. n + l, ~(i <= n)
      PROVE  i - n \in 1 .. l /\ i = n + (i - n) /\ both[i] = batch[i - n] /\ both[i] \in B
  BY <1>2, <1>3, <1>4, <1>6
<1>7. \A b \in B : \E j \in 1 .. n + l : n < j /\ both[j] = b
  <2> SUFFICES ASSUME NEW b \in B PROVE \E j \in 1 .. n + l : n < j /\ both[j] = b
    OBVIOUS
  <2>1. PICK i \in 1 .. l : batch[i] = b
    BY <1>1
  <2>2. n < n + i
    BY <1>3
  <2> QED
    BY <1>5, <2>1, <2>2
<1>14. /\ \A b, c \in B : b.key = c.key => b = c
       /\ \A b \in B : new[b.key] = b.new
  BY DEF Batch
<1>8. \A i, j \in 1 .. n + l : n < i /\ n < j /\ both[i] = both[j] => i = j
  <2> SUFFICES ASSUME NEW i \in 1 .. n + l, NEW j \in 1 .. n + l, n < i, n < j,
                      both[i] = both[j]
               PROVE  i = j
    OBVIOUS
  <2>1. i - n \in 1 .. l /\ j - n \in 1 .. l /\ batch[i - n] = batch[j - n]
    BY <1>3, <1>6
  <2>2. i - n = j - n
    BY <1>1, <2>1
  <2> QED
    BY <1>3, <2>2
<1>9. Once(both)
  <2> SUFFICES ASSUME NEW i \in 1 .. n + l, NEW j \in 1 .. n + l, i < j,
                      both[i].key = both[j].key, both[i].new = both[j].new,
                      both[i].week = both[j].week
               PROVE  \E m \in i .. j : both[m].key = both[i].key /\ both[m].new # both[i].new
    BY <1>5 DEF Once
  <2>1. CASE j <= n
    <3>1. i \in 1 .. n /\ j \in 1 .. n /\ both[i] = log[i] /\ both[j] = log[j]
      BY <1>3, <1>5, <2>1
    <3>2. PICK m \in i .. j : log[m].key = log[i].key /\ log[m].new # log[i].new
      BY <1>3, <3>1 DEF Once
    <3>3. both[m] = log[m]
      BY <1>3, <1>5, <3>1
    <3> QED
      BY <3>1, <3>2, <3>3
  <2>2. CASE i <= n /\ ~(j <= n)
    <3>1. i \in 1 .. n /\ both[i] = log[i] /\ both[j] \in B
      BY <1>3, <1>5, <1>6, <2>2
    <3>2. PICK m \in i .. n : log[m].key = both[j].key /\ log[m].new # both[j].new
      BY <1>3, <2>2, <3>1 DEF Batch, n
    <3>3. m \in 1 .. n /\ both[m] = log[m] /\ m \in i .. j
      BY <1>3, <1>5, <2>2, <3>1
    <3> QED
      BY <3>2, <3>3
  <2>3. CASE ~(i <= n)
    <3>1. ~(j <= n)
      BY <1>3, <2>3
    <3>2. both[i] \in B /\ both[j] \in B
      BY <1>6, <2>3, <3>1
    <3>3. both[i] = both[j]
      BY <1>14, <3>2
    <3>4. i = j
      BY <1>3, <1>8, <2>3, <3>1, <3>3
    <3> QED
      BY <1>3, <3>4
  <2> QED
    BY <2>1, <2>2, <2>3
<1>10. Follows(both, new)
  <2> SUFFICES ASSUME NEW i \in 1 .. n + l
               PROVE  \E m \in i .. n + l :
                        both[m].key = both[i].key /\ both[m].new = new[both[i].key]
    BY <1>2, <1>5 DEF Follows
  <2>1. CASE \E b \in B : b.key = both[i].key
    <3>1. PICK b \in B : b.key = both[i].key
      BY <2>1
    <3>2. PICK j \in 1 .. n + l : n < j /\ both[j] = b
      BY <1>7
    <3>3. CASE i <= n
      <4>1. j \in i .. n + l
        BY <1>3, <3>2, <3>3
      <4> QED
        BY <1>14, <3>1, <3>2, <4>1
    <3>4. CASE ~(i <= n)
      <4>1. both[i] \in B
        BY <1>6, <3>4
      <4>2. i \in i .. n + l
        BY <1>3
      <4> QED
        BY <1>14, <4>1, <4>2
    <3> QED
      BY <3>3, <3>4
  <2>2. CASE ~ \E b \in B : b.key = both[i].key
    <3>1. i <= n
      BY <1>6, <2>2
    <3>2. i \in 1 .. n /\ both[i] = log[i]
      BY <1>3, <1>5, <3>1
    <3>3. log[i].key \in Keys
      <4>1. log[i] \in LogRows
        BY <1>3, <3>2
      <4> QED
        BY <4>1 DEF LogRows
    <3>4. new[log[i].key] = old[log[i].key]
      BY <1>3, <2>2, <3>2, <3>3 DEF Batch
    <3>5. PICK m \in i .. n : log[m].key = log[i].key /\ log[m].new = old[log[i].key]
      BY <1>3, <3>2 DEF Follows, n
    <3>6. m \in i .. n + l /\ both[m] = log[m]
      BY <1>3, <1>5, <3>2
    <3> QED
      BY <3>2, <3>4, <3>5, <3>6
  <2> QED
    BY <2>1, <2>2
<1>11. \A i \in DOMAIN both : (i \in DOMAIN log /\ both[i] = log[i]) \/ both[i] \in B
  BY <1>3, <1>5, <1>6
<1>12. \A i \in DOMAIN log : \E j \in DOMAIN both : both[j] = log[i]
  BY <1>3, <1>5
<1>13. \A b \in B : \E j \in DOMAIN both : both[j] = b
  BY <1>5, <1>7
<1> QED
  <2>1. Grown(both, log, B)
    BY <1>11, <1>12, <1>13 DEF Grown, HasRow
  <2>2. both = log \o SetToSeq(B)
    BY DEF both, batch
  <2> QED
    BY <1>2, <1>9, <1>10, <2>1, <2>2

\* A batch of rows, one for an item, at the prices on file, none of which the
\* log has of the batch's week.
FreshBatch(B, log, price) ==
  /\ \A b, c \in B : b.key = c.key => b = c
  /\ \A b \in B : price[b.key] = b.new
  /\ \A b \in B : \A i \in DOMAIN log :
       ~(log[i].key = b.key /\ log[i].new = b.new /\ log[i].week = b.week)

\* What such a batch adds to a log.
LEMMA FreshRows ==
  ASSUME NEW log \in Seq(LogRows), NEW price \in PriceOfKey,
         NEW B \in SUBSET LogRows, IsFiniteSet(B),
         NEW both, both = log \o SetToSeq(B),
         Once(log), Follows(log, price),
         FreshBatch(B, log, price)
  PROVE  both \in Seq(LogRows) /\ Once(both) /\ Follows(both, price) /\ Grown(both, log, B)
<1>1. Batch(B, log, price, price)
  BY DEF FreshBatch, Batch
<1> QED
  BY <1>1, LogGrows

-----------------------------------------------------------------------------
(* The values the variables take. *)

\* A run's catalog takes its prices from the feed and its sales from the old one.
LEMMA RunRows ==
  ASSUME NEW records \in Feeds, NEW old \in Catalogs
  PROVE  Rows(records, old) \in Catalogs /\ SalesKept(Rows(records, old), old)
<1>1. records \in Seq(Listing)
  BY SyncAssumption
<1>2. ASSUME NEW k \in Keys
      PROVE  /\ Rows(records, old)[k] \in CatalogRows
             /\ Rows(records, old)[k].price # Absent => Rows(records, old)[k].sale = old[k].sale
  <2>1. CASE Labelled(records, k) = {}
    BY <2>1, SyncAssumption DEF Rows, NoRow, Absent, CatalogRows, PriceTags
  <2>2. CASE Labelled(records, k) # {}
    <3> DEFINE i == Min(Labelled(records, k))
    <3>1. Labelled(records, k) \in SUBSET Nat
      BY <1>1 DEF Labelled
    <3>2. i \in DOMAIN records
      BY <2>2, <3>1, Smallest DEF Labelled
    <3> HIDE DEF i
    <3>3. records[i] \in Listing
      BY <1>1, <3>2
    <3>4. records[i].price \in PriceTags
      BY <3>3, SyncAssumption DEF Listing, PriceTags
    <3>5. old[k].sale \in BOOLEAN
      BY DEF Catalogs, CatalogRows
    <3>6. Rows(records, old)[k] = [price |-> records[i].price, sale |-> old[k].sale]
      BY <2>2 DEF Rows, i
    <3> QED
      BY <3>4, <3>5, <3>6 DEF CatalogRows
  <2> QED
    BY <2>1, <2>2
<1> QED
  BY <1>2 DEF Rows, Catalogs, SalesKept

\* The fields of a commit.
LEMMA CommitFields ==
  ASSUME NEW x \in Commits
  PROVE  /\ x.csv \in Catalogs /\ x.changes \in DiffSets /\ x.before \in Catalogs
         /\ x.commit \in Nat /\ x # NoPull
BY DEF Commits, NoPull

\* The fields of the app's files.
LEMMA DiskFields ==
  ASSUME NEW x \in Disks
  PROVE  /\ x.csv \in Catalogs /\ x.changes \in DiffSets /\ x.before \in Catalogs
         /\ x.commit \in Nat /\ x.clean \in BOOLEAN /\ x.whole \in BOOLEAN
BY DEF Disks

\* The fields of a run of the workflow.
LEMMA CiFields ==
  ASSUME NEW x \in CiRuns
  PROVE  x.base \in Commits /\ x.rows \in Catalogs /\ x # Idle
BY DEF CiRuns, Idle

\* The fields of a run by hand.
LEMMA HandFields ==
  ASSUME NEW x \in HandRuns
  PROVE  x.base \in Disks /\ x.rows \in Catalogs /\ x.at \in {"fetched", "half"} /\ x # Idle
BY DEF HandRuns, Idle

\* The files of a commit, once they are in place.
LEMMA DiskOfCommit ==
  ASSUME NEW x \in Commits
  PROVE  /\ OnDisk(x, x.changes) \in Disks
         /\ OnDisk(x, x.changes).csv = x.csv /\ OnDisk(x, x.changes).changes = x.changes
         /\ OnDisk(x, x.changes).before = x.before /\ OnDisk(x, x.changes).whole
BY CommitFields DEF OnDisk, Disks

\* No row has no price; an empty catalog has none at all.
LEMMA EmptyCatalog ==
  /\ Empty \in Catalogs /\ \A k \in Keys : Empty[k].price = Absent
  /\ NoData.price \in PriceOfKey /\ NoData.log = <<>> /\ NoData.log \in Seq(LogRows)
<1>1. NoRow \in CatalogRows /\ NoRow.price = Absent /\ Absent \in PriceTags
  BY SyncAssumption DEF NoRow, Absent, CatalogRows, PriceTags
<1> QED
  BY <1>1 DEF Empty, Catalogs, NoData, PriceOfKey

\* Invariants of files nobody touches.
LEMMA FilesKept == ASSUME FilesInv, UNCHANGED <<head, disk, pull>> PROVE FilesInv'
BY DEF FilesInv

\* Invariants of writers nobody disturbs.
LEMMA WritersKept ==
  ASSUME WritersInv, UNCHANGED <<head, disk, pull, ci, byHand>>
  PROVE  WritersInv'
BY DEF WritersInv

\* Invariants of a log nobody writes.
LEMMA LogKept == ASSUME LogInv, UNCHANGED <<db, app>> PROVE LogInv'
BY DEF LogInv

-----------------------------------------------------------------------------
(* Steps of the workflow. *)

\* A run starts from the newest commit.
LEMMA CiFetchStep == ASSUME IInv, CiFetch PROVE IInv'
<1>1. /\ ci' = [at |-> "fetched", base |-> head, rows |-> Rows(feed, head.csv)]
      /\ UNCHANGED <<feed, head, disk, pull, byHand, app, db, feeds, edits, trouble, week>>
  BY DEF CiFetch, Fetched
<1>2. head \in Commits /\ head.csv \in Catalogs /\ head.commit \in Nat /\ feed \in Feeds
  BY CommitFields DEF IInv, TypeInv
<1>3. Rows(feed, head.csv) \in Catalogs /\ SalesKept(Rows(feed, head.csv), head.csv)
  BY <1>2, RunRows
<1>4. ci' \in CiRuns /\ ci'.base = head /\ ci'.rows = Rows(feed, head.csv)
  BY <1>1, <1>2, <1>3 DEF CiRuns
<1>5. TypeInv'
  BY <1>1, <1>4 DEF IInv, TypeInv
<1>6. WritersInv'
  BY <1>1, <1>2, <1>3, <1>4 DEF IInv, WritersInv
<1> QED
  BY <1>1, <1>5, <1>6, FilesKept, LogKept DEF IInv

\* Its push makes a new commit, unless nothing is new or somebody was faster.
LEMMA PushStep == ASSUME IInv, Push PROVE IInv'
<1>1. /\ ci # Idle /\ ci' = Idle
      /\ UNCHANGED <<feed, disk, pull, byHand, app, db, feeds, edits, trouble, week>>
  BY DEF Push
<1>2. ci \in CiRuns /\ ci.base \in Commits /\ ci.rows \in Catalogs
  BY <1>1, CiFields DEF IInv, TypeInv
<1>3. CASE head' = head
  <2>1. TypeInv'
    BY <1>1, <1>3 DEF IInv, TypeInv
  <2>2. WritersInv'
    BY <1>1, <1>3 DEF IInv, WritersInv
  <2> QED
    BY <1>1, <1>3, <2>1, <2>2, FilesKept, LogKept DEF IInv
<1>4. CASE head' = [csv |-> ci.rows, changes |-> PriceDiffs(ci.rows, ci.base.csv),
                    before |-> ci.base.csv, commit |-> head.commit + 1]
  <2>1. ci.base.csv \in Catalogs /\ head.commit \in Nat
    BY <1>2, CommitFields DEF IInv, TypeInv
  <2>2. /\ PriceDiffs(ci.rows, ci.base.csv) \in DiffSets
        /\ Proper(PriceDiffs(ci.rows, ci.base.csv))
        /\ Covers(PriceDiffs(ci.rows, ci.base.csv), ci.rows, ci.base.csv)
    BY <1>2, <2>1, DiffsAreProper
  <2>3. /\ head' \in Commits /\ head'.csv = ci.rows
        /\ head'.changes = PriceDiffs(ci.rows, ci.base.csv) /\ head'.before = ci.base.csv
    BY <1>2, <1>4, <2>1, <2>2 DEF Commits
  <2>4. TypeInv'
    BY <1>1, <2>3 DEF IInv, TypeInv
  <2>5. FilesInv'
    BY <1>1, <2>2, <2>3 DEF IInv, FilesInv
  <2>6. WritersInv'
    BY <1>1 DEF IInv, WritersInv
  <2> QED
    BY <1>1, <2>4, <2>5, <2>6, LogKept DEF IInv
<1> QED
  BY <1>3, <1>4 DEF Push

\* A run that dies leaves nothing.
LEMMA CiDiesStep == ASSUME IInv, CiDies PROVE IInv'
<1>1. /\ ci' = Idle /\ trouble' = trouble + 1
      /\ UNCHANGED <<feed, head, disk, pull, byHand, app, db, feeds, edits, week>>
  BY DEF CiDies, Trouble
<1>2. TypeInv'
  BY <1>1 DEF IInv, TypeInv
<1>3. WritersInv'
  BY <1>1 DEF IInv, WritersInv
<1> QED
  BY <1>1, <1>2, <1>3, FilesKept, LogKept DEF IInv

-----------------------------------------------------------------------------
(* Steps of the run by hand. *)

\* A run starts from the app's files.
LEMMA HandFetchStep == ASSUME IInv, HandFetch PROVE IInv'
<1>1. /\ pull = NoPull
      /\ byHand' = [at |-> "fetched", base |-> disk, rows |-> Rows(feed, disk.csv)]
      /\ UNCHANGED <<feed, head, disk, pull, ci, app, db, feeds, edits, trouble, week>>
  BY DEF HandFetch, Fetched
<1>2. disk \in Disks /\ disk.csv \in Catalogs /\ feed \in Feeds
  BY DiskFields DEF IInv, TypeInv
<1>3. Rows(feed, disk.csv) \in Catalogs
  BY <1>2, RunRows
<1>4. byHand' \in HandRuns /\ byHand'.base = disk /\ byHand'.at = "fetched"
  BY <1>1, <1>2, <1>3 DEF HandRuns
<1>5. TypeInv'
  BY <1>1, <1>4 DEF IInv, TypeInv
<1>6. WritersInv'
  BY <1>1, <1>4 DEF IInv, WritersInv, FilesInv
<1> QED
  BY <1>1, <1>5, <1>6, FilesKept, LogKept DEF IInv
\* The differences are written first: the catalog is still the old one.
LEMMA HandWritesFirstStep == ASSUME IInv, HandWritesFirst PROVE IInv'
<1>1. /\ byHand.at = "fetched" /\ WriteFile("changes", FALSE)
      /\ byHand' = [byHand EXCEPT !.at = "half"]
      /\ UNCHANGED <<feed, head, pull, ci, app, db, feeds, edits, trouble, week>>
  BY DEF HandWritesFirst, FirstFile
<1>2. byHand \in HandRuns
  BY <1>1 DEF Idle, IInv, TypeInv
<1>3. /\ byHand.base \in Disks /\ byHand.rows \in Catalogs /\ byHand # Idle
      /\ disk \in Disks /\ disk = byHand.base
  BY <1>1, <1>2, HandFields DEF IInv, WritersInv
<1> DEFINE base == byHand.base
           changes == PriceDiffs(byHand.rows, base.csv)
           start == IF base.whole THEN base.csv ELSE base.before
<1>4. base.csv \in Catalogs /\ base.before \in Catalogs /\ base.whole \in BOOLEAN
  BY <1>3, DiskFields
<1>5. start = base.csv /\ start = disk.csv
  BY <1>3, <1>4 DEF IInv, WritersInv
<1>6. changes \in DiffSets /\ Proper(changes)
  BY <1>3, <1>4, DiffsAreProper
<1>7. disk' = [[disk EXCEPT !.clean = FALSE, !.whole = FALSE, !.before = start]
                 EXCEPT !.changes = changes]
  BY <1>1 DEF WriteFile
<1> HIDE DEF changes, start
<1>8. /\ disk' \in Disks /\ disk'.csv = disk.csv /\ disk'.changes = changes
      /\ disk'.before = start /\ ~disk'.whole
  BY <1>3, <1>4, <1>5, <1>6, <1>7 DEF Disks
<1>9. /\ byHand' \in HandRuns /\ byHand'.at = "half" /\ byHand'.base = base
      /\ byHand'.rows = byHand.rows /\ byHand' # Idle
  BY <1>1, <1>2 DEF HandRuns, Idle
<1>10. TypeInv'
  BY <1>1, <1>8, <1>9 DEF IInv, TypeInv
<1>11. FilesInv'
  BY <1>1, <1>5, <1>6, <1>8 DEF IInv, FilesInv
<1>12. WritersInv'
  BY <1>1, <1>3, <1>5, <1>8, <1>9 DEF IInv, WritersInv, changes
<1> QED
  BY <1>1, <1>10, <1>11, <1>12, LogKept DEF IInv

\* With the catalog the files are of one sync again.
LEMMA HandWritesSecondStep == ASSUME IInv, HandWritesSecond PROVE IInv'
<1>1. /\ byHand.at = "half" /\ byHand' = Idle
      /\ UNCHANGED <<feed, head, pull, ci, app, db, feeds, edits, trouble, week>>
  BY DEF HandWritesSecond
<1>2. WriteFile("catalog", TRUE)
  <2>1. (CHOOSE file \in {"changes", "catalog"} : file # "changes") = "catalog"
    OBVIOUS
  <2> QED
    BY <2>1 DEF HandWritesSecond, FirstFile
<1>3. byHand \in HandRuns
  BY <1>1 DEF Idle, IInv, TypeInv
<1>4. byHand.base \in Disks /\ byHand.rows \in Catalogs /\ byHand # Idle /\ disk \in Disks
  BY <1>3, HandFields DEF IInv, TypeInv
<1> DEFINE base == byHand.base
           start == IF base.whole THEN base.csv ELSE base.before
<1>5. base.csv \in Catalogs /\ base.before \in Catalogs /\ base.whole \in BOOLEAN
  BY <1>4, DiskFields
<1>6. start = base.csv
  BY <1>4, <1>5 DEF IInv, WritersInv
<1>7. disk' = [[disk EXCEPT !.clean = FALSE, !.whole = TRUE, !.before = start]
                 EXCEPT !.csv = byHand.rows]
  BY <1>2 DEF WriteFile
<1> HIDE DEF start
<1>8. /\ disk' \in Disks /\ disk'.csv = byHand.rows /\ disk'.changes = disk.changes
      /\ disk'.before = base.csv /\ disk'.whole
  BY <1>4, <1>5, <1>6, <1>7 DEF Disks
<1>9. TypeInv'
  BY <1>1, <1>8 DEF IInv, TypeInv
<1>10. Covers(disk.changes, byHand.rows, base.csv)
  BY <1>1, <1>4, <1>5, DiffsAreProper DEF IInv, WritersInv
<1>11. FilesInv'
  BY <1>1, <1>8, <1>10 DEF IInv, FilesInv
<1>12. WritersInv'
  BY <1>1 DEF IInv, WritersInv, Idle
<1> QED
  BY <1>1, <1>9, <1>11, <1>12, LogKept DEF IInv

\* A run that dies leaves what it has written.
LEMMA HandDiesStep == ASSUME IInv, HandDies PROVE IInv'
<1>1. /\ byHand' = Idle /\ trouble' = trouble + 1
      /\ UNCHANGED <<feed, head, disk, pull, ci, app, db, feeds, edits, week>>
  BY DEF HandDies, Trouble
<1>2. TypeInv'
  BY <1>1 DEF IInv, TypeInv
<1>3. WritersInv'
  BY <1>1 DEF IInv, WritersInv, Idle
<1> QED
  BY <1>1, <1>2, <1>3, FilesKept, LogKept DEF IInv

-----------------------------------------------------------------------------
(* Steps of the files that follow the repository. *)

\* Half of a pull: the files are not of one sync.
LEMMA PullChangesStep == ASSUME IInv, PullChanges PROVE IInv'
<1>1. /\ byHand = Idle /\ pull' = head
      /\ disk' = [disk EXCEPT !.changes = head.changes, !.whole = FALSE]
      /\ UNCHANGED <<feed, head, ci, byHand, app, db, feeds, edits, trouble, week>>
  BY DEF PullChanges
<1>2. head \in Commits /\ head.changes \in DiffSets /\ head # NoPull /\ disk \in Disks
  BY CommitFields DEF IInv, TypeInv
<1>3. disk' \in Disks /\ disk'.changes = head.changes /\ ~disk'.whole
  BY <1>1, <1>2 DEF Disks
<1>4. TypeInv'
  BY <1>1, <1>2, <1>3 DEF IInv, TypeInv
<1>5. FilesInv'
  BY <1>1, <1>2, <1>3 DEF IInv, FilesInv
<1>6. WritersInv'
  BY <1>1 DEF IInv, WritersInv, Idle
<1> QED
  BY <1>1, <1>4, <1>5, <1>6, LogKept DEF IInv

\* The other half.
LEMMA PullCatalogStep == ASSUME IInv, PullCatalog PROVE IInv'
<1>1. /\ pull # NoPull /\ pull' = NoPull
      /\ disk' = OnDisk(pull, pull.changes)
      /\ UNCHANGED <<feed, head, ci, byHand, app, db, feeds, edits, trouble, week>>
  BY DEF PullCatalog
<1>2. pull \in Commits
  BY <1>1 DEF IInv, TypeInv
<1>3. /\ disk' \in Disks /\ disk'.csv = pull.csv /\ disk'.changes = pull.changes
      /\ disk'.before = pull.before /\ disk'.whole
  BY <1>1, <1>2, DiskOfCommit
<1>4. TypeInv'
  BY <1>1, <1>3 DEF IInv, TypeInv
<1>5. FilesInv'
  BY <1>1, <1>3 DEF IInv, FilesInv
<1>6. WritersInv'
  <2>1. byHand = Idle
    BY <1>1 DEF IInv, WritersInv
  <2> QED
    BY <1>1, <2>1 DEF IInv, WritersInv, Idle
<1> QED
  BY <1>1, <1>4, <1>5, <1>6, LogKept DEF IInv

\* A deployment: the files of the newest commit and an empty database.
LEMMA DeployStep == ASSUME IInv, Deploy PROVE IInv'
<1>1. /\ byHand = Idle /\ pull = NoPull
      /\ disk' = OnDisk(head, head.changes)
      /\ app' = [at |-> "down", read |-> Empty] /\ db' = NoData
      /\ UNCHANGED <<feed, head, pull, ci, byHand, feeds, edits, trouble, week>>
  BY DEF Deploy
<1>2. /\ disk' \in Disks /\ disk'.csv = head.csv /\ disk'.changes = head.changes
      /\ disk'.before = head.before /\ disk'.whole
  BY <1>1, DiskOfCommit DEF IInv, TypeInv
<1>3. /\ app' \in [at : {"down", "loaded", "up"}, read : Catalogs] /\ app'.at = "down"
      /\ db' \in [price : PriceOfKey, log : Seq(LogRows)] /\ db'.log = <<>>
  BY <1>1, EmptyCatalog DEF NoData
<1>4. TypeInv'
  BY <1>1, <1>2, <1>3 DEF IInv, TypeInv
<1>5. FilesInv'
  BY <1>1, <1>2 DEF IInv, FilesInv
<1>6. WritersInv'
  BY <1>1 DEF IInv, WritersInv, Idle
<1>7. LogInv'
  BY <1>3 DEF LogInv, Once, Follows
<1> QED
  BY <1>4, <1>5, <1>6, <1>7 DEF IInv
-----------------------------------------------------------------------------
(* Steps of the app. *)

\* The fields of the database.
LEMMA DbFields ==
  ASSUME TypeInv
  PROVE  /\ db.price \in PriceOfKey /\ db.log \in Seq(LogRows)
         /\ \A k \in Keys : db.price[k] \in PriceTags
         /\ \A i \in DOMAIN db.log : db.log[i] \in LogRows
BY DEF TypeInv, PriceOfKey

\* A row of the log.
LEMMA LogRowFields ==
  ASSUME NEW k \in Keys, NEW o \in PriceTags, NEW n \in PriceTags, NEW s \in Sources,
         week \in Nat
  PROVE  /\ LogRow(k, o, n, s) \in LogRows
         /\ LogRow(k, o, n, s).key = k /\ LogRow(k, o, n, s).old = o
         /\ LogRow(k, o, n, s).new = n /\ LogRow(k, o, n, s).source = s
         /\ LogRow(k, o, n, s).week = week
BY DEF LogRow, LogRows

\* A load brings the prices of the catalog, and logs those that moved away from
\* the price the log led to.
LEMMA LoadEffect ==
  ASSUME IInv, NEW csv \in Catalogs
  PROVE  LET new == Loaded(csv)
         IN  /\ new \in [price : PriceOfKey, log : Seq(LogRows)]
             /\ Once(new.log) /\ Follows(new.log, new.price)
             /\ \A i \in DOMAIN new.log : new.price[new.log[i].key] # Absent
             /\ \A k \in Keys : csv[k].price # Absent => new.price[k] = csv[k].price
<1> DEFINE moved == {k \in Keys : /\ csv[k].price # Absent /\ db.price[k] # Absent
                                  /\ csv[k].price # db.price[k]}
           R(k) == LogRow(k, db.price[k], csv[k].price, "file")
           B == {R(k) : k \in moved}
           prices == [k \in Keys |-> IF csv[k].price = Absent THEN db.price[k]
                                                              ELSE csv[k].price]
           log == db.log \o SetToSeq(B)
<1>1. Loaded(csv) = [price |-> prices, log |-> log]
  BY DEF Loaded
<1>2. /\ db.price \in PriceOfKey /\ db.log \in Seq(LogRows) /\ week \in Nat
      /\ \A k \in Keys : db.price[k] \in PriceTags
      /\ \A i \in DOMAIN db.log : db.log[i] \in LogRows /\ db.log[i].key \in Keys
  BY DbFields DEF IInv, TypeInv, LogRows
<1>3. \A k \in Keys : csv[k].price \in PriceTags
  BY DEF Catalogs, CatalogRows
<1>4. prices \in PriceOfKey
  BY <1>2, <1>3 DEF PriceOfKey
<1>5. \A k \in Keys : /\ csv[k].price # Absent => prices[k] = csv[k].price
                      /\ csv[k].price = Absent => prices[k] = db.price[k]
  OBVIOUS
<1>6. \A k \in moved : /\ k \in Keys /\ csv[k].price # Absent /\ db.price[k] # Absent
                       /\ csv[k].price # db.price[k]
  OBVIOUS
<1>7. \A k \in Keys : k \notin moved /\ csv[k].price # Absent /\ db.price[k] # Absent =>
                        csv[k].price = db.price[k]
  OBVIOUS
<1>8. \A k \in moved : R(k) \in LogRows /\ R(k).key = k /\ R(k).new = csv[k].price
  BY <1>2, <1>3, <1>6, LogRowFields DEF Sources
<1>9. IsFiniteSet(moved)
  BY SyncAssumption, FS_Subset
<1> HIDE DEF moved, R, prices
<1>10. B \in SUBSET LogRows
  BY <1>8
<1>11. IsFiniteSet(B)
  <2> DEFINE f == [k \in moved |-> R(k)]
  <2>1. f \in Surjection(moved, B)
    BY DEF Surjection
  <2> QED
    BY <1>9, <2>1, FS_Surjection
<1>12. \A b \in B : \E k \in moved : b.key = k /\ b = R(k) /\ b.new = csv[k].price
  BY <1>8
<1>13. \A k \in moved : R(k) \in B
  OBVIOUS
<1> HIDE DEF B
<1>14. \A b, c \in B : b.key = c.key => b = c
  BY <1>12
<1>15. \A b \in B : prices[b.key] = b.new
  BY <1>5, <1>6, <1>12
<1>16. \A i \in DOMAIN db.log : db.price[db.log[i].key] # Absent
  BY DEF IInv, LogInv
<1>17. \A k \in Keys : prices[k] = db.price[k] \/ (\E b \in B : b.key = k)
                         \/ \A i \in DOMAIN db.log : db.log[i].key # k
  <2> SUFFICES ASSUME NEW k \in Keys, prices[k] # db.price[k], ~ \E b \in B : b.key = k,
                      NEW i \in DOMAIN db.log
               PROVE  db.log[i].key # k
    OBVIOUS
  <2>1. k \notin moved
    BY <1>8, <1>13
  <2>2. db.price[k] = Absent
    BY <1>5, <1>7, <2>1
  <2> QED
    BY <1>16, <2>2
<1>18. ASSUME NEW b \in B, NEW i \in DOMAIN db.log, db.log[i].key = b.key
       PROVE  \E m \in i .. Len(db.log) : db.log[m].key = b.key /\ db.log[m].new # b.new
  <2>1. PICK m \in i .. Len(db.log) :
          db.log[m].key = db.log[i].key /\ db.log[m].new = db.price[db.log[i].key]
    BY DEF IInv, LogInv, Follows
  <2>2. b.new # db.price[b.key]
    BY <1>6, <1>12
  <2> QED
    BY <1>18, <2>1, <2>2
<1>19. Once(db.log) /\ Follows(db.log, db.price)
  BY DEF IInv, LogInv
<1>20. /\ log \in Seq(LogRows) /\ Once(log) /\ Follows(log, prices)
       /\ \A i \in DOMAIN log : (i \in DOMAIN db.log /\ log[i] = db.log[i]) \/ log[i] \in B
  <2>1. PICK old \in Seq(LogRows) : old = db.log
    BY <1>2
  <2>2. Once(old) /\ Follows(old, db.price)
    BY <1>19, <2>1
  <2>3. Batch(B, old, db.price, prices)
    BY <1>14, <1>15, <1>17, <1>18, <2>1 DEF Batch
  <2>4. PICK both : both = old \o SetToSeq(B) /\ both = log
    BY <2>1
  <2> HIDE DEF log
  <2>5. both \in Seq(LogRows) /\ Once(both) /\ Follows(both, prices) /\ Grown(both, old, B)
    BY <1>2, <1>4, <1>10, <1>11, <2>2, <2>3, <2>4, LogGrows
  <2> QED
    BY <2>1, <2>4, <2>5 DEF Grown
<1> HIDE DEF log
<1>21. \A i \in DOMAIN log : prices[log[i].key] # Absent
  <2> SUFFICES ASSUME NEW i \in DOMAIN log PROVE prices[log[i].key] # Absent
    OBVIOUS
  <2>1. CASE log[i] \in B
    BY <1>5, <1>6, <1>12, <2>1
  <2>2. CASE i \in DOMAIN db.log /\ log[i] = db.log[i]
    BY <1>2, <1>5, <1>16, <2>2
  <2> QED
    BY <1>20, <2>1, <2>2
<1>22. /\ Loaded(csv).price = prices /\ Loaded(csv).log = log
       /\ Loaded(csv) \in [price : PriceOfKey, log : Seq(LogRows)]
  BY <1>1, <1>4, <1>20
<1> QED
  BY <1>5, <1>20, <1>21, <1>22
\* The import logs differences that led to the price on file and that the log
\* does not have; all the log had stays in it.
LEMMA ImportEffect ==
  ASSUME IInv
  PROVE  LET B == {LogRow(d.key, d.old, d.new, "toast_sync_file") :
                     d \in {d \in disk.changes : Importable(d)}}
             log == db.log \o SetToSeq(B)
         IN  /\ log \in Seq(LogRows) /\ Once(log) /\ Follows(log, db.price)
             /\ \A i \in DOMAIN log : db.price[log[i].key] # Absent
             /\ \A i \in DOMAIN db.log : \E j \in DOMAIN log : log[j] = db.log[i]
             /\ \A d \in disk.changes : Importable(d) => \E j \in DOMAIN log : log[j].key = d.key
<1> DEFINE C == {d \in disk.changes : Importable(d)}
           R(d) == LogRow(d.key, d.old, d.new, "toast_sync_file")
           B == {R(d) : d \in C}
           log == db.log \o SetToSeq(B)
<1>1. /\ db.price \in PriceOfKey /\ db.log \in Seq(LogRows) /\ week \in Nat
      /\ \A i \in DOMAIN db.log : db.log[i] \in LogRows
  BY DbFields DEF IInv, TypeInv
<1>2. disk.changes \in DiffSets /\ Proper(disk.changes)
  BY DiskFields DEF IInv, TypeInv, FilesInv
<1>3. \A d \in disk.changes : d.key \in Keys /\ d.old \in PriceTags /\ d.new \in PriceTags
  BY <1>2 DEF DiffSets, Diffs
<1>4. \A d \in C : d \in disk.changes /\ Importable(d)
  OBVIOUS
<1>5. C \in SUBSET disk.changes /\ \A d \in disk.changes : Importable(d) => d \in C
  OBVIOUS
<1>6. IsFiniteSet(C)
  BY <1>2, <1>5, FS_Subset DEF Proper
<1>7. \A d \in C : R(d) \in LogRows /\ R(d).key = d.key /\ R(d).new = d.new /\ R(d).week = week
  BY <1>1, <1>3, <1>4, LogRowFields DEF Sources
<1> HIDE DEF C, R
<1>8. B \in SUBSET LogRows
  BY <1>7
<1>9. IsFiniteSet(B)
  <2> DEFINE f == [d \in C |-> R(d)]
  <2>1. f \in Surjection(C, B)
    BY DEF Surjection
  <2> QED
    BY <1>6, <2>1, FS_Surjection
<1>10. \A b \in B : \E d \in C : b = R(d) /\ b.key = d.key /\ b.new = d.new /\ b.week = week
  BY <1>7
<1>11. \A d \in C : R(d) \in B
  OBVIOUS
<1> HIDE DEF B
<1>12. \A b, c \in B : b.key = c.key => b = c
  BY <1>2, <1>4, <1>10 DEF Proper
<1>13. \A b \in B : db.price[b.key] = b.new
  BY <1>4, <1>10 DEF Importable
<1>14. ASSUME NEW b \in B, NEW i \in DOMAIN db.log,
              db.log[i].key = b.key, db.log[i].new = b.new, db.log[i].week = b.week
       PROVE  FALSE
  <2>1. PICK d \in C : b.key = d.key /\ b.new = d.new /\ b.week = week
    BY <1>10
  <2>2. db.log[i] \in Log
    BY DEF Log, ToSet
  <2> QED
    BY <1>4, <1>14, <2>1, <2>2 DEF Importable
<1>15. /\ log \in Seq(LogRows) /\ Once(log) /\ Follows(log, db.price)
       /\ \A i \in DOMAIN log : (i \in DOMAIN db.log /\ log[i] = db.log[i]) \/ log[i] \in B
       /\ \A i \in DOMAIN db.log : \E j \in DOMAIN log : log[j] = db.log[i]
       /\ \A b \in B : \E j \in DOMAIN log : log[j] = b
  <2>1. \A b \in B : \A i \in DOMAIN db.log :
          ~(db.log[i].key = b.key /\ db.log[i].new = b.new /\ db.log[i].week = b.week)
    BY <1>14
  <2>2. Once(db.log) /\ Follows(db.log, db.price)
    BY DEF IInv, LogInv
  <2>3. PICK price \in PriceOfKey : price = db.price
    BY <1>1
  <2>4. PICK old \in Seq(LogRows) : old = db.log
    BY <1>1
  <2>5. \A b \in B : price[b.key] = b.new
    BY <1>13, <2>3
  <2>6. PICK both : both = old \o SetToSeq(B) /\ both = log
    BY <2>4
  <2>7. FreshBatch(B, old, price)
    BY <1>12, <2>1, <2>4, <2>5 DEF FreshBatch
  <2>8. Once(old) /\ Follows(old, price)
    BY <2>2, <2>3, <2>4
  <2> HIDE DEF log
  <2>9. both \in Seq(LogRows) /\ Once(both) /\ Follows(both, price) /\ Grown(both, old, B)
    BY <1>8, <1>9, <2>6, <2>7, <2>8, FreshRows
  <2> QED
    BY <2>3, <2>4, <2>6, <2>9 DEF Grown, HasRow
<1> HIDE DEF log
<1>16. \A i \in DOMAIN log : db.price[log[i].key] # Absent
  <2>1. \A b \in B : db.price[b.key] # Absent
    BY <1>2, <1>4, <1>10, <1>13 DEF Proper
  <2>2. \A i \in DOMAIN db.log : db.price[db.log[i].key] # Absent
    BY DEF IInv, LogInv
  <2> QED
    BY <1>15, <2>1, <2>2
<1>17. \A d \in disk.changes : Importable(d) => \E j \in DOMAIN log : log[j].key = d.key
  BY <1>5, <1>7, <1>11, <1>15
<1> QED
  BY <1>15, <1>16, <1>17 DEF log, B, C, R

\* The start-up load.
LEMMA BootLoadStep == ASSUME IInv, BootLoad PROVE IInv'
<1>1. UNCHANGED <<feed, head, disk, pull, ci, byHand, feeds, edits, week>>
  BY DEF BootLoad
<1>2. disk.csv \in Catalogs /\ trouble' \in Nat
  BY DiskFields DEF IInv, TypeInv, BootLoad, Trouble
<1>3. CASE db' = Loaded(disk.csv) /\ app' = [at |-> "loaded", read |-> disk.csv]
  <2>1. /\ db' \in [price : PriceOfKey, log : Seq(LogRows)]
        /\ Once(db'.log) /\ Follows(db'.log, db'.price)
        /\ \A i \in DOMAIN db'.log : db'.price[db'.log[i].key] # Absent
        /\ \A k \in Keys : disk.csv[k].price # Absent => db'.price[k] = disk.csv[k].price
    BY <1>2, <1>3, LoadEffect
  <2>2. app' \in [at : {"down", "loaded", "up"}, read : Catalogs] /\ app'.read = disk.csv
    BY <1>2, <1>3
  <2>3. TypeInv'
    BY <1>1, <1>2, <2>1, <2>2 DEF IInv, TypeInv
  <2>4. LogInv'
    BY <2>1, <2>2 DEF LogInv
  <2> QED
    BY <1>1, <2>3, <2>4, FilesKept, WritersKept DEF IInv
<1>4. CASE db' = db /\ app' = [at |-> "loaded", read |-> Empty]
  <2>1. /\ app' \in [at : {"down", "loaded", "up"}, read : Catalogs]
        /\ \A k \in Keys : app'.read[k].price = Absent
    BY <1>4, EmptyCatalog
  <2>2. TypeInv'
    BY <1>1, <1>2, <1>4, <2>1 DEF IInv, TypeInv
  <2>3. LogInv'
    BY <1>4, <2>1 DEF IInv, LogInv
  <2> QED
    BY <1>1, <2>2, <2>3, FilesKept, WritersKept DEF IInv
<1> QED
  BY <1>3, <1>4 DEF BootLoad

\* The import.
LEMMA BootImportStep == ASSUME IInv, BootImport PROVE IInv'
<1> DEFINE B == {LogRow(d.key, d.old, d.new, "toast_sync_file") :
                   d \in {d \in disk.changes : Importable(d)}}
           log == db.log \o SetToSeq(B)
<1>1. /\ app' = [app EXCEPT !.at = "up", !.read = Empty]
      /\ db' = [db EXCEPT !.log = log]
      /\ UNCHANGED <<feed, head, disk, pull, ci, byHand, feeds, edits, trouble, week>>
  BY DEF BootImport
<1>2. /\ log \in Seq(LogRows) /\ Once(log) /\ Follows(log, db.price)
      /\ \A i \in DOMAIN log : db.price[log[i].key] # Absent
  BY ImportEffect
<1> HIDE DEF log
<1>3. /\ db' \in [price : PriceOfKey, log : Seq(LogRows)]
      /\ db'.log = log /\ db'.price = db.price
  BY <1>1, <1>2 DEF IInv, TypeInv
<1>4. app' \in [at : {"down", "loaded", "up"}, read : Catalogs] /\ app'.at = "up"
  BY <1>1, EmptyCatalog DEF IInv, TypeInv
<1>5. TypeInv'
  BY <1>1, <1>3, <1>4 DEF IInv, TypeInv
<1>6. LogInv'
  BY <1>2, <1>3, <1>4 DEF LogInv
<1> QED
  BY <1>1, <1>5, <1>6, FilesKept, WritersKept DEF IInv

\* A later load.
LEMMA RefreshStep == ASSUME IInv, Refresh PROVE IInv'
<1>1. /\ app.at = "up" /\ db' = Loaded(disk.csv)
      /\ UNCHANGED <<feed, head, disk, pull, ci, byHand, app, feeds, edits, trouble, week>>
  BY DEF Refresh
<1>2. disk.csv \in Catalogs
  BY DiskFields DEF IInv, TypeInv
<1>3. /\ db' \in [price : PriceOfKey, log : Seq(LogRows)]
      /\ Once(db'.log) /\ Follows(db'.log, db'.price)
      /\ \A i \in DOMAIN db'.log : db'.price[db'.log[i].key] # Absent
  BY <1>1, <1>2, LoadEffect
<1>4. TypeInv'
  BY <1>1, <1>3 DEF IInv, TypeInv
<1>5. LogInv'
  BY <1>1, <1>3 DEF LogInv
<1> QED
  BY <1>1, <1>4, <1>5, FilesKept, WritersKept DEF IInv

\* A restart keeps the database or wipes it.
LEMMA RestartStep == ASSUME IInv, NEW wiped \in BOOLEAN, Restart(wiped) PROVE IInv'
<1>1. /\ trouble' = trouble + 1
      /\ app' = [at |-> "down", read |-> Empty]
      /\ db' = db \/ db' = NoData
      /\ UNCHANGED <<feed, head, disk, pull, ci, byHand, feeds, edits, week>>
  BY DEF Restart, Trouble
<1>2. /\ app' \in [at : {"down", "loaded", "up"}, read : Catalogs] /\ app'.at = "down"
      /\ NoData \in [price : PriceOfKey, log : Seq(LogRows)] /\ NoData.log = <<>>
  BY <1>1, EmptyCatalog DEF NoData
<1>3. TypeInv'
  BY <1>1, <1>2 DEF IInv, TypeInv
<1>4. LogInv'
  <2>1. CASE db' = db
    BY <1>2, <2>1 DEF IInv, LogInv
  <2>2. CASE db' = NoData
    BY <1>2, <2>2 DEF LogInv, Once, Follows
  <2> QED
    BY <1>1, <2>1, <2>2
<1> QED
  BY <1>1, <1>3, <1>4, FilesKept, WritersKept DEF IInv
-----------------------------------------------------------------------------
(* Steps of the world outside. *)

\* Staff change the feed.
LEMMA FeedChangesStep == ASSUME IInv, FeedChanges PROVE IInv'
<1>1. /\ feed' \in Feeds /\ feeds' = feeds + 1
      /\ UNCHANGED <<head, disk, pull, ci, byHand, app, db, edits, trouble, week>>
  BY DEF FeedChanges
<1>2. TypeInv'
  BY <1>1 DEF IInv, TypeInv
<1> QED
  BY <1>1, <1>2, FilesKept, WritersKept, LogKept DEF IInv

\* A week passes.
LEMMA WeekPassesStep == ASSUME IInv, WeekPasses PROVE IInv'
<1>1. /\ week' = week + 1
      /\ UNCHANGED <<feed, head, disk, pull, ci, byHand, app, db, feeds, edits, trouble>>
  BY DEF WeekPasses
<1>2. TypeInv'
  BY <1>1 DEF IInv, TypeInv
<1> QED
  BY <1>1, <1>2, FilesKept, WritersKept, LogKept DEF IInv

\* A commit after a hand edit: no price has changed, and its number has.
LEMMA EditedCommit ==
  ASSUME NEW x \in Commits, NEW k \in Keys
  PROVE  LET y == [x EXCEPT !.csv[k].sale = ~@, !.commit = @ + 1]
         IN  /\ y \in Commits
             /\ y.changes = x.changes /\ y.before = x.before /\ y.commit = x.commit + 1
             /\ \A l \in Keys : y.csv[l].price = x.csv[l].price
<1> DEFINE row == [x.csv[k] EXCEPT !.sale = ~@]
           csv == [x.csv EXCEPT ![k] = row]
           y == [x EXCEPT !.csv = csv, !.commit = @ + 1]
<1>1. /\ x.csv \in Catalogs /\ x.commit \in Nat \ {0}
      /\ x.changes \in DiffSets /\ x.before \in Catalogs
  BY DEF Commits
<1>2. x.csv[k] \in CatalogRows
  BY <1>1 DEF Catalogs
<1>3. row \in CatalogRows /\ row.price = x.csv[k].price
  BY <1>2 DEF CatalogRows
<1> HIDE DEF row
<1>4. csv \in Catalogs /\ \A l \in Keys : csv[l].price = x.csv[l].price
  BY <1>1, <1>3 DEF Catalogs
<1> HIDE DEF csv
<1>5. x.commit + 1 \in Nat \ {0}
  BY <1>1
<1>6. /\ y \in Commits /\ y.changes = x.changes /\ y.before = x.before
      /\ y.commit = x.commit + 1 /\ y.csv = csv
  BY <1>1, <1>4, <1>5 DEF Commits
<1>7. y = [x EXCEPT !.csv[k].sale = ~@, !.commit = @ + 1]
  BY DEF csv, row
<1> HIDE DEF y
<1> QED
  BY <1>4, <1>6, <1>7

\* The store pushes a hand edit.
LEMMA HandEditStep == ASSUME IInv, NEW k \in Keys, HandEdit(k) PROVE IInv'
<1>1. /\ head' = [head EXCEPT !.csv[k].sale = ~@, !.commit = @ + 1]
      /\ edits' = edits + 1
      /\ UNCHANGED <<feed, disk, pull, ci, byHand, app, db, feeds, trouble, week>>
  BY DEF HandEdit
<1>2. head \in Commits
  BY DEF IInv, TypeInv
<1>3. /\ head' \in Commits
      /\ head'.changes = head.changes /\ head'.before = head.before
      /\ head'.commit = head.commit + 1
      /\ \A l \in Keys : head'.csv[l].price = head.csv[l].price
  BY <1>1, <1>2, EditedCommit
<1>4. TypeInv'
  BY <1>1, <1>3 DEF IInv, TypeInv
<1>5. FilesInv'
  <2>1. Repriced(head'.csv, head'.before) = Repriced(head.csv, head.before)
    BY <1>3 DEF Repriced
  <2>2. Covers(head'.changes, head'.csv, head'.before)
    BY <1>3, <2>1 DEF IInv, FilesInv, Covers, Repriced
  <2> QED
    BY <1>1, <1>3, <2>2 DEF IInv, FilesInv
<1>6. WritersInv'
  <2>1. ASSUME ci # Idle
        PROVE  ci.base.commit <= head'.commit /\ ci.base.commit # head'.commit
    <3>1. ci.base.commit \in Nat /\ head.commit \in Nat
      BY <1>2, <2>1, CiFields, CommitFields DEF IInv, TypeInv
    <3>2. ci.base.commit <= head.commit
      BY <2>1 DEF IInv, WritersInv
    <3> QED
      BY <1>3, <3>1, <3>2
  <2> QED
    BY <1>1, <2>1 DEF IInv, WritersInv
<1> QED
  BY <1>1, <1>4, <1>5, <1>6, LogKept DEF IInv

-----------------------------------------------------------------------------
(* The inductive invariant. *)

\* The repository starts with a sync of the first feed, the app on its files.
LEMMA Start == Init => IInv
<1> SUFFICES ASSUME Init PROVE IInv
  OBVIOUS
<1> DEFINE rows == Rows(feed, Empty)
<1>1. /\ feed \in Feeds
      /\ head = [csv |-> rows, changes |-> {}, before |-> rows, commit |-> 1]
      /\ disk = OnDisk(head, {})
      /\ pull = NoPull /\ ci = Idle /\ byHand = Idle
      /\ app = [at |-> "down", read |-> Empty] /\ db = NoData
      /\ feeds = 0 /\ edits = 0 /\ trouble = 0 /\ week = 0
  BY DEF Init
<1>2. rows \in Catalogs
  BY <1>1, RunRows, EmptyCatalog
<1> HIDE DEF rows
<1>3. {} \in DiffSets
  BY DEF DiffSets
<1>4. /\ head \in Commits /\ head.changes = {}
      /\ head.csv = rows /\ head.before = rows
  BY <1>1, <1>2, <1>3 DEF Commits
<1>5. /\ disk \in Disks /\ disk.changes = {} /\ disk.csv = rows /\ disk.before = rows
      /\ disk.whole
  BY <1>1, <1>4, DiskOfCommit
<1>6. app \in [at : {"down", "loaded", "up"}, read : Catalogs] /\ app.at = "down"
  BY <1>1, EmptyCatalog
<1>7. db \in [price : PriceOfKey, log : Seq(LogRows)] /\ db.log = <<>>
  BY <1>1, EmptyCatalog DEF NoData
<1>8. TypeInv
  BY <1>1, <1>4, <1>5, <1>6, <1>7 DEF TypeInv
<1>9. FilesInv
  <2>1. Proper({}) /\ Covers({}, rows, rows)
    BY FS_EmptySet DEF Proper, Covers, Repriced
  <2> QED
    BY <1>1, <1>4, <1>5, <2>1 DEF FilesInv
<1>10. WritersInv
  BY <1>1 DEF WritersInv, Idle
<1>11. LogInv
  BY <1>6, <1>7 DEF LogInv, Once, Follows
<1> QED
  BY <1>8, <1>9, <1>10, <1>11 DEF IInv

\* Every step keeps the invariant.
LEMMA StepKeeps == IInv /\ [Next]_vars => IInv'
<1> SUFFICES ASSUME IInv, [Next]_vars PROVE IInv'
  OBVIOUS
<1>1. CASE UNCHANGED vars
  <2>1. TypeInv'
    BY <1>1 DEF IInv, TypeInv, vars
  <2> QED
    BY <1>1, <2>1, FilesKept, WritersKept, LogKept DEF IInv, vars
<1>2. CASE CiFetch \/ Push \/ CiDies
  BY <1>2, CiFetchStep, PushStep, CiDiesStep
<1>3. CASE HandFetch \/ HandWritesFirst \/ HandWritesSecond \/ HandDies
  BY <1>3, HandFetchStep, HandWritesFirstStep, HandWritesSecondStep, HandDiesStep
<1>4. CASE PullChanges \/ PullCatalog \/ Deploy
  BY <1>4, PullChangesStep, PullCatalogStep, DeployStep
<1>5. CASE BootLoad \/ BootImport \/ Refresh \/ \E wiped \in BOOLEAN : Restart(wiped)
  BY <1>5, BootLoadStep, BootImportStep, RefreshStep, RestartStep
<1>6. CASE FeedChanges \/ WeekPasses \/ \E k \in Keys : HandEdit(k)
  BY <1>6, FeedChangesStep, WeekPassesStep, HandEditStep
<1> QED
  BY <1>1, <1>2, <1>3, <1>4, <1>5, <1>6 DEF Next

\* The inductive invariant holds, whatever the writers, the app and the world
\* do in whatever order.
THEOREM Inductive == Spec => []IInv
<1> QED
  BY Start, StepKeeps, PTL DEF Spec

-----------------------------------------------------------------------------
(* The properties. *)

\* No change is reported twice: what the load logged the import does not log
\* again, and the other way round (_import_price_change_diffs).
THEOREM NoChangeReportedTwice == Spec => []ReportedOnce
<1>1. IInv => ReportedOnce
  BY DEF IInv, LogInv, Once, ReportedOnce
<1> QED
  BY <1>1, Inductive, PTL
\* A sale set or ended by hand stays: the run of the workflow that would undo
\* it started before the edit, and its push is refused.
THEOREM SalesByHandSurvive == Spec => HandEditsSurvive
<1> DEFINE Kept == edits' = edits =>
                     \A k \in Keys : head.csv[k].price # Absent /\ head'.csv[k].price # Absent =>
                       head'.csv[k].sale = head.csv[k].sale
<1>1. IInv /\ [Next]_vars => [Kept]_vars
  <2> SUFFICES ASSUME IInv, [Next]_vars, edits' = edits,
                      NEW k \in Keys, head'.csv[k].price # Absent
               PROVE  head'.csv[k].sale = head.csv[k].sale
    OBVIOUS
  <2>1. CASE Push
    <3>1. CASE head' = head
      BY <3>1
    <3>2. CASE /\ ci # Idle /\ ci.base.commit = head.commit
               /\ head' = [csv |-> ci.rows, changes |-> PriceDiffs(ci.rows, ci.base.csv),
                           before |-> ci.base.csv, commit |-> head.commit + 1]
      <4>1. head'.csv = ci.rows
        BY <3>2
      <4>2. SalesKept(ci.rows, head.csv)
        BY <3>2 DEF IInv, WritersInv
      <4> QED
        BY <4>1, <4>2 DEF SalesKept
    <3> QED
      BY <2>1, <3>1, <3>2 DEF Push
  <2>2. ASSUME NEW l \in Keys, HandEdit(l) PROVE FALSE
    BY <2>2 DEF HandEdit, IInv, TypeInv
  <2>3. CASE UNCHANGED head
    BY <2>3
  <2> QED
    BY <2>1, <2>2, <2>3 DEF Next, vars, CiFetch, CiDies, HandFetch, HandWritesFirst,
       HandWritesSecond, HandDies, PullChanges, PullCatalog, BootLoad, BootImport, Refresh,
       Deploy, Restart, FeedChanges, WeekPasses
<1> HIDE DEF Kept
<1>2. Spec => [][Kept]_vars
  BY <1>1, Inductive, PTL DEF Spec
<1> QED
  BY <1>2 DEF HandEditsSurvive, Kept

\* The newest row of an item that a log has is the one its price on file is
\* from.
LEMMA NewestIsOnFile ==
  ASSUME NEW log \in Seq(LogRows), NEW price, Follows(log, price),
         NEW k, NEW i \in DOMAIN log, log[i].key = k
  PROVE  Newest(log, k) = price[k]
<1> DEFINE mine == {j \in DOMAIN log : log[j].key = k}
<1>1. Len(log) \in Nat /\ DOMAIN log = 1 .. Len(log)
  OBVIOUS
<1>2. mine \in SUBSET (1 .. Len(log)) /\ mine # {}
  BY <1>1
<1>3. Max(mine) \in mine /\ \A j \in mine : j <= Max(mine)
  BY <1>1, <1>2, Greatest
<1>4. PICK last \in 1 .. Len(log) : last = Max(mine)
  BY <1>2, <1>3
<1>5. last \in DOMAIN log /\ log[last].key = k
  BY <1>1, <1>3, <1>4
<1>6. PICK m \in last .. Len(log) : log[m].key = k /\ log[m].new = price[k]
  BY <1>5 DEF Follows
<1>7. m \in mine
  BY <1>1, <1>4, <1>6
<1>8. m = last
  <2> HIDE DEF mine
  <2>1. m <= last
    BY <1>3, <1>4, <1>7
  <2>2. m \in Nat /\ last <= m
    BY <1>1, <1>6
  <2> QED
    BY <1>1, <2>1, <2>2
<1>9. Newest(log, k) = log[Max(mine)].new
  BY <1>2 DEF Newest
<1> QED
  BY <1>4, <1>6, <1>8, <1>9

\* The import leaves every price that the sync on file changed in the log.
LEMMA ImportReaches ==
  ASSUME IInv, BootImport, disk.whole, app.read = disk.csv,
         NEW k \in Repriced(disk.csv, disk.before)
  PROVE  Newest(db'.log, k) = disk.csv[k].price
<1> DEFINE B == {LogRow(d.key, d.old, d.new, "toast_sync_file") :
                   d \in {d \in disk.changes : Importable(d)}}
           log == db.log \o SetToSeq(B)
<1>1. app.at = "loaded" /\ db' = [db EXCEPT !.log = log]
  BY DEF BootImport
<1>2. log \in Seq(LogRows) /\ Follows(log, db.price)
  BY ImportEffect
<1>3. \A i \in DOMAIN db.log : \E j \in DOMAIN log : log[j] = db.log[i]
  BY ImportEffect
<1>4. \A d \in disk.changes : Importable(d) => \E j \in DOMAIN log : log[j].key = d.key
  BY ImportEffect
<1> HIDE DEF log
<1>5. db'.log = log
  BY <1>1 DEF IInv, TypeInv
<1>6. PICK d \in disk.changes : d.key = k /\ d.new = disk.csv[k].price
  BY DEF IInv, FilesInv, Covers
<1>7. k \in Keys /\ db.price[k] = disk.csv[k].price
  BY <1>1 DEF IInv, LogInv, Repriced
<1>8. PICK j \in DOMAIN log : log[j].key = k
  <2>1. CASE Importable(d)
    BY <1>4, <1>6, <2>1
  <2>2. CASE ~Importable(d)
    <3>1. PICK r \in Log : r.key = k
      BY <1>6, <1>7, <2>2 DEF Importable
    <3>2. PICK i \in DOMAIN db.log : db.log[i] = r
      BY <3>1 DEF Log, ToSet
    <3> QED
      BY <1>3, <3>1, <3>2
  <2> QED
    BY <2>1, <2>2
<1>9. Newest(log, k) = db.price[k]
  BY <1>2, <1>8, NewestIsOnFile
<1> QED
  BY <1>5, <1>7, <1>9

\* A start on the files of one sync leaves every price the sync changed in the
\* price log, with the price on file as the newest one, whether the database
\* was wiped or kept (main of toast_sync.py, _import_price_change_diffs).
THEOREM SyncedChangesReachTheQueue == Spec => ChangesReachTheQueue
<1> DEFINE Reached ==
      app.at = "loaded" /\ app'.at = "up" /\ disk.whole /\ app.read = disk.csv =>
        \A k \in Repriced(disk.csv, disk.before) : Newest(db'.log, k) = disk.csv[k].price
<1>1. IInv /\ [Next]_vars => [Reached]_vars
  <2> SUFFICES ASSUME IInv, [Next]_vars,
                      app.at = "loaded", app'.at = "up", disk.whole, app.read = disk.csv
               PROVE  \A k \in Repriced(disk.csv, disk.before) :
                        Newest(db'.log, k) = disk.csv[k].price
    OBVIOUS
  <2>1. CASE BootImport
    BY <2>1, ImportReaches
  <2>2. CASE BootLoad \/ Deploy \/ (\E wiped \in BOOLEAN : Restart(wiped))
    <3>1. app.at = "down" \/ app'.at = "down"
      BY <2>2 DEF BootLoad, Deploy, Restart
    <3> QED
      BY <3>1
  <2>3. CASE UNCHANGED app
    BY <2>3
  <2> QED
    BY <2>1, <2>2, <2>3 DEF Next, vars, CiFetch, Push, CiDies, HandFetch, HandWritesFirst,
       HandWritesSecond, HandDies, PullChanges, PullCatalog, Refresh, FeedChanges,
       WeekPasses, HandEdit
<1> HIDE DEF Reached
<1>2. Spec => [][Reached]_vars
  BY <1>1, Inductive, PTL DEF Spec
<1> QED
  BY <1>2 DEF ChangesReachTheQueue, Reached
=============================================================================
