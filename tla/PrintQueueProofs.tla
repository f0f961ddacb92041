-------------------------- MODULE PrintQueueProofs --------------------------
(***************************************************************************)
(* What is true of the in-process print queue for any number of enqueuing  *)
(* threads, jobs, slots, retries and faults: the invariants of PrintQueue, *)
(* the finality of verdicts and the refinement of JobLifecycle, all from   *)
(* one inductive invariant IInv.                                           *)
(***************************************************************************)
EXTENDS PrintQueue, SequenceTheorems, FiniteSetTheorems, TLAPS

\* A job nobody has started on and nothing has dropped.
Waiting(j) == status[j] = "queued" /\ handed[j] = 0 /\ j \notin lost

\* Rows not inserted yet are untouched; every open job that was not dropped
\* is with a request, in the queue or with the worker.
RowsInv ==
  \A j \in Jobs :
    /\ status[j] = "absent" => handed[j] = 0 /\ j \notin lost
    /\ Open(j) /\ j \notin lost =>
         \/ \E r \in Requests : reqJob[r] = j
         \/ InQueue(j)
         \/ wjob = j

\* A request past its INSERT holds a waiting job, which is nowhere else.
RequestsInv ==
  \A r \in Requests :
    /\ reqPC[r] \in {"put", "full"} <=> reqJob[r] # 0
    /\ reqJob[r] # 0 =>
         /\ Waiting(reqJob[r])
         /\ ~InQueue(reqJob[r])
         /\ \A s \in Requests : reqJob[s] = reqJob[r] => s = r

\* The queue holds waiting jobs, each once.
QueueInv ==
  \A i \in 1 .. Len(q) : q[i] # Stop =>
    /\ Waiting(q[i])
    /\ \A k \in 1 .. Len(q) : q[k] = q[i] => k = i

\* The worker's job is nowhere else; its status and its hand-overs follow from
\* where the worker is and from its attempts.
WorkerInv ==
  /\ wpc \in {"off", "get"} <=> wjob = 0
  /\ ~up => wpc = "off"
  /\ wpc \in {"off", "get", "start", "resolve"} => attempt = 0
  /\ wjob # 0 =>
       /\ wjob \notin lost
       /\ ~InQueue(wjob)
       /\ \A r \in Requests : reqJob[r] # wjob
       /\ status[wjob] = IF wpc = "start" THEN "queued" ELSE "printing"
       /\ handed[wjob] <= attempt + 1
       /\ wpc \in {"start", "resolve"} => handed[wjob] = 0
       /\ wpc = "send" => handed[wjob] <= attempt
       /\ wpc = "commit" => handed[wjob] > 0

\* Job k stands before job j in the queue.
Before(k, j) ==
  \E m \in 1 .. Len(q) : q[m] = k /\ \A i \in 1 .. Len(q) : q[i] = j => m < i

\* Of two jobs the earlier, as long as it waits, stands before the later one
\* in the queue or has just reached the worker, and the later one has not.
OrderInv ==
  \A j \in Jobs : \A k \in ahead[j] :
    /\ status[k] # "absent"
    /\ status[k] = "queued" /\ k \notin lost =>
         /\ status[j] \in {"queued", "error"} /\ wjob # j
         /\ wjob = k \/ Before(k, j)

\* The conjuncts of the inductive invariant that relate two pieces of state.
Safe == RowsInv /\ RequestsInv /\ QueueInv /\ WorkerInv /\ OrderInv

\* The inductive invariant.
IInv == TypeOK /\ Safe

-----------------------------------------------------------------------------
(* The queue. *)

\* Jobs are numbers, so none of them is the sentinel or the worker's 0.
LEMMA JobIsNumber == \A j \in Jobs : j \in Nat /\ j # 0 /\ j # Stop
BY PrintQueueAssumption DEF Jobs

\* Put adds an element behind all others.
LEMMA PutEffect ==
  ASSUME TypeOK, NEW x \in Jobs \cup {Stop}, Put(x)
  PROVE  /\ q' \in Seq(Jobs \cup {Stop})
         /\ Len(q) \in Nat /\ Len(q') = Len(q) + 1
         /\ \A i \in 1 .. Len(q) : q'[i] = q[i]
         /\ \A i \in 1 .. Len(q') : i \in 1 .. Len(q) \/ i = Len(q) + 1
         /\ q'[Len(q) + 1] = x
         /\ \A j : InQueue(j)' <=> InQueue(j) \/ j = x
<1>1. /\ q' \in Seq(Jobs \cup {Stop})
      /\ Len(q) \in Nat /\ Len(q') = Len(q) + 1
      /\ \A i \in 1 .. Len(q) : q'[i] = q[i]
      /\ q'[Len(q) + 1] = x
  BY AppendProperties, LenProperties DEF TypeOK, Put
<1>2. ASSUME NEW j PROVE InQueue(j)' <=> InQueue(j) \/ j = x
  <2>1. 1 .. Len(q') = (1 .. Len(q)) \cup {Len(q) + 1}
    BY <1>1
  <2> QED
    BY <1>1, <2>1 DEF InQueue
<1>3. \A i \in 1 .. Len(q') : i \in 1 .. Len(q) \/ i = Len(q) + 1
  BY <1>1
<1> QED
  BY <1>1, <1>2, <1>3

\* The worker takes the first element, and the others move up.
LEMMA TailEffect ==
  ASSUME TypeOK, q # <<>>, q' = Tail(q)
  PROVE  /\ q' \in Seq(Jobs \cup {Stop})
         /\ Len(q) \in Nat \ {0} /\ Len(q') = Len(q) - 1
         /\ \A i \in 1 .. Len(q') : q'[i] = q[i + 1]
         /\ Head(q) = q[1] /\ Head(q) \in Jobs \cup {Stop}
         /\ \A j : InQueue(j) <=> InQueue(j)' \/ j = Head(q)
<1>1. /\ q' \in Seq(Jobs \cup {Stop})
      /\ Len(q) \in Nat \ {0} /\ Len(q') = Len(q) - 1
      /\ \A i \in 1 .. Len(q') : q'[i] = q[i + 1]
      /\ Head(q) = q[1] /\ Head(q) \in Jobs \cup {Stop}
  BY HeadTailProperties, EmptySeq DEF TypeOK
<1>2. ASSUME NEW j PROVE InQueue(j) <=> InQueue(j)' \/ j = Head(q)
  <2>1. ASSUME NEW i \in 1 .. Len(q), q[i] = j PROVE InQueue(j)' \/ j = Head(q)
    <3>1. CASE i = 1
      BY <1>1, <2>1, <3>1
    <3>2. CASE i # 1
      <4>1. i - 1 \in 1 .. Len(q') /\ q'[i - 1] = j
        BY <1>1, <2>1, <3>2
      <4> QED
        BY <4>1 DEF InQueue
    <3> QED
      BY <3>1, <3>2
  <2>2. ASSUME InQueue(j)' PROVE InQueue(j)
    BY <1>1, <2>2 DEF InQueue
  <2>3. 1 \in 1 .. Len(q)
    BY <1>1
  <2> QED
    BY <1>1, <2>1, <2>2, <2>3 DEF InQueue
<1> QED
  BY <1>1, <1>2

-----------------------------------------------------------------------------
(* Steps of the enqueuing threads. *)

\* A thread that passed is_alive holds nothing yet.
LEMMA CheckAliveStep ==
  ASSUME IInv, NEW r \in Requests, CheckAlive(r)
  PROVE  IInv'
<1> USE CheckAlive(r) DEF CheckAlive, worker, process
<1>1. TypeOK'
  BY DEF IInv, TypeOK, RequestPC
<1>2. RowsInv' /\ QueueInv' /\ WorkerInv' /\ OrderInv'
  BY DEF IInv, Safe, RowsInv, QueueInv, WorkerInv, OrderInv, Before, Open, InQueue, Waiting
<1>3. RequestsInv'
  BY DEF IInv, Safe, TypeOK, RequestsInv, InQueue, Waiting
<1> QED
  BY <1>1, <1>2, <1>3 DEF IInv, Safe

\* The new row waits with its request, behind all that is in the queue.
LEMMA InsertRowStep ==
  ASSUME IInv, NEW r \in Requests, InsertRow(r)
  PROVE  IInv'
<1> USE JobIsNumber DEF IInv, Safe, TypeOK
<1>1. PICK j \in Jobs :
        /\ status[j] = "absent"
        /\ status' = [status EXCEPT ![j] = "queued"]
        /\ reqJob' = [reqJob EXCEPT ![r] = j]
        /\ ahead' = [ahead EXCEPT ![j] = {k \in Jobs : InQueue(k)}]
  BY DEF InsertRow
<1>2. /\ reqPC[r] = "alive" /\ reqPC' = [reqPC EXCEPT ![r] = "put"]
      /\ UNCHANGED <<q, wpc, wjob, attempt, stopping, up, faults, handed, lost>>
  BY DEF InsertRow, worker, process
<1>3. \A x : InQueue(x)' <=> InQueue(x)
  BY <1>2 DEF InQueue
<1>4. Waiting(j)' /\ ~InQueue(j) /\ wjob # j /\ \A s \in Requests : reqJob[s] # j
  BY <1>1, <1>2 DEF Waiting, RowsInv, RequestsInv, QueueInv, WorkerInv, InQueue
<1>5. TypeOK'
  BY <1>1, <1>2 DEF Statuses, RequestPC, Jobs
<1>6. RowsInv'
  <2> SUFFICES ASSUME NEW i \in Jobs
               PROVE  /\ status'[i] = "absent" => handed[i] = 0 /\ i \notin lost
                      /\ status'[i] \in {"queued", "printing"} /\ i \notin lost =>
                           (\E s \in Requests : reqJob'[s] = i) \/ InQueue(i) \/ wjob = i
    BY <1>2, <1>3 DEF RowsInv, Open
  <2>1. CASE i = j
    BY <1>1, <2>1
  <2>2. CASE i # j
    <3>1. reqJob[r] # i
      BY <1>2 DEF RequestsInv
    <3> QED
      BY <1>1, <2>2, <3>1 DEF RowsInv, Open
  <2> QED
    BY <2>1, <2>2
<1>7. RequestsInv'
  BY <1>1, <1>2, <1>3, <1>4 DEF RequestsInv, Waiting
<1>8. QueueInv'
  BY <1>1, <1>2, <1>4 DEF QueueInv, Waiting
<1>9. WorkerInv'
  BY <1>1, <1>2, <1>3, <1>4 DEF WorkerInv
<1>10. OrderInv'
  <2> SUFFICES ASSUME NEW i \in Jobs, NEW k \in ahead'[i]
               PROVE  /\ status'[k] # "absent"
                      /\ status'[k] = "queued" /\ k \notin lost =>
                           /\ status'[i] \in {"queued", "error"} /\ wjob # i
                           /\ wjob = k \/ Before(k, i)'
    BY <1>2 DEF OrderInv
  <2>1. CASE i = j
    <3>1. PICK m \in 1 .. Len(q) : q[m] = k
      BY <1>1, <2>1 DEF InQueue
    <3>2. Waiting(k) /\ k # j
      BY <1>1, <1>4, <3>1 DEF QueueInv, InQueue, Waiting
    <3>3. Before(k, i)'
      BY <1>2, <1>4, <2>1, <3>1 DEF InQueue, Before
    <3> QED
      BY <1>1, <1>4, <2>1, <3>2, <3>3 DEF Waiting
  <2>2. CASE i # j
    <3>1. k \in ahead[i]
      BY <1>1, <2>2
    <3>2. Before(k, i)' <=> Before(k, i)
      BY <1>2 DEF Before
    <3> QED
      BY <1>1, <2>2, <3>1, <3>2 DEF OrderInv
  <2> QED
    BY <2>1, <2>2
<1> QED
  BY <1>5, <1>6, <1>7, <1>8, <1>9, <1>10

\* The id moves from its request to the end of the queue, or stays.
LEMMA PutIdStep ==
  ASSUME IInv, NEW r \in Requests, PutId(r)
  PROVE  IInv'
<1> USE JobIsNumber DEF IInv, Safe, TypeOK
<1> DEFINE j == reqJob[r]
<1>1. /\ j \in Jobs /\ Waiting(j) /\ ~InQueue(j)
      /\ UNCHANGED <<status, wpc, wjob, attempt, stopping, up, faults, handed, lost, ahead>>
  BY DEF PutId, worker, process, RequestsInv, Jobs
<1>2. CASE /\ Put(j)
           /\ reqPC' = [reqPC EXCEPT ![r] = "idle"]
           /\ reqJob' = [reqJob EXCEPT ![r] = 0]
  <2>1. /\ q' \in Seq(Jobs \cup {Stop})
        /\ Len(q) \in Nat /\ Len(q') = Len(q) + 1
        /\ \A i \in 1 .. Len(q) : q'[i] = q[i]
        /\ \A i \in 1 .. Len(q') : i \in 1 .. Len(q) \/ i = Len(q) + 1
        /\ q'[Len(q) + 1] = j
        /\ \A x : InQueue(x)' <=> InQueue(x) \/ x = j
    BY <1>1, <1>2, PutEffect
  <2>2. TypeOK'
    BY <1>1, <1>2, <2>1, PrintQueueAssumption DEF RequestPC
  <2>3. RowsInv'
    BY <1>1, <1>2, <2>1 DEF RowsInv, Open
  <2>4. RequestsInv'
    BY <1>1, <1>2, <2>1 DEF RequestsInv, Waiting
  <2>5. QueueInv'
    <3>1. ASSUME NEW i \in 1 .. Len(q'), q'[i] # Stop PROVE Waiting(q[i])'
      <4>1. i \in 1 .. Len(q) \/ i = Len(q) + 1
        BY <2>1
      <4> QED
        BY <1>1, <2>1, <3>1, <4>1 DEF QueueInv, Waiting
    <3>2. ASSUME NEW i \in 1 .. Len(q'), q'[i] # Stop, NEW k \in 1 .. Len(q'), q'[k] = q'[i]
          PROVE  k = i
      <4>1. CASE i \in 1 .. Len(q) /\ k \in 1 .. Len(q)
        BY <2>1, <3>2, <4>1 DEF QueueInv
      <4>2. CASE i \in 1 .. Len(q) /\ k = Len(q) + 1
        BY <1>1, <2>1, <3>2, <4>2 DEF InQueue
      <4>3. CASE i = Len(q) + 1 /\ k \in 1 .. Len(q)
        BY <1>1, <2>1, <3>2, <4>3 DEF InQueue
      <4> QED
        BY <2>1, <4>1, <4>2, <4>3
    <3> QED
      BY <3>1, <3>2 DEF QueueInv
  <2>6. WorkerInv'
    BY <1>1, <1>2, <2>1 DEF WorkerInv
  <2>7. OrderInv'
    <3> SUFFICES ASSUME NEW i \in Jobs, NEW k \in ahead[i]
                 PROVE  /\ status[k] # "absent"
                        /\ status[k] = "queued" /\ k \notin lost =>
                             /\ status[i] \in {"queued", "error"} /\ wjob # i
                             /\ wjob = k \/ Before(k, i)'
      BY <1>1 DEF OrderInv
    <3>1. ASSUME NEW m \in 1 .. Len(q), q[m] = k, \A n \in 1 .. Len(q) : q[n] = i => m < n
          PROVE  /\ m \in 1 .. Len(q') /\ q'[m] = k
                 /\ \A n \in 1 .. Len(q') : q'[n] = i => m < n
      <4>1. m \in 1 .. Len(q') /\ q'[m] = k
        BY <2>1, <3>1
      <4>2. ASSUME NEW n \in 1 .. Len(q'), q'[n] = i PROVE m < n
        <5>1. CASE n \in 1 .. Len(q)
          BY <2>1, <3>1, <4>2, <5>1
        <5>2. CASE n = Len(q) + 1
          BY <2>1, <5>2
        <5> QED
          BY <2>1, <5>1, <5>2
      <4> QED
        BY <4>1, <4>2
    <3>2. Before(k, i) => Before(k, i)'
      BY <3>1 DEF Before
    <3> QED
      BY <3>2 DEF OrderInv
  <2> QED
    BY <2>2, <2>3, <2>4, <2>5, <2>6, <2>7
<1>3. CASE reqPC' = [reqPC EXCEPT ![r] = "full"] /\ q' = q /\ reqJob' = reqJob
  <2>1. TypeOK'
    BY <1>1, <1>3 DEF RequestPC
  <2>2. RowsInv' /\ WorkerInv'
    BY <1>1, <1>3 DEF RowsInv, WorkerInv, Open, InQueue
  <2>4. QueueInv' /\ OrderInv'
    BY <1>1, <1>3 DEF QueueInv, OrderInv, Before, Waiting
  <2>3. RequestsInv'
    BY <1>1, <1>3 DEF RequestsInv, Waiting, InQueue, PutId
  <2> QED
    BY <2>1, <2>2, <2>3, <2>4
<1> QED
  BY <1>2, <1>3 DEF PutId

\* A rejected job gets its verdict, and its request holds nothing any more.
LEMMA RejectFullStep ==
  ASSUME IInv, NEW r \in Requests, RejectFull(r)
  PROVE  IInv'
<1> USE JobIsNumber DEF IInv, Safe, TypeOK
<1> DEFINE j == reqJob[r]
<1>1. /\ j \in Jobs /\ Waiting(j) /\ ~InQueue(j) /\ wjob # j
      /\ \A s \in Requests : reqJob[s] = j => s = r
  BY DEF RejectFull, RequestsInv, WorkerInv, Jobs
<1>2. /\ status' = [status EXCEPT ![j] = "error"]
      /\ reqPC' = [reqPC EXCEPT ![r] = "idle"]
      /\ reqJob' = [reqJob EXCEPT ![r] = 0]
      /\ UNCHANGED <<q, wpc, wjob, attempt, stopping, up, faults, handed, lost, ahead>>
  BY DEF RejectFull, worker, process
<1>3. \A x : InQueue(x)' <=> InQueue(x)
  BY <1>2 DEF InQueue
<1>4. TypeOK'
  BY <1>1, <1>2, PrintQueueAssumption DEF Statuses, Terminal, RequestPC
<1>5. RowsInv'
  BY <1>1, <1>2, <1>3 DEF RowsInv, Open
<1>6. RequestsInv'
  BY <1>1, <1>2, <1>3 DEF RequestsInv, Waiting
<1>7. QueueInv'
  BY <1>1, <1>2 DEF QueueInv, Waiting, InQueue
<1>8. WorkerInv'
  BY <1>1, <1>2, <1>3 DEF WorkerInv
<1>9. OrderInv'
  BY <1>1, <1>2 DEF OrderInv, Before
<1> QED
  BY <1>4, <1>5, <1>6, <1>7, <1>8, <1>9

\* A rejected job whose verdict cannot be committed is dropped as it stands.
LEMMA RejectCommitFailsStep ==
  ASSUME IInv, NEW r \in Requests, RejectCommitFails(r)
  PROVE  IInv'
<1> USE JobIsNumber DEF IInv, Safe, TypeOK
<1> DEFINE j == reqJob[r]
<1>1. /\ j \in Jobs /\ Waiting(j) /\ ~InQueue(j) /\ wjob # j
      /\ \A s \in Requests : reqJob[s] = j => s = r
  BY DEF RejectCommitFails, RequestsInv, WorkerInv, Jobs
<1>2. /\ lost' = lost \cup {j}
      /\ reqPC' = [reqPC EXCEPT ![r] = "idle"]
      /\ reqJob' = [reqJob EXCEPT ![r] = 0]
      /\ UNCHANGED <<status, q, wpc, wjob, attempt, stopping, up, handed, ahead>>
      /\ faults' = faults + 1 /\ faults < MaxFaults
  BY DEF RejectCommitFails, Fault, worker, process
<1>3. \A x : InQueue(x)' <=> InQueue(x)
  BY <1>2 DEF InQueue
<1>4. TypeOK'
  BY <1>1, <1>2, PrintQueueAssumption DEF RequestPC
<1>5. RowsInv'
  BY <1>1, <1>2, <1>3 DEF RowsInv, Open, Waiting
<1>6. RequestsInv'
  BY <1>1, <1>2, <1>3 DEF RequestsInv, Waiting
<1>7. QueueInv'
  BY <1>1, <1>2 DEF QueueInv, Waiting, InQueue
<1>8. WorkerInv'
  BY <1>1, <1>2, <1>3 DEF WorkerInv
<1>9. OrderInv'
  BY <1>1, <1>2 DEF OrderInv, Before
<1> QED
  BY <1>4, <1>5, <1>6, <1>7, <1>8, <1>9

-----------------------------------------------------------------------------
(* Steps of the worker. *)

\* What the worker has at hand once it has taken a job.
LEMMA WorkerHolds ==
  ASSUME IInv, wpc \notin {"off", "get"}
  PROVE  /\ wjob \in Jobs /\ wjob \notin lost /\ ~InQueue(wjob)
         /\ \A r \in Requests : reqJob[r] # wjob
         /\ wpc # "start" => status[wjob] = "printing"
BY DEF IInv, Safe, TypeOK, WorkerInv, Jobs

\* The job at the head of the queue comes into the worker's hands, or the
\* sentinel ends the worker.
LEMMA GetStep ==
  ASSUME IInv, Get
  PROVE  IInv'
<1> DEFINE S == Jobs \cup {Stop}
<1>1. /\ wpc = "get" /\ wjob = 0 /\ attempt = 0 /\ q \in Seq(S)
      /\ \/ Head(q) = Stop /\ wpc' = "off" /\ wjob' = wjob
         \/ Head(q) # Stop /\ wpc' = "start" /\ wjob' = Head(q)
      /\ UNCHANGED <<status, reqPC, reqJob, attempt, stopping, up, faults, handed, lost, ahead>>
  BY DEF Get, IInv, Safe, TypeOK, WorkerInv, requests, process
<1>2. /\ q' \in Seq(S)
      /\ Len(q) \in Nat \ {0} /\ Len(q') = Len(q) - 1
      /\ \A i \in 1 .. Len(q') : q'[i] = q[i + 1] /\ i + 1 \in 1 .. Len(q)
      /\ Head(q) = q[1] /\ Head(q) \in S /\ 1 \in 1 .. Len(q)
      /\ \A j : InQueue(j) <=> InQueue(j)' \/ j = Head(q)
  <2>1. TypeOK /\ q # <<>> /\ q' = Tail(q)
    BY DEF Get, IInv
  <2> QED
    BY <2>1, TailEffect
<1>3. CASE Head(q) # Stop
  <2> PICK h \in Jobs : h = Head(q)
    BY <1>2, <1>3
  <2>1. /\ h \in Jobs /\ h # 0 /\ Waiting(h) /\ InQueue(h)
        /\ \A k \in 1 .. Len(q) : q[k] = h => k = 1
    BY <1>2, <1>3, JobIsNumber DEF IInv, Safe, QueueInv, InQueue
  <2>2. ~InQueue(h)' /\ \A r \in Requests : reqJob[r] # h
    <3>1. ASSUME NEW i \in 1 .. Len(q'), q'[i] = h PROVE FALSE
      <4>1. i + 1 = 1
        BY <1>2, <2>1, <3>1
      <4> QED
        BY <1>2, <4>1
    <3> QED
      BY <2>1, <3>1 DEF InQueue, IInv, Safe, RequestsInv
  <2> QED
    <3>1. TypeOK'
      BY <1>1, <1>2, <1>3, <2>1 DEF IInv, TypeOK, WorkerPC, Jobs
    <3>2. RowsInv'
      BY <1>1, <1>2, <1>3, JobIsNumber DEF IInv, Safe, RowsInv, Open
    <3>3. RequestsInv'
      BY <1>1, <1>2 DEF IInv, Safe, RequestsInv, Waiting
    <3>4. QueueInv'
      BY <1>1, <1>2 DEF IInv, Safe, QueueInv, Waiting
    <3>5. WorkerInv'
      BY <1>1, <1>2, <1>3, <2>1, <2>2 DEF IInv, Safe, WorkerInv, Waiting
    <3>6. OrderInv'
      <4> SUFFICES ASSUME NEW j \in Jobs, NEW k \in ahead[j], status[k] # "absent",
                          status[k] = "queued", k \notin lost
                   PROVE  /\ status[j] \in {"queued", "error"} /\ h # j
                          /\ h = k \/ Before(k, j)'
        BY <1>1, <1>3 DEF IInv, Safe, OrderInv
      <4>1. PICK m \in 1 .. Len(q) :
              q[m] = k /\ \A i \in 1 .. Len(q) : q[i] = j => m < i
        BY <1>1, JobIsNumber, <1>3 DEF IInv, Safe, OrderInv, Before, RowsInv, TypeOK
      <4>2. status[j] \in {"queued", "error"} /\ h # j
        BY <1>2, <4>1 DEF IInv, Safe, OrderInv, Before
      <4>3. CASE m = 1
        BY <1>2, <4>1, <4>2, <4>3
      <4>4. CASE m # 1
        <5>1. m - 1 \in 1 .. Len(q') /\ q'[m - 1] = k
          BY <1>2, <4>1, <4>4
        <5>2. ASSUME NEW i \in 1 .. Len(q'), q'[i] = j PROVE m - 1 < i
          BY <1>2, <4>1, <5>2
        <5> QED
          BY <4>2, <5>1, <5>2 DEF Before
      <4> QED
        BY <4>3, <4>4
    <3> QED
      BY <3>1, <3>2, <3>3, <3>4, <3>5, <3>6 DEF IInv, Safe
<1>4. CASE Head(q) = Stop
  <2>1. TypeOK'
    BY <1>1, <1>2, <1>4 DEF IInv, TypeOK, WorkerPC
  <2>2. RowsInv'
    BY <1>1, <1>2, <1>4, JobIsNumber DEF IInv, Safe, RowsInv, Open
  <2>3. RequestsInv'
    BY <1>1, <1>2 DEF IInv, Safe, RequestsInv, Waiting
  <2>4. QueueInv'
    BY <1>1, <1>2 DEF IInv, Safe, QueueInv, Waiting
  <2>5. WorkerInv'
    BY <1>1, <1>4 DEF IInv, Safe, WorkerInv
  <2>6. OrderInv'
    <3> SUFFICES ASSUME NEW j \in Jobs, NEW k \in ahead[j], status[k] # "absent",
                        status[k] = "queued", k \notin lost
                 PROVE  /\ status[j] \in {"queued", "error"} /\ wjob # j
                        /\ Before(k, j)'
      BY <1>1, <1>4 DEF IInv, Safe, OrderInv
    <3>1. k \in Jobs
      BY DEF IInv, TypeOK
    <3>2. PICK m \in 1 .. Len(q) :
            q[m] = k /\ \A i \in 1 .. Len(q) : q[i] = j => m < i
      BY <1>1, <3>1, JobIsNumber DEF IInv, Safe, OrderInv, Before
    <3>3. m # 1
      BY <1>2, <1>4, <3>1, <3>2, JobIsNumber
    <3>4. m - 1 \in 1 .. Len(q') /\ q'[m - 1] = k
      BY <1>2, <3>2, <3>3
    <3>5. ASSUME NEW i \in 1 .. Len(q'), q'[i] = j PROVE m - 1 < i
      BY <1>2, <3>2, <3>5
    <3> QED
      BY <1>1, <3>4, <3>5, JobIsNumber DEF IInv, Safe, OrderInv, Before
  <2> QED
    BY <2>1, <2>2, <2>3, <2>4, <2>5, <2>6 DEF IInv, Safe
<1> QED
  BY <1>3, <1>4

\* The row at hand is committed as printing.
LEMMA StartJobStep ==
  ASSUME IInv, StartJob
  PROVE  IInv'
<1>1. /\ wpc = "start" /\ wpc' = "resolve"
      /\ status' = [status EXCEPT ![wjob] = "printing"]
      /\ UNCHANGED <<q, reqPC, reqJob, wjob, attempt, stopping, up, faults, handed, lost, ahead>>
  BY DEF StartJob, requests, process
<1>2. /\ wjob \in Jobs /\ wjob \notin lost /\ ~InQueue(wjob) /\ wjob # 0
      /\ \A r \in Requests : reqJob[r] # wjob
  BY <1>1, WorkerHolds, JobIsNumber
<1>3. \A x : InQueue(x)' <=> InQueue(x)
  BY <1>1 DEF InQueue
<1>4. TypeOK'
  BY <1>1, <1>2 DEF IInv, TypeOK, Statuses, WorkerPC
<1>5. RowsInv'
  BY <1>1, <1>2, <1>3 DEF IInv, Safe, TypeOK, RowsInv, Open
<1>6. RequestsInv'
  BY <1>1, <1>2, <1>3 DEF IInv, Safe, TypeOK, RequestsInv, Waiting
<1>7. QueueInv'
  BY <1>1, <1>2 DEF IInv, Safe, TypeOK, QueueInv, Waiting, InQueue
<1>8. WorkerInv'
  BY <1>1, <1>2, <1>3 DEF IInv, Safe, TypeOK, WorkerInv
<1>9. OrderInv'
  BY <1>1, <1>2 DEF IInv, Safe, TypeOK, OrderInv, Before
<1> QED
  BY <1>4, <1>5, <1>6, <1>7, <1>8, <1>9 DEF IInv, Safe

\* The worker settles its job and is free again.
LEMMA WorkerSettles ==
  ASSUME IInv, wpc \notin {"off", "get"}, NEW v \in Terminal,
         status' = [status EXCEPT ![wjob] = v], WorkerIdle,
         UNCHANGED <<q, requests, process, handed, lost, ahead>>,
         faults' \in 0 .. MaxFaults
  PROVE  IInv'
<1>1. /\ wpc' = "get" /\ wjob' = 0 /\ attempt' = 0
      /\ UNCHANGED <<q, reqPC, reqJob, stopping, up, handed, lost, ahead>>
  BY DEF WorkerIdle, requests, process
<1>2. /\ wjob \in Jobs /\ wjob \notin lost /\ ~InQueue(wjob) /\ wjob # 0
      /\ \A r \in Requests : reqJob[r] # wjob
  BY WorkerHolds, JobIsNumber
<1>3. \A x : InQueue(x)' <=> InQueue(x)
  BY <1>1 DEF InQueue
<1>4. TypeOK'
  BY <1>1, <1>2, PrintQueueAssumption DEF IInv, TypeOK, Statuses, Terminal, WorkerPC
<1>5. RowsInv'
  BY <1>1, <1>2, <1>3 DEF IInv, Safe, TypeOK, RowsInv, Open, Terminal
<1>6. RequestsInv'
  BY <1>1, <1>2, <1>3 DEF IInv, Safe, TypeOK, RequestsInv, Waiting
<1>7. QueueInv'
  BY <1>1, <1>2 DEF IInv, Safe, TypeOK, QueueInv, Waiting, InQueue
<1>8. WorkerInv'
  BY <1>1 DEF IInv, Safe, WorkerInv
<1>9. OrderInv'
  BY <1>1, <1>2, JobIsNumber DEF IInv, Safe, TypeOK, OrderInv, Before, Terminal
<1> QED
  BY <1>4, <1>5, <1>6, <1>7, <1>8, <1>9 DEF IInv, Safe

\* _resolve_product finds the product, or the job is settled as an error.
LEMMA ResolveProductStep ==
  ASSUME IInv, ResolveProduct
  PROVE  IInv'
<1>1. wpc = "resolve" /\ UNCHANGED <<q, requests, process, faults, handed, lost, ahead>>
  BY DEF ResolveProduct
<1>2. CASE status' = [status EXCEPT ![wjob] = "error"] /\ WorkerIdle
  <2>1. faults' \in 0 .. MaxFaults
    BY <1>1 DEF IInv, TypeOK
  <2> QED
    BY <1>1, <1>2, <2>1, WorkerSettles DEF Terminal
<1>3. CASE wpc' = "send" /\ UNCHANGED <<status, wjob, attempt>>
  <2>1. UNCHANGED <<status, q, reqPC, reqJob, wjob, attempt, stopping, up, faults, handed, lost, ahead>>
    BY <1>1, <1>3 DEF requests, process
  <2>2. TypeOK'
    BY <1>3, <2>1 DEF IInv, TypeOK, WorkerPC
  <2>3. RowsInv' /\ RequestsInv' /\ QueueInv'
    BY <2>1 DEF IInv, Safe, RowsInv, RequestsInv, QueueInv, Open, InQueue, Waiting
  <2>4. WorkerInv'
    BY <1>1, <1>3, <2>1 DEF IInv, Safe, TypeOK, WorkerInv, InQueue
  <2>5. OrderInv'
    BY <2>1 DEF IInv, Safe, OrderInv, Before
  <2> QED
    BY <2>2, <2>3, <2>4, <2>5 DEF IInv, Safe
<1> QED
  BY <1>2, <1>3 DEF ResolveProduct

\* One attempt at the transport: at most one hand-over more, and only of the job at
\* hand; a retry counts an attempt.
LEMMA SendEffect ==
  ASSUME IInv, Send
  PROVE  /\ wjob \in Jobs /\ status[wjob] = "printing"
         /\ UNCHANGED <<status, q, reqPC, reqJob, wjob, stopping, up, faults, lost, ahead>>
         /\ handed' \in [Jobs -> 0 .. (MaxRetries + 1)]
         /\ \A j \in Jobs : j # wjob => handed'[j] = handed[j]
         /\ handed'[wjob] >= handed[wjob] /\ handed'[wjob] <= attempt + 1
         /\ \/ wpc' = "commit" /\ attempt' = attempt /\ handed'[wjob] > 0
            \/ wpc' = "send" /\ attempt' = attempt + 1 /\ attempt < MaxRetries
            \/ wpc' = "fail" /\ attempt' = attempt
<1>1. /\ wpc = "send"
      /\ UNCHANGED <<status, q, reqPC, reqJob, wjob, stopping, up, faults, lost, ahead>>
      /\ \/ HandOver /\ wpc' = "commit" /\ attempt' = attempt
         \/ /\ HandOver \/ handed' = handed
            /\ \/ wpc' = "send" /\ attempt' = attempt + 1 /\ attempt < MaxRetries
               \/ wpc' = "fail" /\ attempt' = attempt
  BY DEF Send, Retry, requests, process
<1>2. /\ wjob \in Jobs /\ status[wjob] = "printing" /\ wjob # 0
  BY <1>1, WorkerHolds, JobIsNumber
<1>3. /\ handed \in [Jobs -> 0 .. (MaxRetries + 1)]
      /\ handed[wjob] \in Nat /\ attempt \in 0 .. MaxRetries /\ handed[wjob] <= attempt
  BY <1>1, <1>2, PrintQueueAssumption DEF IInv, Safe, TypeOK, WorkerInv
<1>4. CASE HandOver
  <2>1. handed[wjob] + 1 \in 0 .. (MaxRetries + 1)
    BY <1>3, PrintQueueAssumption
  <2>2. /\ handed' \in [Jobs -> 0 .. (MaxRetries + 1)]
        /\ handed'[wjob] = handed[wjob] + 1
        /\ \A j \in Jobs : j # wjob => handed'[j] = handed[j]
    BY <1>2, <1>3, <1>4, <2>1 DEF HandOver
  <2> QED
    BY <1>1, <1>2, <1>3, <2>2
<1>5. CASE handed' = handed
  <2>1. wpc' = "commit" => HandOver
    BY <1>1
  <2> QED
    BY <1>1, <1>2, <1>3, <1>4, <1>5, <2>1
<1> QED
  BY <1>1, <1>4, <1>5

\* The hand-overs of the job at hand stay within the attempts.
LEMMA SendStep ==
  ASSUME IInv, Send
  PROVE  IInv'
<1>1. /\ wjob \in Jobs /\ status[wjob] = "printing"
      /\ UNCHANGED <<status, q, reqPC, reqJob, wjob, stopping, up, faults, lost, ahead>>
      /\ handed' \in [Jobs -> 0 .. (MaxRetries + 1)]
      /\ \A j \in Jobs : j # wjob => handed'[j] = handed[j]
      /\ handed'[wjob] >= handed[wjob] /\ handed'[wjob] <= attempt + 1
      /\ \/ wpc' = "commit" /\ attempt' = attempt /\ handed'[wjob] > 0
         \/ wpc' = "send" /\ attempt' = attempt + 1 /\ attempt < MaxRetries
         \/ wpc' = "fail" /\ attempt' = attempt
  BY SendEffect
<1>2. wpc = "send" /\ attempt \in 0 .. MaxRetries /\ handed'[wjob] \in Nat
  BY <1>1, PrintQueueAssumption DEF Send, IInv, TypeOK
<1>3. TypeOK'
  BY <1>1, <1>2, PrintQueueAssumption DEF IInv, TypeOK, WorkerPC
<1>4. \A x : InQueue(x)' <=> InQueue(x)
  BY <1>1 DEF InQueue
<1>5. RowsInv'
  BY <1>1, <1>4 DEF IInv, Safe, RowsInv, Open
<1>6. RequestsInv' /\ QueueInv'
  <2>1. \A x \in Jobs : Waiting(x) => Waiting(x)'
    BY <1>1 DEF Waiting
  <2>2. \A r \in Requests : reqJob[r] # 0 => reqJob[r] \in Jobs
    BY DEF IInv, TypeOK, Jobs
  <2>3. \A i \in 1 .. Len(q) : q[i] # Stop => q[i] \in Jobs
    BY LenProperties DEF IInv, TypeOK
  <2> QED
    BY <1>1, <1>4, <2>1, <2>2, <2>3 DEF IInv, Safe, RequestsInv, QueueInv, Waiting
<1>7. WorkerInv'
  BY <1>1, <1>2, <1>4 DEF IInv, Safe, WorkerInv
<1>8. OrderInv'
  BY <1>1 DEF IInv, Safe, OrderInv, Before
<1> QED
  BY <1>3, <1>5, <1>6, <1>7, <1>8 DEF IInv, Safe

-----------------------------------------------------------------------------
(* Steps of the process. *)

\* stop() adds at most the sentinel.
LEMMA StopWorkerStep ==
  ASSUME IInv, StopWorker
  PROVE  IInv'
<1>1. /\ UNCHANGED <<status, reqPC, reqJob, wpc, wjob, attempt, up, faults, handed, lost, ahead>>
      /\ up /\ stopping' = TRUE
      /\ Put(Stop) \/ q' = q
  BY DEF StopWorker, requests, worker
<1>2. CASE q' = q
  <2>1. TypeOK'
    BY <1>1, <1>2 DEF IInv, TypeOK
  <2>2. RowsInv' /\ RequestsInv' /\ QueueInv' /\ WorkerInv'
    BY <1>1, <1>2
    DEF IInv, Safe, RowsInv, RequestsInv, QueueInv, WorkerInv, Open, InQueue, Waiting
  <2>3. OrderInv'
    BY <1>1, <1>2 DEF IInv, Safe, OrderInv, Before
  <2> QED
    BY <2>1, <2>2, <2>3 DEF IInv, Safe
<1>3. CASE Put(Stop)
  <2>1. /\ q' \in Seq(Jobs \cup {Stop})
        /\ Len(q) \in Nat /\ Len(q') = Len(q) + 1
        /\ \A i \in 1 .. Len(q) : q'[i] = q[i]
        /\ \A i \in 1 .. Len(q') : i \in 1 .. Len(q) \/ i = Len(q) + 1
        /\ q'[Len(q) + 1] = Stop
        /\ \A x : InQueue(x)' <=> InQueue(x) \/ x = Stop
    BY <1>3, PutEffect DEF IInv
  <2>2. TypeOK'
    BY <1>1, <2>1 DEF IInv, TypeOK
  <2>3. RowsInv'
    BY <1>1, <2>1 DEF IInv, Safe, RowsInv, Open
  <2>4. RequestsInv'
    <3>1. \A r \in Requests : reqJob[r] # Stop
      BY PrintQueueAssumption DEF IInv, TypeOK
    <3> QED
      BY <1>1, <2>1, <3>1 DEF IInv, Safe, RequestsInv, Waiting
  <2>5. QueueInv'
    <3>1. \A i \in 1 .. Len(q') : q'[i] # Stop => i \in 1 .. Len(q)
      BY <2>1
    <3> QED
      BY <1>1, <2>1, <3>1 DEF IInv, Safe, QueueInv, Waiting
  <2>6. WorkerInv'
    <3>1. wjob # Stop
      BY PrintQueueAssumption DEF IInv, TypeOK
    <3> QED
      BY <1>1, <2>1, <3>1 DEF IInv, Safe, WorkerInv
  <2>7. OrderInv'
    <3>1. \A j \in Jobs : \A i \in 1 .. Len(q') : q'[i] = j => i \in 1 .. Len(q)
      BY <2>1, JobIsNumber
    <3>2. \A m \in 1 .. Len(q) : m \in 1 .. Len(q')
      BY <2>1
    <3> QED
      BY <1>1, <2>1, <3>1, <3>2 DEF IInv, Safe, OrderInv, Before
  <2> QED
    BY <2>2, <2>3, <2>4, <2>5, <2>6, <2>7 DEF IInv, Safe
<1> QED
  BY <1>1, <1>2, <1>3

\* Everything in memory is gone and every open job counts as dropped.
LEMMA ExitStep ==
  ASSUME IInv, Exit, faults' \in 0 .. MaxFaults
  PROVE  IInv'
<1>1. /\ up' = FALSE /\ stopping' = FALSE /\ q' = <<>>
      /\ wpc' = "off" /\ wjob' = 0 /\ attempt' = 0
      /\ reqPC' = [r \in Requests |-> "idle"]
      /\ reqJob' = [r \in Requests |-> 0]
      /\ lost' = lost \cup {j \in Jobs : Open(j)}
      /\ status' = status /\ handed' = handed /\ ahead' = ahead
  BY DEF Exit
<1>2. q' \in Seq(Jobs \cup {Stop}) /\ 1 .. Len(q') = {}
  BY <1>1, EmptySeq
<1>3. TypeOK'
  <2>1. 0 \in 0 .. MaxJobs /\ 0 \in 0 .. MaxRetries
    BY PrintQueueAssumption
  <2>2. reqJob' \in [Requests -> 0 .. MaxJobs]
    BY <1>1, <2>1
  <2>3. lost' \in SUBSET Jobs
    BY <1>1 DEF IInv, TypeOK
  <2> QED
    BY <1>1, <1>2, <2>1, <2>2, <2>3 DEF IInv, TypeOK, RequestPC, WorkerPC
<1>4. RowsInv'
  BY <1>1 DEF IInv, Safe, TypeOK, RowsInv, Open
<1>5. RequestsInv' /\ QueueInv' /\ WorkerInv'
  BY <1>1, <1>2 DEF RequestsInv, QueueInv, WorkerInv
<1>6. OrderInv'
  BY <1>1 DEF IInv, Safe, TypeOK, OrderInv, Before, Open
<1> QED
  BY <1>3, <1>4, <1>5, <1>6 DEF IInv, Safe

\* A new process starts a worker with nothing at hand.
LEMMA BootStep ==
  ASSUME IInv, Boot
  PROVE  IInv'
<1>1. /\ ~up /\ up' = TRUE /\ wpc' = "get"
      /\ UNCHANGED <<status, q, reqPC, reqJob, wjob, attempt, stopping, faults, handed, lost, ahead>>
  BY DEF Boot, requests
<1>2. wpc = "off" /\ wjob = 0 /\ attempt = 0
  BY <1>1 DEF IInv, Safe, WorkerInv
<1>3. TypeOK'
  BY <1>1 DEF IInv, TypeOK, WorkerPC
<1>4. RowsInv' /\ RequestsInv' /\ QueueInv'
  BY <1>1 DEF IInv, Safe, RowsInv, RequestsInv, QueueInv, Open, InQueue, Waiting
<1>5. WorkerInv'
  BY <1>1, <1>2 DEF WorkerInv
<1>6. OrderInv'
  BY <1>1 DEF IInv, Safe, OrderInv, Before
<1> QED
  BY <1>3, <1>4, <1>5, <1>6 DEF IInv, Safe

\* The worker drops its job, whose row stays as it stands, or settles it.
LEMMA WorkerCommitFailsStep ==
  ASSUME IInv, WorkerCommitFails
  PROVE  IInv'
<1>1. /\ wpc \notin {"off", "get"} /\ WorkerIdle
      /\ UNCHANGED <<q, requests, process, handed, ahead>>
      /\ faults' \in 0 .. MaxFaults
  BY PrintQueueAssumption DEF WorkerCommitFails, Fault, IInv, TypeOK
<1>2. CASE status' = [status EXCEPT ![wjob] = "error"] /\ lost' = lost
  BY <1>1, <1>2, WorkerSettles DEF Terminal
<1>3. CASE lost' = lost \cup {wjob} /\ status' = status
  <2>1. /\ wpc' = "get" /\ wjob' = 0 /\ attempt' = 0
        /\ UNCHANGED <<q, reqPC, reqJob, stopping, up, handed, status, ahead>>
    BY <1>1, <1>3 DEF WorkerIdle, requests, process
  <2>2. /\ wjob \in Jobs /\ wjob \notin lost /\ ~InQueue(wjob) /\ wjob # 0
        /\ \A r \in Requests : reqJob[r] # wjob
        /\ status[wjob] # "absent"
    BY <1>1, WorkerHolds, JobIsNumber DEF IInv, Safe, WorkerInv
  <2>3. \A x : InQueue(x)' <=> InQueue(x)
    BY <2>1 DEF InQueue
  <2>4. TypeOK'
    BY <1>1, <1>3, <2>1, <2>2, PrintQueueAssumption DEF IInv, TypeOK, WorkerPC
  <2>5. RowsInv'
    BY <1>3, <2>1, <2>2, <2>3 DEF IInv, Safe, RowsInv, Open
  <2>6. RequestsInv'
    BY <1>3, <2>1, <2>2, <2>3 DEF IInv, Safe, RequestsInv, Waiting
  <2>7. QueueInv'
    BY <1>3, <2>1, <2>2 DEF IInv, Safe, QueueInv, Waiting, InQueue
  <2>8. WorkerInv'
    BY <1>1, <2>1 DEF IInv, Safe, WorkerInv
  <2>9. OrderInv'
    BY <1>3, <2>1, <2>2, JobIsNumber DEF IInv, Safe, OrderInv, Before
  <2> QED
    BY <2>4, <2>5, <2>6, <2>7, <2>8, <2>9 DEF IInv, Safe
<1> QED
  BY <1>2, <1>3 DEF WorkerCommitFails

-----------------------------------------------------------------------------
(* The theorems. *)

\* The invariant holds initially.
LEMMA InitInv == Init => IInv
<1> SUFFICES ASSUME Init PROVE IInv
  OBVIOUS
<1> USE DEF Init
<1>1. q \in Seq(Jobs \cup {Stop}) /\ 1 .. Len(q) = {}
  BY EmptySeq
<1>2. TypeOK
  <2>1. /\ 0 \in 0 .. MaxJobs /\ 0 \in 0 .. MaxRetries /\ 0 \in 0 .. MaxFaults
        /\ 0 \in 0 .. (MaxRetries + 1)
    BY PrintQueueAssumption
  <2>2. /\ reqJob \in [Requests -> 0 .. MaxJobs]
        /\ handed \in [Jobs -> 0 .. (MaxRetries + 1)]
    BY <2>1
  <2>3. ahead \in [Jobs -> SUBSET Jobs]
    OBVIOUS
  <2> QED
    BY <1>1, <2>1, <2>2, <2>3 DEF TypeOK, Statuses, RequestPC, WorkerPC
<1>3. RowsInv /\ RequestsInv /\ QueueInv /\ WorkerInv /\ OrderInv
  BY <1>1 DEF RowsInv, RequestsInv, QueueInv, WorkerInv, OrderInv, Before, Open
<1> QED
  BY <1>2, <1>3 DEF IInv, Safe

\* Every step of the queue, its threads and its process keeps the invariant.
LEMMA NextInv == IInv /\ [Next]_vars => IInv'
<1> SUFFICES ASSUME IInv, [Next]_vars PROVE IInv'
  OBVIOUS
<1>1. ASSUME NEW r \in Requests, Request(r) \/ RejectCommitFails(r) PROVE IInv'
  BY <1>1, CheckAliveStep, InsertRowStep, PutIdStep, RejectFullStep, RejectCommitFailsStep
  DEF Request
<1>2. CASE Work
  <2>1. CASE CommitDone
    <3>1. faults' \in 0 .. MaxFaults
      BY <2>1 DEF CommitDone, IInv, TypeOK
    <3> QED
      BY <2>1, <3>1, WorkerSettles DEF CommitDone, Terminal
  <2>2. CASE CommitError
    <3>1. faults' \in 0 .. MaxFaults
      BY <2>2 DEF CommitError, IInv, TypeOK
    <3> QED
      BY <2>2, <3>1, WorkerSettles DEF CommitError, Terminal
  <2> QED
    BY <1>2, <2>1, <2>2, GetStep, StartJobStep, ResolveProductStep, SendStep DEF Work
<1>3. CASE Shutdown \/ Crash
  <2>1. Exit /\ faults' \in 0 .. MaxFaults
    BY <1>3, PrintQueueAssumption DEF Shutdown, Crash, Fault, IInv, TypeOK
  <2> QED
    BY <2>1, ExitStep
<1>4. CASE UNCHANGED vars
  <2>1. TypeOK'
    BY <1>4 DEF vars, IInv, TypeOK
  <2>2. RowsInv' /\ RequestsInv' /\ QueueInv' /\ WorkerInv'
    BY <1>4
    DEF vars, IInv, Safe, RowsInv, RequestsInv, QueueInv, WorkerInv, Open, InQueue, Waiting
  <2>3. OrderInv'
    BY <1>4 DEF vars, IInv, Safe, OrderInv, Before
  <2> QED
    BY <2>1, <2>2, <2>3 DEF IInv, Safe
<1> QED
  BY <1>1, <1>2, <1>3, <1>4, StopWorkerStep, BootStep, WorkerCommitFailsStep DEF Next

\* The invariant holds at all times.
LEMMA Inductive == Spec => []IInv
BY InitInv, NextInv, PTL DEF Spec

\* Every variable keeps its type, for any capacity and number of retries; in
\* particular the transport takes a job at most max_retries + 1 times.
THEOREM TypeCorrect == Spec => []TypeOK
BY Inductive, PTL DEF IInv

\* At most one job the process still works on is printing: its worker's.
THEOREM OneJobAtATime == Spec => []OneJobPrinting
<1>1. IInv => OneJobPrinting
  <2> SUFFICES ASSUME IInv, NEW j \in Jobs, j \notin lost, status[j] = "printing"
               PROVE  j = wjob
    BY DEF OneJobPrinting
  <2>1. ASSUME NEW r \in Requests PROVE reqJob[r] # j
    BY JobIsNumber DEF IInv, Safe, RequestsInv, Waiting
  <2>2. ~InQueue(j)
    BY JobIsNumber DEF IInv, Safe, QueueInv, Waiting, InQueue
  <2> QED
    BY <2>1, <2>2 DEF IInv, Safe, RowsInv, Open
<1> QED
  BY <1>1, Inductive, PTL

\* Every open job that nothing dropped is in exactly one place.
THEOREM JobsAreTracked == Spec => []OpenJobsAreTracked
<1>1. IInv => OpenJobsAreTracked
  <2> SUFFICES ASSUME IInv, NEW j \in Jobs, Open(j), j \notin lost
               PROVE  Cardinality({r \in Requests : reqJob[r] = j})
                        + Cardinality({i \in 1 .. Len(q) : q[i] = j})
                        + (IF wjob = j THEN 1 ELSE 0) = 1
    BY DEF OpenJobsAreTracked
  <2> DEFINE R == {r \in Requests : reqJob[r] = j}
             P == {i \in 1 .. Len(q) : q[i] = j}
  <2>1. CASE \E r \in Requests : reqJob[r] = j
    <3>1. PICK r \in Requests : reqJob[r] = j
      BY <2>1
    <3>2. R = {r} /\ P = {} /\ wjob # j
      BY <3>1, JobIsNumber DEF IInv, Safe, RequestsInv, WorkerInv, InQueue
    <3>3. Cardinality(R) = 1 /\ Cardinality(P) = 0
      BY <3>2, FS_Singleton, FS_EmptySet
    <3> QED
      BY <3>2, <3>3
  <2>2. CASE InQueue(j)
    <3>1. PICK i \in 1 .. Len(q) : q[i] = j
      BY <2>2 DEF InQueue
    <3>2. R = {} /\ wjob # j
      BY <2>2, JobIsNumber DEF IInv, Safe, RequestsInv, WorkerInv
    <3>3. P = {i}
      BY <3>1, JobIsNumber DEF IInv, Safe, QueueInv
    <3>4. Cardinality(R) = 0 /\ Cardinality(P) = 1
      BY <3>2, <3>3, FS_Singleton, FS_EmptySet
    <3> QED
      BY <3>2, <3>4
  <2>3. CASE wjob = j
    <3>1. R = {} /\ P = {}
      BY <2>3, JobIsNumber DEF IInv, Safe, WorkerInv, InQueue
    <3>2. Cardinality(R) = 0 /\ Cardinality(P) = 0
      BY <3>1, FS_EmptySet
    <3> QED
      BY <2>3, <3>2
  <2> QED
    BY <2>1, <2>2, <2>3 DEF IInv, Safe, RowsInv
<1> QED
  BY <1>1, Inductive, PTL

\* A job is taken after those that were in the queue when its row was inserted,
\* whatever the threads, exits and failures.
THEOREM PrintsInOrder == Spec => []SubmissionOrder
<1>1. IInv => SubmissionOrder
  BY DEF IInv, Safe, OrderInv, Before, SubmissionOrder
<1> QED
  BY <1>1, Inductive, PTL

-----------------------------------------------------------------------------
(* The lifecycle of a row. *)

\* What one step may do to the rows and hand-overs: a row is inserted, the
\* worker takes a waiting job, its job is handed over, or an open job
\* gets its verdict, "done" only after a hand-over.
RowStep ==
  \/ UNCHANGED <<status, handed>>
  \/ \E j \in Jobs :
       /\ status[j] = "absent"
       /\ status' = [status EXCEPT ![j] = "queued"] /\ handed' = handed
  \/ \E j \in Jobs :
       /\ status[j] = "queued"
       /\ status' = [status EXCEPT ![j] = "printing"] /\ handed' = handed
  \/ \E j \in Jobs :
       /\ status[j] = "printing" /\ status' = status
       /\ handed' \in [Jobs -> 0 .. (MaxRetries + 1)]
       /\ handed'[j] >= handed[j]
       /\ \A k \in Jobs : k # j => handed'[k] = handed[k]
  \/ \E j \in Jobs, v \in Terminal :
       /\ status[j] = "printing" \/ (status[j] = "queued" /\ v = "error")
       /\ v = "done" => handed[j] > 0
       /\ status' = [status EXCEPT ![j] = v] /\ handed' = handed

\* Every step of the queue, its threads and its process does one of these.
LEMMA StepEffect == ASSUME IInv, [Next]_vars PROVE RowStep
<1> USE DEF RowStep
<1>1. ASSUME NEW r \in Requests, Request(r) \/ RejectCommitFails(r) PROVE RowStep
  <2>1. CASE InsertRow(r)
    BY <2>1 DEF InsertRow
  <2>2. CASE RejectFull(r)
    <3>1. reqJob[r] \in Jobs /\ status[reqJob[r]] = "queued"
      BY <2>2 DEF RejectFull, IInv, Safe, TypeOK, RequestsInv, Waiting, Jobs
    <3> QED
      BY <2>2, <3>1 DEF RejectFull, Terminal
  <2>3. CASE CheckAlive(r) \/ PutId(r) \/ RejectCommitFails(r)
    BY <2>3 DEF CheckAlive, PutId, RejectCommitFails
  <2> QED
    BY <1>1, <2>1, <2>2, <2>3 DEF Request
<1>2. CASE Work
  <2>1. CASE Get
    BY <2>1 DEF Get
  <2>2. CASE StartJob
    <3>1. wjob \in Jobs /\ status[wjob] = "queued"
      BY <2>2, WorkerHolds DEF StartJob, IInv, Safe, WorkerInv
    <3> QED
      BY <2>2, <3>1 DEF StartJob
  <2>3. CASE ResolveProduct
    <3>1. wjob \in Jobs /\ status[wjob] = "printing"
      BY <2>3, WorkerHolds DEF ResolveProduct
    <3> QED
      BY <2>3, <3>1 DEF ResolveProduct, Terminal
  <2>4. CASE Send
    BY <2>4, SendEffect
  <2>5. CASE CommitDone
    <3>1. wjob \in Jobs /\ status[wjob] = "printing" /\ handed[wjob] > 0
      BY <2>5, WorkerHolds, JobIsNumber DEF CommitDone, IInv, Safe, WorkerInv
    <3>2. status' = [status EXCEPT ![wjob] = "done"] /\ handed' = handed
      BY <2>5 DEF CommitDone
    <3> QED
      BY <3>1, <3>2 DEF Terminal
  <2>6. CASE CommitError
    <3>1. wjob \in Jobs /\ status[wjob] = "printing"
      BY <2>6, WorkerHolds DEF CommitError
    <3> QED
      BY <2>6, <3>1 DEF CommitError, Terminal
  <2> QED
    BY <1>2, <2>1, <2>2, <2>3, <2>4, <2>5, <2>6 DEF Work
<1>3. CASE WorkerCommitFails
  <2>1. CASE status' = status
    BY <1>3, <2>1 DEF WorkerCommitFails
  <2>2. CASE wpc = "commit" /\ status' = [status EXCEPT ![wjob] = "error"]
    <3>1. wjob \in Jobs /\ status[wjob] = "printing"
      BY <2>2, WorkerHolds
    <3> QED
      BY <1>3, <2>2, <3>1 DEF WorkerCommitFails, Terminal
  <2> QED
    BY <1>3, <2>1, <2>2 DEF WorkerCommitFails
<1>4. CASE StopWorker \/ Shutdown \/ Crash \/ Boot \/ UNCHANGED vars
  BY <1>4 DEF StopWorker, Shutdown, Crash, Exit, Boot, vars
<1> QED
  BY <1>1, <1>2, <1>3, <1>4 DEF Next

\* A job that already has a verdict is not handed over again, and the verdict
\* stays: a job answered with "busy" is never sent to the transport later.
THEOREM VerdictsAreFinal == Spec => NothingSentAfterVerdict
<1>1. IInv /\ [Next]_vars =>
        \A j \in Jobs : status[j] \in Terminal =>
          handed'[j] = handed[j] /\ status'[j] = status[j]
  <2> SUFFICES ASSUME IInv, [Next]_vars, NEW j \in Jobs, status[j] \in Terminal
               PROVE  handed'[j] = handed[j] /\ status'[j] = status[j]
    OBVIOUS
  <2> QED
    BY StepEffect DEF RowStep, Terminal, IInv, TypeOK
<1> QED
  BY <1>1, Inductive, PTL DEF Spec, NothingSentAfterVerdict

\* The rows of the queue follow the lifecycle with final verdicts.
THEOREM Refinement == Spec => ImplementsLifecycle
<1>1. Init => Lifecycle!Init
  <2> SUFFICES ASSUME Init PROVE Lifecycle!Init
    OBVIOUS
  <2>1. \A j \in Jobs : (handed[j] > 0) = FALSE
    BY DEF Init
  <2>2. [j \in Jobs |-> handed[j] > 0] = [j \in Jobs |-> FALSE]
    BY <2>1
  <2> QED
    BY <2>2 DEF Init, Lifecycle!Init
<1>2. IInv /\ [Next]_vars => [Lifecycle!Next]_(Lifecycle!vars)
  <2> DEFINE handedOver == [j \in Jobs |-> handed[j] > 0]
             Step == Lifecycle!Next \/ UNCHANGED <<status, handedOver>>
  <2> SUFFICES ASSUME IInv, [Next]_vars PROVE Step
    BY DEF Lifecycle!vars
  <2>1. CASE UNCHANGED <<status, handed>>
    BY <2>1
  <2>2. ASSUME NEW j \in Jobs, status[j] = "absent", handed' = handed,
               status' = [status EXCEPT ![j] = "queued"]
        PROVE  Step
    <3>1. Lifecycle!Submit(j)
      BY <2>2 DEF Lifecycle!Submit
    <3> QED
      BY <3>1 DEF Lifecycle!Next
  <2>3. ASSUME NEW j \in Jobs, status[j] = "queued", handed' = handed,
               status' = [status EXCEPT ![j] = "printing"]
        PROVE  Step
    <3>1. Lifecycle!Take(j)
      BY <2>3 DEF Lifecycle!Take
    <3> QED
      BY <3>1 DEF Lifecycle!Next
  <2>4. ASSUME NEW j \in Jobs, status[j] = "printing", status' = status,
               handed' \in [Jobs -> 0 .. (MaxRetries + 1)],
               handed'[j] >= handed[j],
               \A k \in Jobs : k # j => handed'[k] = handed[k]
        PROVE  Step
    <3>1. handed \in [Jobs -> Nat] /\ handed' \in [Jobs -> Nat]
      BY <2>4, PrintQueueAssumption DEF IInv, TypeOK
    <3>2. CASE handed'[j] > 0
      <4>1. Lifecycle!HandOver(j)
        BY <2>4, <3>1, <3>2 DEF Lifecycle!HandOver
      <4> QED
        BY <4>1 DEF Lifecycle!Next
    <3>3. CASE handed'[j] = 0
      <4>1. \A k \in Jobs : handed'[k] = handed[k]
        BY <2>4, <3>1, <3>3
      <4>2. handed' = handed
        BY <3>1, <4>1
      <4> QED
        BY <2>4, <4>2
    <3> QED
      BY <3>1, <3>2, <3>3
  <2>5. ASSUME NEW j \in Jobs, NEW v \in Terminal,
               status[j] = "printing" \/ (status[j] = "queued" /\ v = "error"),
               v = "done" => handed[j] > 0,
               status' = [status EXCEPT ![j] = v], handed' = handed
        PROVE  Step
    <3>1. Lifecycle!Settle(j, v)
      BY <2>5 DEF Lifecycle!Settle
    <3> QED
      BY <3>1 DEF Lifecycle!Next, Lifecycle!Verdicts, Terminal
  <2> HIDE DEF Step
  <2> QED
    BY <2>1, <2>2, <2>3, <2>4, <2>5, StepEffect DEF RowStep
<1> QED
  BY <1>1, <1>2, Inductive, PTL DEF Spec, ImplementsLifecycle, Lifecycle!Spec

-----------------------------------------------------------------------------
(* What the lifecycle promises, whatever implements it.                     *)

\* In the lifecycle a job shown as done was handed over.
LEMMA LifecyclePromise == Lifecycle!Spec => [](Lifecycle!TypeOK /\ Lifecycle!DoneMeansHandedOver)
<1> DEFINE Inv == Lifecycle!TypeOK /\ Lifecycle!DoneMeansHandedOver
<1>1. Lifecycle!Init => Inv
  BY DEF Lifecycle!Init, Lifecycle!TypeOK, Lifecycle!DoneMeansHandedOver
<1>2. Inv /\ [Lifecycle!Next]_(Lifecycle!vars) => Inv'
  <2> SUFFICES ASSUME Inv, [Lifecycle!Next]_(Lifecycle!vars) PROVE Inv'
    OBVIOUS
  <2> USE DEF Lifecycle!TypeOK, Lifecycle!DoneMeansHandedOver, Lifecycle!Submitted, Lifecycle!Verdicts
  <2>1. ASSUME NEW j \in Jobs, Lifecycle!Submit(j) \/ Lifecycle!Take(j) PROVE Inv'
    BY <2>1 DEF Lifecycle!Submit, Lifecycle!Take
  <2>2. ASSUME NEW j \in Jobs, Lifecycle!HandOver(j) PROVE Inv'
    BY <2>2 DEF Lifecycle!HandOver
  <2>3. ASSUME NEW j \in Jobs, NEW v \in Lifecycle!Verdicts, Lifecycle!Settle(j, v) PROVE Inv'
    BY <2>3 DEF Lifecycle!Settle
  <2>4. ASSUME NEW S \in SUBSET Jobs, Lifecycle!PutBack(S) PROVE Inv'
    BY <2>4 DEF Lifecycle!PutBack
  <2>5. CASE UNCHANGED Lifecycle!vars
    BY <2>5 DEF Lifecycle!vars
  <2> QED
    BY <2>1, <2>2, <2>3, <2>4, <2>5 DEF Lifecycle!Next
<1> QED
  BY <1>1, <1>2, PTL DEF Lifecycle!Spec

\* In the lifecycle without timeouts a verdict is final, and nothing is handed
\* over after it.
LEMMA LifecycleVerdicts == Lifecycle!Spec => Lifecycle!VerdictIsFinal
<1> DEFINE handedOver == [j \in Jobs |-> handed[j] > 0]
<1>1. Lifecycle!TypeOK /\ [Lifecycle!Next]_(Lifecycle!vars) =>
        [Lifecycle!KeepsVerdicts]_(Lifecycle!vars)
  <2> SUFFICES ASSUME Lifecycle!TypeOK, Lifecycle!Next, NEW j \in Jobs, status[j] \in Lifecycle!Verdicts
               PROVE  status'[j] = status[j] /\ handedOver'[j] = handedOver[j]
    BY DEF Lifecycle!KeepsVerdicts
  <2> USE DEF Lifecycle!TypeOK, Lifecycle!Verdicts
  <2>1. ASSUME NEW k \in Jobs, Lifecycle!Submit(k) \/ Lifecycle!Take(k) \/ Lifecycle!HandOver(k) PROVE j # k
    BY <2>1 DEF Lifecycle!Submit, Lifecycle!Take, Lifecycle!HandOver
  <2>2. ASSUME NEW k \in Jobs, NEW v \in Lifecycle!Verdicts, Lifecycle!Settle(k, v) PROVE j # k
    BY <2>2 DEF Lifecycle!Settle
  <2>3. ~ \E S \in SUBSET Jobs : Lifecycle!PutBack(S)
    BY DEF Lifecycle!PutBack
  <2> QED
    BY <2>1, <2>2, <2>3 DEF Lifecycle!Next, Lifecycle!Submit, Lifecycle!Take, Lifecycle!HandOver, Lifecycle!Settle
<1>2. Lifecycle!Spec => []Lifecycle!TypeOK
  BY LifecyclePromise, PTL
<1> QED
  BY <1>1, <1>2, PTL DEF Lifecycle!Spec, Lifecycle!VerdictIsFinal

\* So in local print mode a job shown as done was taken by the transport at
\* least once: CUPS accepted it, which is not yet a label.
THEOREM DoneIsHandedOver == Spec => [](Lifecycle!DoneMeansHandedOver)
BY Refinement, LifecyclePromise, PTL DEF ImplementsLifecycle

\* And the verdict on a job is final.
THEOREM FinalVerdicts == Spec => Lifecycle!VerdictIsFinal
BY Refinement, LifecycleVerdicts DEF ImplementsLifecycle
=============================================================================
