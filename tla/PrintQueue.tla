----------------------------- MODULE PrintQueue -----------------------------
(***************************************************************************)
(* Local print mode: the bounded in-process queue and its single worker    *)
(* thread (app/services/print_queue.py), with the request threads that     *)
(* enqueue (_enqueue_for_product in app/routes/api.py), the printer        *)
(* transports as they look from the worker, and the life of the process:   *)
(* the queue is in memory, the print_jobs rows are on disk.                *)
(*                                                                         *)
(* Each commit is a step, and so is each call that other threads can       *)
(* interleave with (put_nowait, get, send).                                *)
(***************************************************************************)
EXTENDS Naturals, Sequences, FiniteSets

CONSTANTS
  Requests,    \* threads that enqueue: HTTP requests and sync passes
  MaxJobs,     \* bound: print_jobs rows inserted
  MaxSize,     \* maxsize of the queue
  MaxRetries,  \* max_retries of the worker
  MaxFaults,   \* bound: crashes of the process and failed commits
  Stop         \* the _STOP sentinel

ASSUME PrintQueueAssumption ==
  /\ MaxJobs \in Nat /\ MaxSize \in Nat /\ MaxRetries \in Nat /\ MaxFaults \in Nat
  /\ Stop \notin Nat

VARIABLES
  status,    \* print_jobs.status of each row; "absent" before the INSERT
  q,         \* the queue.Queue
  reqPC,     \* where each enqueuing thread is
  reqJob,    \* the row it has inserted, 0 when none
  wpc,       \* where the worker is; "off" when the thread is not running
  wjob,      \* the job it is on, 0 when none
  attempt,   \* `attempt` in _process
  stopping,  \* stop() has been called: the process is on its way out
  up,        \* the process runs
  faults,    \* faults so far (bound only)
  handed,    \* history: times the transport took the job's label
  lost,      \* history: jobs whose id an exit or a failed commit dropped
  ahead      \* history: the jobs in the queue when a job's row was inserted

requests == <<reqPC, reqJob>>
worker == <<wpc, wjob, attempt>>
process == <<stopping, up>>
vars == <<status, q, reqPC, reqJob, wpc, wjob, attempt, stopping, up, faults,
          handed, lost, ahead>>

\* Definitions named ...Mutant stand before the definition they distort: bugs
\* the properties below must notice.  No specification uses them.

Jobs == 1 .. MaxJobs
Terminal == {"done", "error"}
Statuses == {"absent", "queued", "printing"} \cup Terminal
RequestPC == {"idle", "alive", "put", "full"}
WorkerPC == {"off", "get", "start", "resolve", "send", "commit", "fail"}

Open(j) == status[j] \in {"queued", "printing"}
InQueue(j) == \E i \in 1 .. Len(q) : q[i] = j

-----------------------------------------------------------------------------
(* Enqueuing. *)

\* `if not pq.is_alive(): raise RuntimeError`: refused without a worker.
CheckAlive(r) ==
  /\ up /\ reqPC[r] = "idle"
  /\ wpc # "off"
  /\ reqPC' = [reqPC EXCEPT ![r] = "alive"]
  /\ UNCHANGED <<status, q, reqJob, worker, process, faults, handed, lost, ahead>>

\* enqueue commits the row; SQLite hands out the next id.
InsertRow(r) ==
  /\ reqPC[r] = "alive"
  /\ \E j \in Jobs :
       /\ status[j] = "absent"
       /\ \A k \in 1 .. (j - 1) : status[k] # "absent"
       /\ status' = [status EXCEPT ![j] = "queued"]
       /\ reqJob' = [reqJob EXCEPT ![r] = j]
       /\ ahead' = [ahead EXCEPT ![j] = {k \in Jobs : InQueue(k)}]
  /\ reqPC' = [reqPC EXCEPT ![r] = "put"]
  /\ UNCHANGED <<q, worker, process, faults, handed, lost>>

PutFirstMutant(x) == q' = <<x>> \o q
Put(x) == q' = Append(q, x)

\* put_nowait: the id goes in, or queue.Full is raised.
PutId(r) ==
  /\ reqPC[r] = "put"
  /\ \/ /\ Len(q) < MaxSize
        /\ Put(reqJob[r])
        /\ reqPC' = [reqPC EXCEPT ![r] = "idle"]
        /\ reqJob' = [reqJob EXCEPT ![r] = 0]
     \/ /\ Len(q) >= MaxSize
        /\ reqPC' = [reqPC EXCEPT ![r] = "full"]
        /\ UNCHANGED <<q, reqJob>>
  /\ UNCHANGED <<status, worker, process, faults, handed, lost, ahead>>

RejectUnsettledMutant(r) ==
  /\ reqPC[r] = "full"
  /\ reqPC' = [reqPC EXCEPT ![r] = "idle"]
  /\ reqJob' = [reqJob EXCEPT ![r] = 0]
  /\ UNCHANGED <<status, q, worker, process, faults, handed, lost, ahead>>

\* `except queue.Full`: the row is settled as an error and QueueFull raised.
RejectFull(r) ==
  /\ reqPC[r] = "full"
  /\ status' = [status EXCEPT ![reqJob[r]] = "error"]
  /\ reqPC' = [reqPC EXCEPT ![r] = "idle"]
  /\ reqJob' = [reqJob EXCEPT ![r] = 0]
  /\ UNCHANGED <<q, worker, process, faults, handed, lost, ahead>>

-----------------------------------------------------------------------------
(* The worker. *)

WorkerIdle == wpc' = "get" /\ wjob' = 0 /\ attempt' = 0

Get ==
  /\ wpc = "get"
  /\ q # <<>>
  /\ q' = Tail(q)
  /\ IF Head(q) = Stop
       THEN wpc' = "off" /\ UNCHANGED wjob
       ELSE wpc' = "start" /\ wjob' = Head(q)
  /\ UNCHANGED <<status, requests, attempt, process, faults, handed, lost, ahead>>

StartUncommittedMutant ==
  /\ wpc = "start"
  /\ wpc' = "resolve"
  /\ UNCHANGED <<status, q, requests, wjob, attempt, process, faults, handed, lost, ahead>>

\* The row is committed as printing before anything else.
StartJob ==
  /\ wpc = "start"
  /\ status' = [status EXCEPT ![wjob] = "printing"]
  /\ wpc' = "resolve"
  /\ UNCHANGED <<q, requests, wjob, attempt, process, faults, handed, lost, ahead>>

\* _resolve_product: the product is there, or it has left the catalog and the
\* job is settled as an error.
ResolveProduct ==
  /\ wpc = "resolve"
  /\ \/ /\ wpc' = "send"
        /\ UNCHANGED <<status, wjob, attempt>>
     \/ /\ status' = [status EXCEPT ![wjob] = "error"]
        /\ WorkerIdle
  /\ UNCHANGED <<q, requests, process, faults, handed, lost, ahead>>

\* The transport takes the image: `lp` exits with 0, so CUPS has accepted
\* the job; the raster is written to the device; or, with the file and
\* null transports, nothing will ever be printed.
HandOver == handed' = [handed EXCEPT ![wjob] = @ + 1]

RetryOnceMoreMutant ==
  \/ attempt <= MaxRetries /\ attempt' = attempt + 1 /\ UNCHANGED wpc
  \/ attempt > MaxRetries /\ wpc' = "fail" /\ UNCHANGED attempt

\* Back-off and another attempt, or the last failure stands.
Retry ==
  \/ attempt < MaxRetries /\ attempt' = attempt + 1 /\ UNCHANGED wpc
  \/ attempt = MaxRetries /\ wpc' = "fail" /\ UNCHANGED attempt

\* Rendering and printer.send.  A PrinterError is retried, any other exception
\* is not; lp may time out and yet have the job (TimeoutExpired).
Send ==
  /\ wpc = "send"
  /\ \/ HandOver /\ wpc' = "commit" /\ UNCHANGED attempt
     \/ /\ \/ HandOver
           \/ UNCHANGED handed
        /\ Retry
     \/ /\ \/ HandOver
           \/ UNCHANGED handed
        /\ wpc' = "fail" /\ UNCHANGED attempt
  /\ UNCHANGED <<status, q, requests, wjob, process, faults, lost, ahead>>

CommitDone ==
  /\ wpc = "commit"
  /\ status' = [status EXCEPT ![wjob] = "done"]
  /\ WorkerIdle
  /\ UNCHANGED <<q, requests, process, faults, handed, lost, ahead>>

ErrorUncommittedMutant ==
  /\ wpc = "fail"
  /\ WorkerIdle
  /\ UNCHANGED <<status, q, requests, process, faults, handed, lost, ahead>>

ErrorThenSendMutant ==
  /\ wpc = "fail"
  /\ status' = [status EXCEPT ![wjob] = "error"]
  /\ wpc' = "send"
  /\ UNCHANGED <<q, requests, wjob, attempt, process, faults, handed, lost, ahead>>

CommitError ==
  /\ wpc = "fail"
  /\ status' = [status EXCEPT ![wjob] = "error"]
  /\ WorkerIdle
  /\ UNCHANGED <<q, requests, process, faults, handed, lost, ahead>>

-----------------------------------------------------------------------------
(* The process and its database. *)

Fault == faults < MaxFaults /\ faults' = faults + 1

\* stop(), registered with atexit: the sentinel goes in unless the queue is
\* full.  Daemon threads (a manual refresh) may still enqueue.
StopWorker ==
  /\ up /\ ~stopping
  /\ stopping' = TRUE
  /\ IF Len(q) < MaxSize THEN Put(Stop) ELSE UNCHANGED q
  /\ UNCHANGED <<status, requests, worker, up, faults, handed, lost, ahead>>

\* The process ends: after stop()'s bounded join, or by a crash.  Everything
\* in memory is gone and nothing on disk changes.
Exit ==
  /\ up
  /\ up' = FALSE
  /\ stopping' = FALSE
  /\ q' = <<>>
  /\ wpc' = "off" /\ wjob' = 0 /\ attempt' = 0
  /\ reqPC' = [r \in Requests |-> "idle"]
  /\ reqJob' = [r \in Requests |-> 0]
  /\ lost' = lost \cup {j \in Jobs : Open(j)}
  /\ UNCHANGED <<status, handed, ahead>>

Shutdown == stopping /\ Exit /\ UNCHANGED faults
Crash == Fault /\ Exit

\* create_app starts the worker on an empty queue; it reads no old rows.
Boot ==
  /\ ~up
  /\ up' = TRUE
  /\ wpc' = "get"
  /\ UNCHANGED <<status, q, requests, wjob, attempt, stopping, faults, handed, lost, ahead>>

\* A commit of the worker fails ("database is locked"): _run's last-resort
\* handler drops the job as it stands.  After a failed "done" commit the
\* generic except branch may still manage to settle the job as an error.
WorkerCommitFails ==
  /\ Fault
  /\ \/ /\ wpc \in {"start", "resolve", "commit", "fail"}
        /\ lost' = lost \cup {wjob}
        /\ UNCHANGED status
     \/ /\ wpc = "commit"
        /\ status' = [status EXCEPT ![wjob] = "error"]
        /\ UNCHANGED lost
  /\ WorkerIdle
  /\ UNCHANGED <<q, requests, process, handed, ahead>>

\* The commit that settles a rejected job fails: its row stays queued.
RejectCommitFails(r) ==
  /\ reqPC[r] = "full"
  /\ Fault
  /\ lost' = lost \cup {reqJob[r]}
  /\ reqPC' = [reqPC EXCEPT ![r] = "idle"]
  /\ reqJob' = [reqJob EXCEPT ![r] = 0]
  /\ UNCHANGED <<status, q, worker, process, handed, ahead>>

-----------------------------------------------------------------------------
Init ==
  /\ status = [j \in Jobs |-> "absent"]
  /\ q = <<>>
  /\ reqPC = [r \in Requests |-> "idle"]
  /\ reqJob = [r \in Requests |-> 0]
  /\ wpc = "get" /\ wjob = 0 /\ attempt = 0
  /\ stopping = FALSE /\ up = TRUE
  /\ faults = 0
  /\ handed = [j \in Jobs |-> 0]
  /\ lost = {}
  /\ ahead = [j \in Jobs |-> {}]

Work ==
  \/ Get
  \/ StartJob
  \/ ResolveProduct
  \/ Send
  \/ CommitDone
  \/ CommitError

Request(r) ==
  \/ CheckAlive(r)
  \/ InsertRow(r)
  \/ PutId(r)
  \/ RejectFull(r)

Next ==
  \/ \E r \in Requests : Request(r) \/ RejectCommitFails(r)
  \/ Work
  \/ StopWorker
  \/ Shutdown
  \/ Crash
  \/ Boot
  \/ WorkerCommitFails

Spec == Init /\ [][Next]_vars

\* The worker thread runs, a request that has begun goes on, and a process
\* told to stop ends (stop() joins for 5 seconds only).
Fairness ==
  /\ WF_vars(Work)
  /\ \A r \in Requests : WF_vars(PutId(r) \/ RejectFull(r))
  /\ WF_vars(Shutdown)

FairSpec == Spec /\ Fairness

-----------------------------------------------------------------------------
\* Every variable keeps its type; in particular the transport takes a job
\* at most max_retries + 1 times.
TypeOK ==
  /\ status \in [Jobs -> Statuses]
  /\ q \in Seq(Jobs \cup {Stop})
  /\ reqPC \in [Requests -> RequestPC]
  /\ reqJob \in [Requests -> 0 .. MaxJobs]
  /\ wpc \in WorkerPC /\ wjob \in 0 .. MaxJobs /\ attempt \in 0 .. MaxRetries
  /\ stopping \in BOOLEAN /\ up \in BOOLEAN
  /\ faults \in 0 .. MaxFaults
  /\ handed \in [Jobs -> 0 .. (MaxRetries + 1)]
  /\ lost \in SUBSET Jobs
  /\ ahead \in [Jobs -> SUBSET Jobs]

\* Every open job that no exit and no failed commit has dropped is in exactly
\* one place: with the request that is putting it, in the queue, or with the
\* worker; the bounded queue and its Full branch leave none behind.
OpenJobsAreTracked ==
  \A j \in Jobs : Open(j) /\ j \notin lost =>
    Cardinality({r \in Requests : reqJob[r] = j})
      + Cardinality({i \in 1 .. Len(q) : q[i] = j})
      + (IF wjob = j THEN 1 ELSE 0) = 1

\* The transport is never driven for two jobs at once: at most one job that the
\* process still works on is printing.
OneJobPrinting ==
  \A j, k \in Jobs \ lost :
    status[j] = "printing" /\ status[k] = "printing" => j = k

\* A job that already has a verdict is not handed to the transport again: in
\* particular a job answered with "busy" is never sent later.  (What CUPS took
\* before the verdict it may still print after it.)
NothingSentAfterVerdict ==
  [][\A j \in Jobs : status[j] \in Terminal =>
       handed'[j] = handed[j] /\ status'[j] = status[j]]_vars

\* When the worker takes a job, every job that was already in the queue when
\* its row was inserted has had its turn.  This is the part of "jobs print in
\* submission order" (print_queue.py:7) that the code keeps: two requests may
\* put their rows into the queue in the reverse order of their INSERTs, and
\* `ahead` leaves such pairs out.
SubmissionOrder ==
  \A j \in Jobs : status[j] \in {"printing", "done"} =>
    \A k \in ahead[j] : status[k] = "queued" => k \in lost

\* Every accepted job is settled, or an exit or a failed commit dropped it.
EventuallySettled ==
  \A j \in Jobs : status[j] = "queued" ~> status[j] \in Terminal \/ j \in lost

\* The rows follow the lifecycle of JobLifecycle, with final verdicts.
Lifecycle == INSTANCE JobLifecycle WITH
  Retakes <- FALSE, handedOver <- [j \in Jobs |-> handed[j] > 0]
ImplementsLifecycle == Lifecycle!Spec
=============================================================================
