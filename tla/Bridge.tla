------------------------------- MODULE Bridge -------------------------------
(***************************************************************************)
(* Remote print mode: the bridge API of the hosted app                     *)
(* (app/routes/bridge.py) together with the agents at the store that poll  *)
(* it (scripts/print_bridge.py).                                           *)
(*                                                                         *)
(* The server keeps the print_jobs table in SQLite and serves requests on  *)
(* a few gunicorn threads, so two requests interleave between their        *)
(* statements.  A thread that has issued an UPDATE holds SQLite's write    *)
(* lock until it commits; a SELECT on its own holds nothing.  The steps    *)
(* below are cut exactly there.  An agent is a sequential loop: claim,     *)
(* fetch the raster, send it to the printer, report.                       *)
(***************************************************************************)
EXTENDS Naturals, FiniteSets

CONSTANTS
  Bridges,       \* agents running scripts/print_bridge.py
  Threads,       \* gunicorn request threads (--threads)
  MaxJobs,       \* bound: print_jobs rows inserted
  PrintRetries,  \* PRINT_RETRIES of print_bridge.py
  MaxFaults,     \* bound: lost requests, lost replies and agent crashes
  None           \* no agent waits for the reply

ASSUME BridgeAssumption ==
  /\ MaxJobs \in Nat /\ PrintRetries \in Nat /\ MaxFaults \in Nat
  /\ None \notin Bridges

VARIABLES
  status,     \* print_jobs.status of each row; "absent" before the INSERT
  claimedAt,  \* print_jobs.claimed_at: NULL, after or before the stale cutoff
  thread,     \* what each request thread is doing
  pc,         \* where each agent is in its loop
  job,        \* the job each agent holds, 0 when none
  attempt,    \* the agent's `attempt` in print_job
  faults,     \* faults so far (bound only)
  handed,     \* history: times the raster was handed over, saturated at PrintCap
  requeued    \* history: the job was re-queued as stale at least once

server == <<status, claimedAt, thread>>
agents == <<pc, job, attempt>>
vars == <<status, claimedAt, thread, pc, job, attempt, faults, handed, requeued>>

Jobs == 1 .. MaxJobs
PrintCap == PrintRetries + 2
Terminal == {"done", "error"}
Statuses == {"absent", "queued", "printing"} \cup Terminal

AgentPC == {"idle", "claiming", "fetching", "sending",
            "reportDone", "waitDone", "reportError", "waitError"}
Holding == AgentPC \ {"idle", "claiming"}

\* A request thread: free, at one of the statements of claim_next, or at one
\* of those of complete_job; client is the agent still waiting for the reply.
Requests ==
  [op : {"free", "next", "pick", "claim", "complete", "settle"},
   job : 0 .. MaxJobs, outcome : Terminal, client : Bridges \cup {None}]

Request(op, j, outcome, b) ==
  [op |-> op, job |-> j, outcome |-> outcome, client |-> b]
FreeThread == Request("free", 0, "error", None)

\* Mutants (definitions named ...Mutant, each before the definition it distorts)
\* are bugs the properties below must notice; no specification uses them.
Queued == {j \in Jobs : status[j] = "queued"}
StaleAnyStatusMutant == {j \in Jobs : claimedAt[j] = "stale"}
StaleNullMutant == {j \in Jobs : status[j] = "printing" /\ claimedAt[j] = "null"}
Stale == {j \in Jobs : status[j] = "printing" /\ claimedAt[j] = "stale"}

\* The first queued row in the order of ids.
NewestMutant(j) == j \in Queued /\ \A k \in Queued : j >= k
Candidate(j) == j \in Queued /\ \A k \in Queued : j <= k

-----------------------------------------------------------------------------
(* The scanner's side: POST /api/print in remote mode inserts a queued row. *)

Enqueue(j) ==
  /\ status[j] = "absent"
  /\ \A k \in 1 .. (j - 1) : status[k] # "absent"
  /\ status' = [status EXCEPT ![j] = "queued"]
  /\ UNCHANGED <<claimedAt, thread, agents, faults, handed, requeued>>

-----------------------------------------------------------------------------
(* The server's request threads. *)

\* Thread t answers and is free again; the agent that waits, if any still
\* does, moves on.  j = 0 is the empty 204 reply.
AnswerNext(t, j) ==
  LET b == thread[t].client IN
  /\ thread' = [thread EXCEPT ![t] = FreeThread]
  /\ IF b = None
       THEN UNCHANGED agents
       ELSE /\ pc' = [pc EXCEPT ![b] = IF j = 0 THEN "idle" ELSE "fetching"]
            /\ job' = [job EXCEPT ![b] = j]
            /\ attempt' = [attempt EXCEPT ![b] = 0]

AnswerComplete(t) ==
  LET b == thread[t].client IN
  /\ thread' = [thread EXCEPT ![t] = FreeThread]
  /\ IF b = None
       THEN UNCHANGED agents
       ELSE /\ pc' = [pc EXCEPT ![b] = "idle"]
            /\ job' = [job EXCEPT ![b] = 0]
            /\ attempt' = [attempt EXCEPT ![b] = 0]

\* UPDATE ... WHERE id = j AND status = 'queued'
ClaimRow(j) ==
  /\ status' = [status EXCEPT ![j] = "printing"]
  /\ claimedAt' = [claimedAt EXCEPT ![j] = "fresh"]

\* _requeue_stale_jobs found stale claims: it re-queues them and commits,
\* which releases the write lock before the candidate is read.
NextRequeue(t) ==
  /\ thread[t].op = "next"
  /\ Stale # {}
  /\ status' = [j \in Jobs |-> IF j \in Stale THEN "queued" ELSE status[j]]
  /\ claimedAt' = [j \in Jobs |-> IF j \in Stale THEN "null" ELSE claimedAt[j]]
  /\ requeued' = [j \in Jobs |-> requeued[j] \/ j \in Stale]
  /\ thread' = [thread EXCEPT ![t].op = "pick"]
  /\ UNCHANGED <<agents, faults, handed>>

\* It found none: its UPDATE still opened the write transaction, which the
\* SELECT of the candidate and the claiming UPDATE then run inside.
NextAtomic(t) ==
  /\ thread[t].op = "next"
  /\ Stale = {}
  /\ \/ /\ Queued = {}
        /\ AnswerNext(t, 0)
        /\ UNCHANGED <<status, claimedAt>>
     \/ \E j \in Jobs : Candidate(j) /\ ClaimRow(j) /\ AnswerNext(t, j)
  /\ UNCHANGED <<faults, handed, requeued>>

\* The candidate is read outside any transaction.
NextPick(t) ==
  /\ thread[t].op = "pick"
  /\ \/ /\ Queued = {}
        /\ AnswerNext(t, 0)
     \/ \E j \in Jobs :
          /\ Candidate(j)
          /\ thread' = [thread EXCEPT ![t] = Request("claim", j, "error", @.client)]
          /\ UNCHANGED agents
  /\ UNCHANGED <<status, claimedAt, faults, handed, requeued>>

NextClaimMutant(t) ==
  /\ thread[t].op = "claim"
  /\ ClaimRow(thread[t].job)
  /\ AnswerNext(t, thread[t].job)
  /\ UNCHANGED <<faults, handed, requeued>>

\* The claim itself: it wins only if the row is still queued.
NextClaim(t) ==
  LET j == thread[t].job IN
  /\ thread[t].op = "claim"
  /\ \/ /\ status[j] = "queued"
        /\ ClaimRow(j)
        /\ AnswerNext(t, j)
     \/ /\ status[j] # "queued"
        /\ AnswerNext(t, 0)
        /\ UNCHANGED <<status, claimedAt>>
  /\ UNCHANGED <<faults, handed, requeued>>

\* complete_job reads the row and refuses to touch a settled one ...
CompleteRead(t) ==
  /\ thread[t].op = "complete"
  /\ \/ /\ status[thread[t].job] \in Terminal
        /\ AnswerComplete(t)
     \/ /\ status[thread[t].job] \notin Terminal
        /\ thread' = [thread EXCEPT ![t].op = "settle"]
        /\ UNCHANGED agents
  /\ UNCHANGED <<status, claimedAt, faults, handed, requeued>>

\* ... and writes the outcome in a later statement that no longer checks.
CompleteWrite(t) ==
  /\ thread[t].op = "settle"
  /\ status' = [status EXCEPT ![thread[t].job] = thread[t].outcome]
  /\ AnswerComplete(t)
  /\ UNCHANGED <<claimedAt, faults, handed, requeued>>

\* A claim grows older than BRIDGE_STALE_SECONDS.
GoStale(j) ==
  /\ status[j] = "printing"
  /\ claimedAt[j] = "fresh"
  /\ claimedAt' = [claimedAt EXCEPT ![j] = "stale"]
  /\ UNCHANGED <<status, thread, agents, faults, handed, requeued>>

-----------------------------------------------------------------------------
(* The agents. *)

Poll(b, t) ==
  /\ pc[b] = "idle"
  /\ thread[t].op = "free"
  /\ thread' = [thread EXCEPT ![t] = Request("next", 0, "error", b)]
  /\ pc' = [pc EXCEPT ![b] = "claiming"]
  /\ UNCHANGED <<status, claimedAt, job, attempt, faults, handed, requeued>>

\* fetch_raster: the bytes arrive, or the server answers with an HTTP error
\* (product gone, conversion failed) and the job is reported as failed.
FetchRaster(b) ==
  /\ pc[b] = "fetching"
  /\ \E next \in {"sending", "reportError"} : pc' = [pc EXCEPT ![b] = next]
  /\ UNCHANGED <<server, job, attempt, faults, handed, requeued>>

RetryOnceMoreMutant(b) ==
  IF attempt[b] <= PrintRetries
    THEN pc' = [pc EXCEPT ![b] = "sending"] /\ attempt' = [attempt EXCEPT ![b] = @ + 1]
    ELSE pc' = [pc EXCEPT ![b] = "reportError"] /\ UNCHANGED attempt

GiveUpAsDoneMutant(b) ==
  IF attempt[b] < PrintRetries
    THEN pc' = [pc EXCEPT ![b] = "sending"] /\ attempt' = [attempt EXCEPT ![b] = @ + 1]
    ELSE pc' = [pc EXCEPT ![b] = "reportDone"] /\ UNCHANGED attempt

\* The except branch of print_job's loop: another attempt, or give up.
RetryOrGiveUp(b) ==
  IF attempt[b] < PrintRetries
    THEN /\ pc' = [pc EXCEPT ![b] = "sending"]
         /\ attempt' = [attempt EXCEPT ![b] = @ + 1]
    ELSE /\ pc' = [pc EXCEPT ![b] = "reportError"]
         /\ UNCHANGED attempt

\* The whole raster is written: to the printer's socket, or in spool mode to
\* a file.  This is all the agent ever learns.  It drops whatever the printer
\* answers and any error in reading the answer, so that a label need not have
\* come out of the printer, and the model claims none.
HandOver(j) ==
  handed' = [handed EXCEPT ![j] = IF @ < PrintCap THEN @ + 1 ELSE @]

\* send_to_printer or spool_to_file: it returns after the last byte; or it
\* raises before the last byte was written, or after it.
Send(b) ==
  /\ pc[b] = "sending"
  /\ \/ /\ HandOver(job[b])
        /\ pc' = [pc EXCEPT ![b] = "reportDone"]
        /\ UNCHANGED attempt
     \/ /\ RetryOrGiveUp(b)
        /\ UNCHANGED handed
     \/ /\ RetryOrGiveUp(b)
        /\ HandOver(job[b])
  /\ UNCHANGED <<server, job, faults, requeued>>

\* report(): the POST reaches a request thread.
Report(b, t) ==
  /\ pc[b] \in {"reportDone", "reportError"}
  /\ thread[t].op = "free"
  /\ thread' = [thread EXCEPT ![t] =
       Request("complete", job[b], IF pc[b] = "reportDone" THEN "done" ELSE "error", b)]
  /\ pc' = [pc EXCEPT ![b] = IF @ = "reportDone" THEN "waitDone" ELSE "waitError"]
  /\ UNCHANGED <<status, claimedAt, job, attempt, faults, handed, requeued>>

-----------------------------------------------------------------------------
(* Faults: the network between the store and the cloud, and the agent. *)

Fault == faults < MaxFaults /\ faults' = faults + 1

Forget(b) ==
  thread' = [t \in Threads |->
    IF thread[t].client = b THEN [thread[t] EXCEPT !.client = None] ELSE thread[t]]

ToMainLoop(b) ==
  /\ pc' = [pc EXCEPT ![b] = "idle"]
  /\ job' = [job EXCEPT ![b] = 0]
  /\ attempt' = [attempt EXCEPT ![b] = 0]

\* The call raises in the agent.  A report of "done" fails inside the retry
\* loop, as if the printing itself had failed; any other exception lands in
\* the main loop, which forgets the job.
CallFails(b) ==
  /\ pc[b] \in {"claiming", "waitDone", "waitError"}
  /\ Forget(b)
  /\ \/ pc[b] = "waitDone" /\ RetryOrGiveUp(b) /\ UNCHANGED job
     \/ pc[b] # "waitDone" /\ ToMainLoop(b)
  /\ UNCHANGED <<status, claimedAt, handed, requeued>>

Serving(b) == \E t \in Threads : thread[t].client = b

\* The agent stops waiting (timeout, connection reset) while the server works on.
LoseReply(b) == Serving(b) /\ Fault /\ CallFails(b)

\* The request died on the server, so the agent's call can only fail.
TimeOut(b) == ~Serving(b) /\ CallFails(b) /\ UNCHANGED faults

\* The request is lost before its next statement: dropped connection, or a
\* restart of the server, whose uncommitted work is rolled back.
LoseRequest(t) ==
  /\ thread[t].op # "free"
  /\ Fault
  /\ thread' = [thread EXCEPT ![t] = FreeThread]
  /\ UNCHANGED <<status, claimedAt, agents, handed, requeued>>

\* The raster cannot be fetched at all (URLError): back to the main loop.
FetchFails(b) ==
  /\ pc[b] = "fetching"
  /\ Fault
  /\ ToMainLoop(b)
  /\ UNCHANGED <<server, handed, requeued>>

\* The agent dies and is started again; it remembers nothing.
Crash(b) ==
  /\ pc[b] # "idle"
  /\ Fault
  /\ Forget(b)
  /\ ToMainLoop(b)
  /\ UNCHANGED <<status, claimedAt, handed, requeued>>

-----------------------------------------------------------------------------
Init ==
  /\ status = [j \in Jobs |-> "absent"]
  /\ claimedAt = [j \in Jobs |-> "null"]
  /\ thread = [t \in Threads |-> FreeThread]
  /\ pc = [b \in Bridges |-> "idle"]
  /\ job = [b \in Bridges |-> 0]
  /\ attempt = [b \in Bridges |-> 0]
  /\ faults = 0
  /\ handed = [j \in Jobs |-> 0]
  /\ requeued = [j \in Jobs |-> FALSE]

Serve(t) ==
  \/ NextRequeue(t)
  \/ NextAtomic(t)
  \/ NextPick(t)
  \/ NextClaim(t)
  \/ CompleteRead(t)
  \/ CompleteWrite(t)

Agent(b) ==
  \/ \E t \in Threads : Poll(b, t) \/ Report(b, t)
  \/ FetchRaster(b)
  \/ Send(b)
  \/ TimeOut(b)

Disturbance ==
  \/ \E t \in Threads : LoseRequest(t)
  \/ \E b \in Bridges : LoseReply(b) \/ FetchFails(b) \/ Crash(b)

Next ==
  \/ \E j \in Jobs : Enqueue(j) \/ GoStale(j)
  \/ \E t \in Threads : Serve(t)
  \/ \E b \in Bridges : Agent(b)
  \/ Disturbance

Spec == Init /\ [][Next]_vars

\* Threads are scheduled, agents keep polling ("retries forever"), an agent's
\* call cannot outlive its timeout, and time passes for every claim.  Nobody
\* has to enqueue, and no fault has to happen.
Fairness ==
  /\ \A t \in Threads : WF_vars(Serve(t))
  /\ \A b \in Bridges : WF_vars(Agent(b))
  /\ \A j \in Jobs : WF_vars(GoStale(j))

FairSpec == Spec /\ Fairness

-----------------------------------------------------------------------------
\* Every variable keeps its type: no claim, request or counter leaves its
\* range, the attempts of print_job's loop and the rows' statuses included.
TypeOK ==
  /\ status \in [Jobs -> Statuses]
  /\ claimedAt \in [Jobs -> {"null", "fresh", "stale"}]
  /\ thread \in [Threads -> Requests]
  /\ pc \in [Bridges -> AgentPC]
  /\ job \in [Bridges -> 0 .. MaxJobs]
  /\ attempt \in [Bridges -> 0 .. PrintRetries]
  /\ faults \in 0 .. MaxFaults
  /\ handed \in [Jobs -> 0 .. PrintCap]
  /\ requeued \in [Jobs -> BOOLEAN]

\* The whole raster of a job the server shows as done was handed to a printer
\* (or spooled) at least once, whatever was lost, retried, re-queued or
\* completed twice meanwhile.  Whether the printer made a label of it the code
\* does not know and this does not say.
DoneMeansHandedOver == \A j \in Jobs : status[j] = "done" => handed[j] > 0

\* Two agents work on the same job only after the server took the first claim
\* back as stale: the claiming UPDATE alone never hands a job out twice.
OneHolderPerClaim ==
  \A b, c \in Bridges :
    b # c /\ pc[b] \in Holding /\ pc[c] \in Holding /\ job[b] = job[c]
      => requeued[job[b]]

\* As long as its claim was never taken back, a job is handed to the printer at
\* most once per attempt of the agent's bounded loop, lost reports included.
BoundedReprints ==
  \A j \in Jobs : ~requeued[j] => handed[j] <= PrintRetries + 1

\* A settled job is never handed out again or put back in the queue.
SettledStaysSettled ==
  [][\A j \in Jobs : status[j] \in Terminal => status'[j] \in Terminal]_vars

\* A claim never overtakes an older job that is waiting for its first claim.
NoOvertaking ==
  [][\A j, k \in Jobs :
       /\ k < j /\ status[k] = "queued" /\ ~requeued[k]
       /\ status[j] = "queued"
       => status'[j] # "printing"]_vars

\* Every submitted label job is eventually settled, through lost replies,
\* abandoned claims and crashed agents.
EventuallySettled ==
  \A j \in Jobs : status[j] = "queued" ~> status[j] \in Terminal

\* The rows follow the lifecycle of JobLifecycle, whose claims time out.
Lifecycle == INSTANCE JobLifecycle WITH
  Retakes <- TRUE, handedOver <- [j \in Jobs |-> handed[j] > 0]
ImplementsLifecycle == Lifecycle!Spec

\* The comment in complete_job and test_complete_done_and_idempotent: a
\* retried completion report does not flip a settled job.
VerdictIsFinal ==
  [][\A j \in Jobs : status[j] \in Terminal => status'[j] = status[j]]_vars
=============================================================================
