---------------------------- MODULE BridgeProofs ----------------------------
(***************************************************************************)
(* What is true of the bridge protocol for any number of agents, request   *)
(* threads, jobs, retries and faults: the safety invariants of Bridge and  *)
(* its refinement of JobLifecycle, all from one inductive invariant IInv.  *)
(***************************************************************************)
EXTENDS Bridge, TLAPS

\* An agent past its claim holds a real job that is not waiting in the queue,
\* unless its claim was taken back; it reports "done" only for one handed over.
HoldersInv ==
  \A b \in Bridges : pc[b] \in Holding =>
    /\ job[b] \in Jobs
    /\ status[job[b]] # "absent"
    /\ status[job[b]] = "queued" => requeued[job[b]]
    /\ pc[b] \in {"reportDone", "waitDone"} => handed[job[b]] > 0

\* A request on the server is about a real job, and it carries "done" only
\* for one handed over.  Its agent may long have gone.
ThreadsInv ==
  \A t \in Threads :
    /\ thread[t].op = "claim" => thread[t].job \in Jobs
    /\ thread[t].op \in {"complete", "settle"} =>
         /\ thread[t].job \in Jobs
         /\ status[thread[t].job] # "absent"
         /\ thread[t].outcome = "done" => handed[thread[t].job] > 0

\* The hand-overs of a job whose claim was never taken back are counted by the
\* attempts of the one agent that holds it.
PrintsInv ==
  \A j \in Jobs : ~requeued[j] =>
    /\ status[j] \in {"absent", "queued"} => handed[j] = 0
    /\ \A b \in Bridges : pc[b] \in Holding /\ job[b] = j =>
         /\ pc[b] = "fetching" => handed[j] = 0
         /\ pc[b] = "sending" => handed[j] <= attempt[b]
         /\ handed[j] <= attempt[b] + 1

\* The conjuncts of the inductive invariant that relate two pieces of state.
Safe ==
  /\ HoldersInv
  /\ ThreadsInv
  /\ PrintsInv
  /\ DoneMeansHandedOver
  /\ OneHolderPerClaim
  /\ BoundedReprints

\* The inductive invariant.
IInv == TypeOK /\ Safe

-----------------------------------------------------------------------------
(* Type correctness. *)

\* The fields of what a request thread is doing.
LEMMA RequestType ==
  ASSUME NEW t \in Threads, thread \in [Threads -> Requests]
  PROVE  /\ thread[t].op \in {"free", "next", "pick", "claim", "complete", "settle"}
         /\ thread[t].job \in 0 .. MaxJobs
         /\ thread[t].outcome \in Terminal
         /\ thread[t].client \in Bridges \cup {None}
BY DEF Requests

\* A free thread is one of the things a thread can be doing.
LEMMA FreeThreadType == FreeThread \in Requests
BY BridgeAssumption DEF FreeThread, Request, Requests, Terminal

\* The answer of claim_next keeps the types of threads and agents.
LEMMA AnswerNextType ==
  ASSUME TypeOK, NEW t \in Threads, NEW j \in 0 .. MaxJobs, AnswerNext(t, j)
  PROVE  /\ thread' \in [Threads -> Requests]
         /\ pc' \in [Bridges -> AgentPC]
         /\ job' \in [Bridges -> 0 .. MaxJobs]
         /\ attempt' \in [Bridges -> 0 .. PrintRetries]
BY BridgeAssumption, FreeThreadType, RequestType
DEF TypeOK, AnswerNext, agents, AgentPC

\* The answer of complete_job keeps the types of threads and agents.
LEMMA AnswerCompleteType ==
  ASSUME TypeOK, NEW t \in Threads, AnswerComplete(t)
  PROVE  /\ thread' \in [Threads -> Requests]
         /\ pc' \in [Bridges -> AgentPC]
         /\ job' \in [Bridges -> 0 .. MaxJobs]
         /\ attempt' \in [Bridges -> 0 .. PrintRetries]
BY BridgeAssumption, FreeThreadType, RequestType
DEF TypeOK, AnswerComplete, agents, AgentPC

\* Threads whose agent stopped waiting are still doing what they did.
LEMMA ForgetType ==
  ASSUME TypeOK, NEW b \in Bridges, Forget(b)
  PROVE  thread' \in [Threads -> Requests]
BY DEF TypeOK, Forget, Requests

\* A call that raises in the agent keeps the types of threads and agents.
LEMMA CallFailsType ==
  ASSUME TypeOK, NEW b \in Bridges, CallFails(b)
  PROVE  /\ thread' \in [Threads -> Requests]
         /\ pc' \in [Bridges -> AgentPC]
         /\ job' \in [Bridges -> 0 .. MaxJobs]
         /\ attempt' \in [Bridges -> 0 .. PrintRetries]
<1>1. thread' \in [Threads -> Requests]
  BY ForgetType DEF CallFails
<1>2. CASE RetryOrGiveUp(b) /\ UNCHANGED job
  BY <1>1, <1>2, BridgeAssumption DEF TypeOK, RetryOrGiveUp, AgentPC
<1>3. CASE ToMainLoop(b)
  BY <1>1, <1>3, BridgeAssumption DEF TypeOK, ToMainLoop, AgentPC
<1> QED
  BY <1>2, <1>3 DEF CallFails

\* Every variable keeps its type, for any number of agents and threads.
THEOREM TypeCorrect == Spec => []TypeOK
<1>1. Init => TypeOK
  BY BridgeAssumption, FreeThreadType
  DEF Init, TypeOK, Statuses, AgentPC, PrintCap
<1>2. TypeOK /\ [Next]_vars => TypeOK'
  <2> SUFFICES ASSUME TypeOK, [Next]_vars PROVE TypeOK'
    OBVIOUS
  <2> USE BridgeAssumption DEF TypeOK
  <2>1. ASSUME NEW j \in Jobs, Enqueue(j) PROVE TypeOK'
    BY <2>1 DEF Enqueue, agents, Statuses
  <2>2. ASSUME NEW j \in Jobs, GoStale(j) PROVE TypeOK'
    BY <2>2 DEF GoStale, agents
  <2>3. ASSUME NEW t \in Threads, NextRequeue(t) PROVE TypeOK'
    BY <2>3 DEF NextRequeue, agents, Statuses, Requests
  <2>4. ASSUME NEW t \in Threads, NextAtomic(t) PROVE TypeOK'
    <3>1. \E j \in 0 .. MaxJobs : AnswerNext(t, j)
      BY <2>4 DEF NextAtomic, Jobs
    <3> QED
      BY <2>4, <3>1, AnswerNextType DEF NextAtomic, ClaimRow, Statuses
  <2>5. ASSUME NEW t \in Threads, NextPick(t) PROVE TypeOK'
    <3>1. CASE AnswerNext(t, 0)
      BY <2>5, <3>1, AnswerNextType DEF NextPick
    <3>2. CASE \E j \in Jobs : /\ thread' = [thread EXCEPT ![t] = Request("claim", j, "error", @.client)]
                               /\ UNCHANGED agents
      BY <2>5, <3>2, RequestType DEF NextPick, agents, Request, Requests, Jobs, Terminal
    <3> QED
      BY <2>5, <3>1, <3>2 DEF NextPick
  <2>6. ASSUME NEW t \in Threads, NextClaim(t) PROVE TypeOK'
    <3>1. \E j \in 0 .. MaxJobs : AnswerNext(t, j)
      BY <2>6, RequestType DEF NextClaim
    <3> QED
      BY <2>6, <3>1, AnswerNextType DEF NextClaim, ClaimRow, Statuses
  <2>7. ASSUME NEW t \in Threads, CompleteRead(t) PROVE TypeOK'
    <3>1. CASE AnswerComplete(t)
      BY <2>7, <3>1, AnswerCompleteType DEF CompleteRead
    <3>2. CASE thread' = [thread EXCEPT ![t].op = "settle"] /\ UNCHANGED agents
      BY <2>7, <3>2 DEF CompleteRead, agents, Requests
    <3> QED
      BY <2>7, <3>1, <3>2 DEF CompleteRead
  <2>8. ASSUME NEW t \in Threads, CompleteWrite(t) PROVE TypeOK'
    BY <2>8, AnswerCompleteType, RequestType DEF CompleteWrite, Statuses
  <2>9. ASSUME NEW b \in Bridges, NEW t \in Threads, Poll(b, t) PROVE TypeOK'
    BY <2>9 DEF Poll, Request, Requests, AgentPC, Terminal
  <2>10. ASSUME NEW b \in Bridges, NEW t \in Threads, Report(b, t) PROVE TypeOK'
    BY <2>10 DEF Report, Request, Requests, AgentPC, Terminal
  <2>11. ASSUME NEW b \in Bridges, FetchRaster(b) PROVE TypeOK'
    BY <2>11 DEF FetchRaster, server, AgentPC
  <2>12. ASSUME NEW b \in Bridges, Send(b) PROVE TypeOK'
    BY <2>12 DEF Send, server, RetryOrGiveUp, HandOver, AgentPC, PrintCap
  <2>13. ASSUME NEW b \in Bridges, TimeOut(b) PROVE TypeOK'
    BY <2>13, CallFailsType DEF TimeOut, CallFails
  <2>14. ASSUME NEW t \in Threads, LoseRequest(t) PROVE TypeOK'
    BY <2>14, FreeThreadType DEF LoseRequest, Fault, agents
  <2>15. ASSUME NEW b \in Bridges, LoseReply(b) PROVE TypeOK'
    BY <2>15, CallFailsType DEF LoseReply, CallFails, Fault
  <2>16. ASSUME NEW b \in Bridges, FetchFails(b) PROVE TypeOK'
    BY <2>16 DEF FetchFails, Fault, ToMainLoop, server, AgentPC
  <2>17. ASSUME NEW b \in Bridges, Crash(b) PROVE TypeOK'
    BY <2>17, ForgetType DEF Crash, Fault, ToMainLoop, AgentPC
  <2>18. CASE UNCHANGED vars
    BY <2>18 DEF vars
  <2> QED
    BY <2>1, <2>2, <2>3, <2>4, <2>5, <2>6, <2>7, <2>8, <2>9, <2>10, <2>11, <2>12,
       <2>13, <2>14, <2>15, <2>16, <2>17, <2>18
    DEF Next, Serve, Agent, Disturbance
<1> QED
  BY <1>1, <1>2, PTL DEF Spec

-----------------------------------------------------------------------------
(* What the actions do to the inductive invariant. *)

\* A thread's answer frees it and moves at most the agent that waits.
LEMMA AnswerNextEffect ==
  ASSUME TypeOK, NEW t \in Threads, NEW j \in 0 .. MaxJobs, AnswerNext(t, j)
  PROVE  /\ \A u \in Threads : thread'[u] = thread[u] \/ thread'[u].op = "free"
         /\ \A b \in Bridges :
              \/ pc'[b] = pc[b] /\ job'[b] = job[b] /\ attempt'[b] = attempt[b]
              \/ j = 0 /\ pc'[b] = "idle"
              \/ /\ j # 0 /\ b = thread[t].client
                 /\ pc'[b] = "fetching" /\ job'[b] = j /\ attempt'[b] = 0
BY DEF TypeOK, AnswerNext, FreeThread, Request, agents

\* The answer of complete_job frees the thread and sends its agent to poll.
LEMMA AnswerCompleteEffect ==
  ASSUME TypeOK, NEW t \in Threads, AnswerComplete(t)
  PROVE  /\ \A u \in Threads : thread'[u] = thread[u] \/ thread'[u].op = "free"
         /\ \A b \in Bridges :
              \/ pc'[b] = pc[b] /\ job'[b] = job[b] /\ attempt'[b] = attempt[b]
              \/ pc'[b] = "idle"
BY DEF TypeOK, AnswerComplete, FreeThread, Request, agents

\* Agents that go back to polling or stay where they are, and threads that
\* become free or stay where they are, cannot disturb the invariant.
LEMMA Harmless ==
  ASSUME IInv, TypeOK',
         UNCHANGED <<status, handed, requeued>>,
         \A u \in Threads :
           \/ /\ thread'[u].op = thread[u].op
              /\ thread'[u].job = thread[u].job
              /\ thread'[u].outcome = thread[u].outcome
           \/ thread'[u].op \in {"free", "next", "pick"},
         \A b \in Bridges :
           \/ pc'[b] = pc[b] /\ job'[b] = job[b] /\ attempt'[b] = attempt[b]
           \/ pc'[b] \in {"idle", "claiming"}
  PROVE  Safe'
<1> USE DEF IInv, Safe, Holding
<1>1. HoldersInv'
  BY DEF HoldersInv
<1>2. ThreadsInv'
  BY DEF ThreadsInv
<1>3. PrintsInv'
  BY DEF PrintsInv
<1>4. DoneMeansHandedOver' /\ BoundedReprints'
  BY DEF DoneMeansHandedOver, BoundedReprints
<1>5. OneHolderPerClaim'
  BY DEF OneHolderPerClaim
<1> QED
  BY <1>1, <1>2, <1>3, <1>4, <1>5

\* A claim that wins gives a queued row to the agent that waits, if any.
LEMMA ClaimSafe ==
  ASSUME IInv, TypeOK', NEW t \in Threads, NEW j \in Jobs, status[j] = "queued",
         ClaimRow(j), AnswerNext(t, j), UNCHANGED <<handed, requeued>>
  PROVE  Safe'
<1> USE DEF IInv, Safe, Holding
<1>1. /\ j # 0
      /\ \A k \in Jobs : status'[k] = IF k = j THEN "printing" ELSE status[k]
  BY BridgeAssumption DEF ClaimRow, TypeOK, Jobs
<1>2. /\ \A u \in Threads : thread'[u] = thread[u] \/ thread'[u].op = "free"
      /\ \A b \in Bridges :
           \/ pc'[b] = pc[b] /\ job'[b] = job[b] /\ attempt'[b] = attempt[b]
           \/ /\ b = thread[t].client
              /\ pc'[b] = "fetching" /\ job'[b] = j /\ attempt'[b] = 0
  BY <1>1, AnswerNextEffect DEF Jobs
<1>3. HoldersInv'
  BY <1>1, <1>2 DEF HoldersInv
<1>4. ThreadsInv'
  BY <1>1, <1>2 DEF ThreadsInv
<1>5. PrintsInv'
  <2> SUFFICES ASSUME NEW k \in Jobs, ~requeued[k]
               PROVE  /\ status'[k] \in {"absent", "queued"} => handed[k] = 0
                      /\ \A b \in Bridges : pc'[b] \in Holding /\ job'[b] = k =>
                           /\ pc'[b] = "fetching" => handed[k] = 0
                           /\ pc'[b] = "sending" => handed[k] <= attempt'[b]
                           /\ handed[k] <= attempt'[b] + 1
    BY DEF PrintsInv
  <2> QED
    BY <1>1, <1>2 DEF PrintsInv
<1>6. DoneMeansHandedOver' /\ BoundedReprints'
  BY <1>1 DEF DoneMeansHandedOver, BoundedReprints
<1>7. OneHolderPerClaim'
  BY <1>1, <1>2 DEF OneHolderPerClaim, HoldersInv
<1> QED
  BY <1>3, <1>4, <1>5, <1>6, <1>7

\* One agent b takes a step of print_job on the job it holds, from `sending`
\* or from a lost "done" report; the raster may be handed over on the way.
LEMMA RetrySafe ==
  ASSUME IInv, TypeOK', NEW b \in Bridges, pc[b] \in {"sending", "waitDone"},
         RetryOrGiveUp(b), UNCHANGED <<status, requeued, job>>,
         \/ handed' = handed
         \/ pc[b] = "sending" /\ HandOver(job[b]),
         \A u \in Threads : /\ thread'[u].op = thread[u].op
                            /\ thread'[u].job = thread[u].job
                            /\ thread'[u].outcome = thread[u].outcome
  PROVE  Safe'
<1> USE DEF IInv, Safe, Holding, AgentPC
<1>1. /\ \A c \in Bridges : c # b => pc'[c] = pc[c] /\ attempt'[c] = attempt[c]
      /\ \/ pc'[b] = "sending" /\ attempt[b] < PrintRetries /\ attempt'[b] = attempt[b] + 1
         \/ pc'[b] = "reportError" /\ attempt'[b] = attempt[b]
  BY DEF RetryOrGiveUp, TypeOK
<1>2. pc[b] \in Holding /\ job[b] \in Jobs
  BY DEF HoldersInv
<1>3. /\ handed \in [Jobs -> Nat] /\ handed' \in [Jobs -> Nat]
      /\ attempt \in [Bridges -> 0 .. PrintRetries]
      /\ attempt' \in [Bridges -> 0 .. PrintRetries]
  BY BridgeAssumption DEF TypeOK, PrintCap
<1>4. \A k \in Jobs : handed[k] > 0 => handed'[k] > 0
  BY <1>2, <1>3, BridgeAssumption DEF HandOver, PrintCap
<1>5. \A k \in Jobs :
        \/ handed'[k] = handed[k]
        \/ k = job[b] /\ pc[b] = "sending" /\ handed'[k] <= handed[k] + 1
  <2>1. CASE handed' = handed
    BY <2>1
  <2>2. CASE pc[b] = "sending" /\ HandOver(job[b])
    BY <2>2, <1>2, <1>3, BridgeAssumption DEF HandOver, PrintCap
  <2> QED
    BY <2>1, <2>2
<1>6. HoldersInv'
  <2> SUFFICES ASSUME NEW c \in Bridges, pc'[c] \in Holding
               PROVE  /\ job[c] \in Jobs
                      /\ status[job[c]] # "absent"
                      /\ status[job[c]] = "queued" => requeued[job[c]]
                      /\ pc'[c] \in {"reportDone", "waitDone"} => handed'[job[c]] > 0
    BY DEF HoldersInv
  <2>1. CASE c = b
    BY <1>1, <1>2, <2>1 DEF HoldersInv
  <2>2. CASE c # b
    BY <1>1, <1>4, <2>2 DEF HoldersInv
  <2> QED
    BY <2>1, <2>2
<1>7. ThreadsInv'
  <2> SUFFICES ASSUME NEW u \in Threads
               PROVE  /\ thread[u].op = "claim" => thread[u].job \in Jobs
                      /\ thread[u].op \in {"complete", "settle"} =>
                           /\ thread[u].job \in Jobs
                           /\ status[thread[u].job] # "absent"
                           /\ thread[u].outcome = "done" => handed'[thread[u].job] > 0
    BY DEF ThreadsInv
  <2> QED
    BY <1>4 DEF ThreadsInv
<1>8. DoneMeansHandedOver'
  BY <1>4 DEF DoneMeansHandedOver
<1>9. OneHolderPerClaim'
  BY <1>1, <1>2 DEF OneHolderPerClaim
<1>10. PrintsInv' /\ BoundedReprints'
  <2> SUFFICES ASSUME NEW k \in Jobs, ~requeued[k]
               PROVE  /\ status[k] \in {"absent", "queued"} => handed'[k] = 0
                      /\ \A c \in Bridges : pc'[c] \in Holding /\ job[c] = k =>
                           /\ pc'[c] = "fetching" => handed'[k] = 0
                           /\ pc'[c] = "sending" => handed'[k] <= attempt'[c]
                           /\ handed'[k] <= attempt'[c] + 1
                      /\ handed'[k] <= PrintRetries + 1
    BY DEF PrintsInv, BoundedReprints
  <2>1. CASE k = job[b]
    <3>1. status[k] \notin {"absent", "queued"}
      BY <1>2, <2>1 DEF HoldersInv
    <3>2. \A c \in Bridges : c # b => ~(pc[c] \in Holding /\ job[c] = k)
      BY <1>2, <2>1 DEF OneHolderPerClaim
    <3>3. /\ pc[b] = "sending" => handed[k] <= attempt[b]
          /\ handed[k] <= attempt[b] + 1
          /\ attempt[b] \in 0 .. PrintRetries
      BY <1>2, <2>1 DEF PrintsInv, TypeOK
    <3> QED
      BY <1>1, <1>2, <1>3, <1>5, <2>1, <3>1, <3>2, <3>3, BridgeAssumption
  <2>2. CASE k # job[b]
    BY <1>1, <1>2, <1>3, <1>5, <2>2 DEF PrintsInv, BoundedReprints
  <2> QED
    BY <2>1, <2>2
<1> QED
  BY <1>6, <1>7, <1>8, <1>9, <1>10

\* The send returns: the raster is handed over and "done" is to be reported.
LEMMA SentSafe ==
  ASSUME IInv, TypeOK', NEW b \in Bridges, pc[b] = "sending",
         HandOver(job[b]), pc' = [pc EXCEPT ![b] = "reportDone"],
         UNCHANGED <<status, thread, requeued, job, attempt>>
  PROVE  Safe'
<1> USE DEF IInv, Safe, Holding, AgentPC
<1>1. pc'[b] = "reportDone" /\ \A c \in Bridges : c # b => pc'[c] = pc[c]
  BY DEF TypeOK
<1>2. job[b] \in Jobs
  BY DEF HoldersInv
<1>3. /\ handed \in [Jobs -> Nat] /\ handed' \in [Jobs -> Nat]
      /\ attempt \in [Bridges -> 0 .. PrintRetries]
  BY BridgeAssumption DEF TypeOK, PrintCap
<1>4. /\ handed'[job[b]] > 0
      /\ handed'[job[b]] <= handed[job[b]] + 1
      /\ \A k \in Jobs : k # job[b] => handed'[k] = handed[k]
  BY <1>2, <1>3, BridgeAssumption DEF HandOver, PrintCap
<1>5. HoldersInv' /\ ThreadsInv'
  BY <1>1, <1>2, <1>4 DEF HoldersInv, ThreadsInv
<1>6. DoneMeansHandedOver'
  BY <1>4 DEF DoneMeansHandedOver
<1>7. OneHolderPerClaim'
  BY <1>1 DEF OneHolderPerClaim
<1>8. PrintsInv' /\ BoundedReprints'
  <2> SUFFICES ASSUME NEW k \in Jobs, ~requeued[k]
               PROVE  /\ status[k] \in {"absent", "queued"} => handed'[k] = 0
                      /\ \A c \in Bridges : pc'[c] \in Holding /\ job[c] = k =>
                           /\ pc'[c] = "fetching" => handed'[k] = 0
                           /\ pc'[c] = "sending" => handed'[k] <= attempt[c]
                           /\ handed'[k] <= attempt[c] + 1
                      /\ handed'[k] <= PrintRetries + 1
    BY DEF PrintsInv, BoundedReprints
  <2>1. CASE k = job[b]
    <3>1. status[k] \notin {"absent", "queued"}
      BY <2>1 DEF HoldersInv
    <3>2. \A c \in Bridges : c # b => ~(pc[c] \in Holding /\ job[c] = k)
      BY <2>1 DEF OneHolderPerClaim
    <3>3. handed[k] <= attempt[b] /\ attempt[b] \in 0 .. PrintRetries
      BY <1>3, <2>1 DEF PrintsInv
    <3> QED
      BY <1>1, <1>3, <1>4, <2>1, <3>1, <3>2, <3>3, BridgeAssumption
  <2>2. CASE k # job[b]
    BY <1>1, <1>4, <2>2 DEF PrintsInv, BoundedReprints
  <2> QED
    BY <2>1, <2>2
<1> QED
  BY <1>5, <1>6, <1>7, <1>8

\* A request that fails in the agent.
LEMMA CallFailsSafe ==
  ASSUME IInv, TypeOK', NEW b \in Bridges, CallFails(b)
  PROVE  Safe'
<1>1. \A u \in Threads : /\ thread'[u].op = thread[u].op
                         /\ thread'[u].job = thread[u].job
                         /\ thread'[u].outcome = thread[u].outcome
  BY DEF IInv, TypeOK, CallFails, Forget, Requests
<1>2. CASE pc[b] = "waitDone" /\ RetryOrGiveUp(b) /\ UNCHANGED job
  BY <1>1, <1>2, RetrySafe DEF CallFails
<1>3. CASE ToMainLoop(b)
  BY <1>1, <1>3, Harmless DEF CallFails, ToMainLoop, IInv, TypeOK
<1> QED
  BY <1>2, <1>3 DEF CallFails

\* Every step preserves the invariant.
LEMMA StepSafe ==
  ASSUME IInv, TypeOK', [Next]_vars
  PROVE  Safe'
<1> USE DEF IInv
<1>1. ASSUME NEW j \in Jobs, Enqueue(j) PROVE Safe'
  <2>1. \A k \in Jobs :
          \/ status'[k] = status[k]
          \/ status[k] = "absent" /\ status'[k] = "queued"
    BY <1>1 DEF Enqueue, TypeOK
  <2>2. UNCHANGED <<thread, pc, job, attempt, handed, requeued>>
    BY <1>1 DEF Enqueue, agents
  <2>3. HoldersInv' /\ ThreadsInv'
    BY <2>1, <2>2 DEF Safe, HoldersInv, ThreadsInv
  <2>4. PrintsInv'
    BY <2>1, <2>2 DEF Safe, PrintsInv
  <2>5. DoneMeansHandedOver' /\ OneHolderPerClaim' /\ BoundedReprints'
    BY <2>1, <2>2 DEF Safe, DoneMeansHandedOver, OneHolderPerClaim, BoundedReprints
  <2> QED
    BY <2>3, <2>4, <2>5 DEF Safe
<1>2. ASSUME NEW j \in Jobs, GoStale(j) PROVE Safe'
  BY <1>2, Harmless DEF GoStale, agents
<1>3. ASSUME NEW t \in Threads, NextRequeue(t) PROVE Safe'
  <2>1. \A k \in Jobs :
          \/ status'[k] = status[k] /\ requeued'[k] = requeued[k]
          \/ status[k] = "printing" /\ status'[k] = "queued" /\ requeued'[k]
    BY <1>3 DEF NextRequeue, TypeOK, Stale
  <2>2. /\ UNCHANGED <<pc, job, attempt, handed>>
        /\ \A u \in Threads : thread'[u] = thread[u] \/ thread'[u].op = "pick"
    BY <1>3 DEF NextRequeue, agents, TypeOK, Requests
  <2>3. HoldersInv' /\ ThreadsInv'
    BY <2>1, <2>2 DEF Safe, HoldersInv, ThreadsInv
  <2>4. PrintsInv'
    BY <2>1, <2>2 DEF Safe, PrintsInv
  <2>5. DoneMeansHandedOver' /\ BoundedReprints'
    BY <2>1, <2>2 DEF Safe, DoneMeansHandedOver, BoundedReprints
  <2>6. OneHolderPerClaim'
    BY <2>1, <2>2 DEF Safe, OneHolderPerClaim, HoldersInv
  <2> QED
    BY <2>3, <2>4, <2>5, <2>6 DEF Safe
<1>4. ASSUME NEW t \in Threads, AnswerNext(t, 0), UNCHANGED <<status, handed, requeued>>
      PROVE  Safe'
  BY <1>4, AnswerNextEffect, Harmless, BridgeAssumption
<1>5. ASSUME NEW t \in Threads, NextAtomic(t) PROVE Safe'
  BY <1>4, <1>5, ClaimSafe DEF NextAtomic, Candidate, Queued
<1>6. ASSUME NEW t \in Threads, NextPick(t) PROVE Safe'
  <2>1. CASE AnswerNext(t, 0)
    BY <1>4, <1>6, <2>1 DEF NextPick
  <2>2. CASE \E j \in Jobs : /\ thread' = [thread EXCEPT ![t] = Request("claim", j, "error", @.client)]
                             /\ UNCHANGED agents
    <3>1. /\ UNCHANGED <<status, pc, job, attempt, handed, requeued>>
          /\ \A u \in Threads :
               \/ thread'[u] = thread[u]
               \/ thread'[u].op = "claim" /\ thread'[u].job \in Jobs
      BY <1>6, <2>2 DEF NextPick, agents, Request, TypeOK
    <3>2. ThreadsInv'
      BY <3>1 DEF Safe, ThreadsInv
    <3> QED
      BY <3>1, <3>2 DEF Safe, HoldersInv, PrintsInv, DoneMeansHandedOver, OneHolderPerClaim, BoundedReprints
  <2> QED
    BY <1>6, <2>1, <2>2 DEF NextPick
<1>7. ASSUME NEW t \in Threads, NextClaim(t) PROVE Safe'
  <2>1. thread[t].job \in Jobs
    BY <1>7 DEF NextClaim, Safe, ThreadsInv
  <2> QED
    BY <1>4, <1>7, <2>1, ClaimSafe DEF NextClaim
<1>8. ASSUME NEW t \in Threads, CompleteRead(t) PROVE Safe'
  <2>1. CASE AnswerComplete(t)
    BY <1>8, <2>1, AnswerCompleteEffect, Harmless DEF CompleteRead
  <2>2. CASE thread' = [thread EXCEPT ![t].op = "settle"] /\ UNCHANGED agents
    <3>1. /\ UNCHANGED <<status, pc, job, attempt, handed, requeued>>
          /\ \A u \in Threads :
               \/ thread'[u] = thread[u]
               \/ /\ thread[u].op = "complete" /\ thread'[u].op = "settle"
                  /\ thread'[u].job = thread[u].job /\ thread'[u].outcome = thread[u].outcome
      BY <1>8, <2>2 DEF CompleteRead, agents, TypeOK, Requests
    <3>2. ThreadsInv'
      BY <3>1 DEF Safe, ThreadsInv
    <3> QED
      BY <3>1, <3>2 DEF Safe, HoldersInv, PrintsInv, DoneMeansHandedOver, OneHolderPerClaim, BoundedReprints
  <2> QED
    BY <1>8, <2>1, <2>2 DEF CompleteRead
<1>9. ASSUME NEW t \in Threads, CompleteWrite(t) PROVE Safe'
  <2> DEFINE j == thread[t].job
  <2>1. /\ j \in Jobs /\ status[j] # "absent"
        /\ thread[t].outcome \in Terminal
        /\ thread[t].outcome = "done" => handed[j] > 0
    BY <1>9, RequestType DEF CompleteWrite, Safe, ThreadsInv, TypeOK
  <2>2. /\ UNCHANGED <<handed, requeued>>
        /\ \A k \in Jobs : status'[k] = IF k = j THEN thread[t].outcome ELSE status[k]
    BY <1>9, <2>1 DEF CompleteWrite, TypeOK
  <2>3. /\ \A u \in Threads : thread'[u] = thread[u] \/ thread'[u].op = "free"
        /\ \A b \in Bridges :
             \/ pc'[b] = pc[b] /\ job'[b] = job[b] /\ attempt'[b] = attempt[b]
             \/ pc'[b] = "idle"
    BY <1>9, AnswerCompleteEffect DEF CompleteWrite
  <2> HIDE DEF j
  <2> USE DEF Safe, Holding, Terminal
  <2>4. HoldersInv'
    BY <2>1, <2>2, <2>3 DEF HoldersInv
  <2>5. ThreadsInv'
    BY <2>1, <2>2, <2>3 DEF ThreadsInv
  <2>6. PrintsInv'
    BY <2>1, <2>2, <2>3 DEF PrintsInv
  <2>7. DoneMeansHandedOver' /\ BoundedReprints'
    BY <2>1, <2>2 DEF DoneMeansHandedOver, BoundedReprints
  <2>8. OneHolderPerClaim'
    BY <2>2, <2>3 DEF OneHolderPerClaim
  <2> QED
    BY <2>4, <2>5, <2>6, <2>7, <2>8
<1>10. ASSUME NEW b \in Bridges, NEW t \in Threads, Poll(b, t) PROVE Safe'
  BY <1>10, Harmless DEF Poll, Request, TypeOK
<1>11. ASSUME NEW b \in Bridges, NEW t \in Threads, Report(b, t) PROVE Safe'
  <2>1. pc[b] \in Holding /\ pc'[b] \in Holding
    BY <1>11 DEF Report, Holding, AgentPC, TypeOK
  <2>2. /\ UNCHANGED <<status, job, attempt, handed, requeued>>
        /\ \A c \in Bridges : c # b => pc'[c] = pc[c]
        /\ pc'[b] = "waitDone" => pc[b] = "reportDone"
        /\ pc'[b] \in {"waitDone", "waitError"}
    BY <1>11 DEF Report, TypeOK
  <2>3. \A u \in Threads :
          \/ thread'[u] = thread[u]
          \/ /\ thread'[u].op = "complete" /\ thread'[u].job = job[b]
             /\ thread'[u].outcome = "done" => pc[b] = "reportDone"
    BY <1>11 DEF Report, Request, TypeOK
  <2> USE DEF Safe
  <2>4. HoldersInv'
    BY <2>1, <2>2 DEF HoldersInv
  <2>5. ThreadsInv'
    BY <2>1, <2>2, <2>3 DEF ThreadsInv, HoldersInv
  <2>6. PrintsInv'
    BY <2>1, <2>2 DEF PrintsInv
  <2>7. DoneMeansHandedOver' /\ BoundedReprints' /\ OneHolderPerClaim'
    BY <2>1, <2>2 DEF DoneMeansHandedOver, BoundedReprints, OneHolderPerClaim
  <2> QED
    BY <2>4, <2>5, <2>6, <2>7
<1>12. ASSUME NEW b \in Bridges, FetchRaster(b) PROVE Safe'
  <2>1. pc[b] = "fetching" /\ pc'[b] \in {"sending", "reportError"}
    BY <1>12 DEF FetchRaster, TypeOK
  <2>2. /\ UNCHANGED <<status, thread, job, attempt, handed, requeued>>
        /\ \A c \in Bridges : c # b => pc'[c] = pc[c]
    BY <1>12 DEF FetchRaster, server, TypeOK
  <2>3. attempt[b] \in Nat
    BY BridgeAssumption DEF TypeOK
  <2> USE DEF Safe, Holding, AgentPC
  <2>4. HoldersInv' /\ ThreadsInv'
    BY <2>1, <2>2 DEF HoldersInv, ThreadsInv
  <2>5. PrintsInv'
    BY <2>1, <2>2, <2>3 DEF PrintsInv
  <2>6. DoneMeansHandedOver' /\ BoundedReprints' /\ OneHolderPerClaim'
    BY <2>1, <2>2 DEF DoneMeansHandedOver, BoundedReprints, OneHolderPerClaim
  <2> QED
    BY <2>4, <2>5, <2>6
<1>13. ASSUME NEW b \in Bridges, Send(b) PROVE Safe'
  <2>1. CASE RetryOrGiveUp(b)
    BY <1>13, <2>1, RetrySafe DEF Send, server
  <2>2. CASE HandOver(job[b]) /\ pc' = [pc EXCEPT ![b] = "reportDone"] /\ UNCHANGED attempt
    BY <1>13, <2>2, SentSafe DEF Send, server
  <2> QED
    BY <1>13, <2>1, <2>2 DEF Send
<1>14. ASSUME NEW b \in Bridges, TimeOut(b) PROVE Safe'
  BY <1>14, CallFailsSafe DEF TimeOut
<1>15. ASSUME NEW t \in Threads, LoseRequest(t) PROVE Safe'
  BY <1>15, Harmless DEF LoseRequest, FreeThread, Request, agents, TypeOK
<1>16. ASSUME NEW b \in Bridges, LoseReply(b) PROVE Safe'
  BY <1>16, CallFailsSafe DEF LoseReply
<1>17. ASSUME NEW b \in Bridges, FetchFails(b) PROVE Safe'
  BY <1>17, Harmless DEF FetchFails, ToMainLoop, server, TypeOK
<1>18. ASSUME NEW b \in Bridges, Crash(b) PROVE Safe'
  BY <1>18, Harmless DEF Crash, ToMainLoop, Forget, TypeOK, Requests
<1>19. CASE UNCHANGED vars
  BY <1>19, Harmless DEF vars
<1> QED
  BY <1>1, <1>2, <1>3, <1>5, <1>6, <1>7, <1>8, <1>9, <1>10, <1>11, <1>12,
     <1>13, <1>14, <1>15, <1>16, <1>17, <1>18, <1>19
  DEF Next, Serve, Agent, Disturbance

\* The inductive invariant holds in every reachable state.
THEOREM Inductive == Spec => []IInv
<1>1. Init => Safe
  BY BridgeAssumption
  DEF Init, Safe, HoldersInv, ThreadsInv, PrintsInv, DoneMeansHandedOver,
      OneHolderPerClaim, BoundedReprints, Holding, FreeThread, Request
<1>2. Safe /\ TypeOK /\ TypeOK' /\ [Next]_vars => Safe'
  BY StepSafe DEF IInv
<1> QED
  BY <1>1, <1>2, TypeCorrect, PTL DEF Spec, IInv

-----------------------------------------------------------------------------
(* The safety properties of the runs, for every value of the constants.    *)

\* A job the server shows as done was handed to a printer at least once.
THEOREM DoneIsHandedOver == Spec => []DoneMeansHandedOver
BY Inductive, PTL DEF IInv, Safe

\* Two agents hold one job only after its claim was taken back as stale.
THEOREM ClaimsAreExclusive == Spec => []OneHolderPerClaim
BY Inductive, PTL DEF IInv, Safe

\* A job whose claim was never taken back is handed over at most once per
\* attempt of print_job's loop, whatever replies are lost.
THEOREM ReprintsAreBounded == Spec => []BoundedReprints
BY Inductive, PTL DEF IInv, Safe

\* Which rows a step may write: the facts the next two theorems share.
LEMMA StatusSteps ==
  ASSUME TypeOK, [Next]_vars, NEW j \in Jobs, status'[j] # status[j]
  PROVE  \/ status[j] = "absent" /\ status'[j] = "queued"
         \/ status[j] = "printing" /\ status'[j] = "queued" /\ requeued'[j]
         \/ status[j] = "queued" /\ status'[j] = "printing"
         \/ status'[j] \in Terminal
<1> USE DEF TypeOK
<1>1. ASSUME NEW k \in Jobs, Enqueue(k) PROVE status[j] = "absent" /\ status'[j] = "queued"
  BY <1>1 DEF Enqueue
<1>2. ASSUME NEW t \in Threads, NextRequeue(t)
      PROVE  status[j] = "printing" /\ status'[j] = "queued" /\ requeued'[j]
  BY <1>2 DEF NextRequeue, Stale
<1>3. ASSUME NEW t \in Threads, NextAtomic(t)
      PROVE  status[j] = "queued" /\ status'[j] = "printing"
  BY <1>3 DEF NextAtomic, Candidate, Queued, ClaimRow
<1>4. ASSUME NEW t \in Threads, NextClaim(t)
      PROVE  status[j] = "queued" /\ status'[j] = "printing"
  BY <1>4 DEF NextClaim, ClaimRow
<1>5. ASSUME NEW t \in Threads, CompleteWrite(t) PROVE status'[j] \in Terminal
  BY <1>5, RequestType DEF CompleteWrite
<1>6. ASSUME NEW t \in Threads, Serve(t), ~NextRequeue(t), ~NextAtomic(t),
             ~NextClaim(t), ~CompleteWrite(t)
      PROVE  FALSE
  BY <1>6 DEF Serve, NextPick, CompleteRead
<1>7. ASSUME NEW b \in Bridges, Agent(b) PROVE FALSE
  BY <1>7 DEF Agent, Poll, Report, FetchRaster, Send, TimeOut, CallFails, server
<1>8. ~Disturbance
  BY DEF Disturbance, LoseRequest, LoseReply, FetchFails, Crash, CallFails, server
<1>9. ~ \E k \in Jobs : GoStale(k)
  BY DEF GoStale
<1>10. CASE UNCHANGED vars
  BY <1>10 DEF vars
<1> QED
  BY <1>1, <1>2, <1>3, <1>4, <1>5, <1>6, <1>7, <1>8, <1>9, <1>10 DEF Next

\* A settled job is never handed out again or put back in the queue.
THEOREM SettledStays == Spec => SettledStaysSettled
<1>1. TypeOK /\ [Next]_vars =>
        [\A j \in Jobs : status[j] \in Terminal => status'[j] \in Terminal]_vars
  BY StatusSteps DEF Terminal
<1> QED
  BY <1>1, TypeCorrect, PTL DEF Spec, SettledStaysSettled

\* Rows are inserted in the order of their ids, and a request that has picked
\* its candidate knows that no older job still waits for its first claim.
OrderInv ==
  /\ \A j, k \in Jobs : k < j /\ status[j] # "absent" => status[k] # "absent"
  /\ \A t \in Threads : thread[t].op = "claim" =>
       \A k \in Jobs : k < thread[t].job =>
         status[k] # "absent" /\ (status[k] = "queued" => requeued[k])

\* Steps that insert no row and pick no candidate.
LEMMA OrderKept ==
  ASSUME TypeOK, OrderInv,
         \A j \in Jobs : /\ status'[j] = "absent" <=> status[j] = "absent"
                         /\ status'[j] = "queued" => status[j] = "queued" \/ requeued'[j]
                         /\ requeued[j] => requeued'[j],
         \A t \in Threads : thread'[t].op = "claim" =>
                              thread[t].op = "claim" /\ thread'[t].job = thread[t].job
  PROVE  OrderInv'
BY DEF OrderInv

\* Every step preserves OrderInv.
LEMMA OrderStep ==
  ASSUME IInv, OrderInv, [Next]_vars
  PROVE  OrderInv'
<1> USE DEF IInv, TypeOK
<1>1. ASSUME NEW j \in Jobs, Enqueue(j) PROVE OrderInv'
  <2>1. /\ status[j] = "absent" /\ status'[j] = "queued"
        /\ \A k \in Jobs : k # j => status'[k] = status[k]
        /\ \A k \in Jobs : k < j => status[k] # "absent"
        /\ UNCHANGED <<thread, requeued>>
    BY <1>1, BridgeAssumption DEF Enqueue, Jobs
  <2> QED
    BY <2>1 DEF OrderInv
<1>2. ASSUME NEW t \in Threads, NextRequeue(t) PROVE OrderInv'
  <2>1. \A j \in Jobs : /\ status'[j] = "absent" <=> status[j] = "absent"
                        /\ status'[j] = "queued" => status[j] = "queued" \/ requeued'[j]
                        /\ requeued[j] => requeued'[j]
    BY <1>2 DEF NextRequeue, Stale
  <2>2. \A u \in Threads : thread'[u].op = "claim" => thread'[u] = thread[u]
    BY <1>2 DEF NextRequeue, Requests
  <2> QED
    BY <2>1, <2>2, OrderKept
<1>3. ASSUME NEW t \in Threads, NEW j \in 0 .. MaxJobs, AnswerNext(t, j), UNCHANGED requeued,
             \/ UNCHANGED status
             \/ j \in Jobs /\ status[j] = "queued" /\ ClaimRow(j)
      PROVE  OrderInv'
  <2>1. \A u \in Threads : thread'[u].op = "claim" => thread'[u] = thread[u]
    BY <1>3, AnswerNextEffect
  <2>2. \A k \in Jobs : /\ status'[k] = "absent" <=> status[k] = "absent"
                        /\ status'[k] = "queued" => status[k] = "queued"
    BY <1>3 DEF ClaimRow
  <2> QED
    BY <1>3, <2>1, <2>2, OrderKept
<1>4. ASSUME NEW t \in Threads, NextAtomic(t) PROVE OrderInv'
  BY <1>3, <1>4, BridgeAssumption DEF NextAtomic, Candidate, Queued, Jobs
<1>5. ASSUME NEW t \in Threads, NextClaim(t) PROVE OrderInv'
  <2>1. thread[t].job \in Jobs /\ Jobs \subseteq 0 .. MaxJobs /\ 0 \in 0 .. MaxJobs
    BY <1>5, BridgeAssumption DEF NextClaim, Safe, ThreadsInv, Jobs
  <2> QED
    BY <1>3, <1>5, <2>1 DEF NextClaim
<1>6. ASSUME NEW t \in Threads, NextPick(t) PROVE OrderInv'
  <2>1. CASE AnswerNext(t, 0)
    BY <1>3, <1>6, <2>1, BridgeAssumption DEF NextPick
  <2>2. ASSUME NEW j \in Jobs, Candidate(j),
               thread' = [thread EXCEPT ![t] = Request("claim", j, "error", @.client)]
        PROVE  OrderInv'
    <3>1. /\ UNCHANGED <<status, requeued>>
          /\ thread'[t].job = j
          /\ \A u \in Threads : u # t => thread'[u] = thread[u]
      BY <1>6, <2>2 DEF NextPick, Request
    <3>2. \A k \in Jobs : k < j => status[k] # "absent" /\ status[k] # "queued"
      BY <2>2, BridgeAssumption DEF Candidate, Queued, OrderInv, Jobs
    <3> QED
      BY <3>1, <3>2 DEF OrderInv
  <2> QED
    BY <1>6, <2>1, <2>2 DEF NextPick
<1>7. ASSUME NEW t \in Threads, CompleteRead(t) PROVE OrderInv'
  <2>1. \A u \in Threads : thread'[u].op = "claim" => thread'[u] = thread[u]
    BY <1>7, AnswerCompleteEffect DEF CompleteRead, Requests
  <2> QED
    BY <1>7, <2>1, OrderKept DEF CompleteRead
<1>8. ASSUME NEW t \in Threads, CompleteWrite(t) PROVE OrderInv'
  <2>1. \A u \in Threads : thread'[u].op = "claim" => thread'[u] = thread[u]
    BY <1>8, AnswerCompleteEffect DEF CompleteWrite
  <2>2. \A k \in Jobs : /\ status'[k] = "absent" <=> status[k] = "absent"
                        /\ status'[k] = "queued" => status[k] = "queued"
    BY <1>8, RequestType DEF CompleteWrite, Safe, ThreadsInv, Terminal
  <2> QED
    BY <1>8, <2>1, <2>2, OrderKept DEF CompleteWrite
<1>9. ASSUME UNCHANGED <<status, requeued>>,
             \A u \in Threads : thread'[u].op = "claim" =>
               thread[u].op = "claim" /\ thread'[u].job = thread[u].job
      PROVE  OrderInv'
  BY <1>9, OrderKept
<1>10. ASSUME NEW b \in Bridges, CallFails(b) PROVE OrderInv'
  BY <1>9, <1>10 DEF CallFails, Forget, Requests
<1>11. ASSUME NEW b \in Bridges, Agent(b) PROVE OrderInv'
  <2>1. ASSUME NEW t \in Threads, Poll(b, t) \/ Report(b, t) PROVE OrderInv'
    BY <1>9, <2>1 DEF Poll, Report, Request
  <2>2. CASE FetchRaster(b) \/ Send(b)
    BY <1>9, <2>2 DEF FetchRaster, Send, server
  <2> QED
    BY <1>10, <1>11, <2>1, <2>2 DEF Agent, TimeOut
<1>12. CASE Disturbance
  <2>1. ASSUME NEW t \in Threads, LoseRequest(t) PROVE OrderInv'
    BY <1>9, <2>1 DEF LoseRequest, FreeThread, Request
  <2>2. ASSUME NEW b \in Bridges, FetchFails(b) \/ Crash(b) PROVE OrderInv'
    BY <1>9, <2>2 DEF FetchFails, Crash, Forget, Requests, server
  <2> QED
    BY <1>10, <1>12, <2>1, <2>2 DEF Disturbance, LoseReply
<1>13. CASE (\E j \in Jobs : GoStale(j)) \/ UNCHANGED vars
  BY <1>9, <1>13 DEF GoStale, vars
<1> QED
  BY <1>1, <1>2, <1>4, <1>5, <1>6, <1>7, <1>8, <1>11, <1>12, <1>13 DEF Next, Serve

\* A claim never overtakes an older job that waits for its first claim.
THEOREM NobodyOvertakes == Spec => NoOvertaking
<1>1. Init => OrderInv
  BY DEF Init, OrderInv, FreeThread, Request
<1>2. IInv /\ OrderInv /\ [Next]_vars => OrderInv'
  BY OrderStep
<1>3. IInv /\ OrderInv /\ [Next]_vars =>
        [\A j, k \in Jobs :
           /\ k < j /\ status[k] = "queued" /\ ~requeued[k]
           /\ status[j] = "queued"
           => status'[j] # "printing"]_vars
  <2> SUFFICES ASSUME IInv, OrderInv, Next, NEW j \in Jobs, NEW k \in Jobs,
                      k < j, status[k] = "queued", ~requeued[k],
                      status[j] = "queued", status'[j] = "printing"
               PROVE  FALSE
    OBVIOUS
  <2> USE DEF IInv, TypeOK
  <2>1. ASSUME NEW t \in Threads, NextAtomic(t) PROVE FALSE
    BY <2>1, BridgeAssumption DEF NextAtomic, Candidate, Queued, ClaimRow, Jobs
  <2>2. ASSUME NEW t \in Threads, NextClaim(t) PROVE FALSE
    BY <2>2 DEF NextClaim, ClaimRow, OrderInv
  <2>3. ASSUME NEW t \in Threads, Serve(t) PROVE FALSE
    BY <2>1, <2>2, <2>3, RequestType
    DEF Serve, NextRequeue, NextPick, CompleteRead, CompleteWrite, Terminal
  <2>4. ASSUME NEW b \in Bridges, Agent(b) PROVE FALSE
    BY <2>4 DEF Agent, Poll, Report, FetchRaster, Send, TimeOut, CallFails, server
  <2>5. ~Disturbance
    BY DEF Disturbance, LoseRequest, LoseReply, FetchFails, Crash, CallFails, server
  <2> QED
    BY <2>3, <2>4, <2>5 DEF Next, Enqueue, GoStale
<1> QED
  BY <1>1, <1>2, <1>3, Inductive, PTL DEF Spec, NoOvertaking

-----------------------------------------------------------------------------
(* The bridge protocol implements the lifecycle of a job. *)

\* The rows follow JobLifecycle: a job is settled as done only when its raster
\* was handed over, and only re-queued claims go back to the queue.
THEOREM Refinement == Spec => ImplementsLifecycle
<1>1. Init => Lifecycle!Init
  <2> SUFFICES ASSUME Init PROVE Lifecycle!Init
    OBVIOUS
  <2>1. \A j \in Jobs : (handed[j] > 0) = FALSE
    BY DEF Init
  <2>2. [j \in Jobs |-> handed[j] > 0] = [j \in Jobs |-> FALSE]
    BY <2>1
  <2> QED
    BY <2>2 DEF Init, Lifecycle!Init
<1>2. IInv /\ [Next]_vars => [Lifecycle!Next]_(Lifecycle!vars)
  <2> DEFINE handedOver == [j \in Jobs |-> handed[j] > 0]
             Step == Lifecycle!Next \/ UNCHANGED <<status, handedOver>>
  <2> SUFFICES ASSUME IInv, [Next]_vars PROVE Step
    BY DEF Lifecycle!vars
  <2> USE DEF IInv
  <2>1. ASSUME NEW j \in Jobs, Enqueue(j) PROVE Step
    <3>1. Lifecycle!Submit(j)
      BY <2>1 DEF Enqueue, Lifecycle!Submit
    <3> QED
      BY <3>1 DEF Lifecycle!Next
  <2>2. ASSUME NEW t \in Threads, NextRequeue(t) PROVE Step
    <3>1. Stale \in SUBSET Jobs /\ Lifecycle!PutBack(Stale)
      BY <2>2 DEF NextRequeue, Stale, Lifecycle!PutBack
    <3> QED
      BY <3>1 DEF Lifecycle!Next
  <2>3. ASSUME NEW j \in Jobs, status[j] = "queued", ClaimRow(j), UNCHANGED handed
        PROVE  Step
    <3>1. Lifecycle!Take(j)
      BY <2>3 DEF ClaimRow, Lifecycle!Take
    <3> QED
      BY <3>1 DEF Lifecycle!Next
  <2>4. ASSUME NEW t \in Threads, NextAtomic(t) PROVE Step
    BY <2>3, <2>4 DEF NextAtomic, Candidate, Queued
  <2>5. ASSUME NEW t \in Threads, NextClaim(t) PROVE Step
    BY <2>3, <2>5 DEF NextClaim, Safe, ThreadsInv
  <2>6. ASSUME NEW t \in Threads, CompleteWrite(t) PROVE Step
    <3>1. /\ thread[t].job \in Jobs /\ status[thread[t].job] # "absent"
          /\ thread[t].outcome \in Terminal
          /\ thread[t].outcome = "done" => handed[thread[t].job] > 0
      BY <2>6, RequestType DEF CompleteWrite, Safe, ThreadsInv, TypeOK
    <3>2. PICK j \in Jobs, v \in Terminal : j = thread[t].job /\ v = thread[t].outcome
      BY <3>1
    <3>3. Lifecycle!Settle(j, v)
      BY <2>6, <3>1, <3>2
      DEF CompleteWrite, TypeOK, Statuses, Terminal, Lifecycle!Settle,
          Lifecycle!Submitted, Lifecycle!Verdicts
    <3> QED
      BY <3>3 DEF Lifecycle!Next, Lifecycle!Verdicts, Terminal
  <2>7. ASSUME NEW b \in Bridges, Send(b) PROVE Step
    <3>1. /\ pc[b] = "sending" /\ status' = status
          /\ HandOver(job[b]) \/ handed' = handed
      BY <2>7 DEF Send, server
    <3>2. CASE HandOver(job[b])
      <4>1. job[b] \in Jobs /\ status[job[b]] # "absent"
        BY <3>1 DEF Safe, HoldersInv, Holding, AgentPC
      <4>2. PICK j \in Jobs : j = job[b]
        BY <4>1
      <4>3. /\ handed'[j] > 0
            /\ \A k \in Jobs : k # j => handed'[k] = handed[k]
        BY <3>2, <4>2, BridgeAssumption DEF HandOver, TypeOK, PrintCap
      <4>4. Lifecycle!HandOver(j)
        BY <3>1, <4>1, <4>2, <4>3
        DEF TypeOK, Statuses, Terminal, Lifecycle!HandOver, Lifecycle!Submitted, Lifecycle!Verdicts
      <4> QED
        BY <4>4 DEF Lifecycle!Next
    <3> QED
      BY <3>1, <3>2
  <2>8. ASSUME UNCHANGED <<status, handed>> PROVE Step
    BY <2>8
  <2>9. ASSUME NEW t \in Threads, Serve(t) PROVE Step
    BY <2>2, <2>4, <2>5, <2>6, <2>8, <2>9 DEF Serve, NextPick, CompleteRead
  <2>10. ASSUME NEW b \in Bridges, Agent(b) PROVE Step
    BY <2>7, <2>8, <2>10 DEF Agent, Poll, Report, FetchRaster, TimeOut, CallFails, server
  <2>11. CASE Disturbance
    BY <2>8, <2>11
    DEF Disturbance, LoseRequest, LoseReply, FetchFails, Crash, CallFails, server
  <2>12. CASE \E j \in Jobs : GoStale(j)
    BY <2>8, <2>12 DEF GoStale
  <2>13. CASE UNCHANGED vars
    BY <2>8, <2>13 DEF vars
  <2> HIDE DEF Step
  <2> QED
    BY <2>1, <2>9, <2>10, <2>11, <2>12, <2>13 DEF Next
<1> QED
  BY <1>1, <1>2, Inductive, PTL DEF Spec, ImplementsLifecycle, Lifecycle!Spec

-----------------------------------------------------------------------------
(* What the lifecycle promises, whatever implements it.                     *)

\* In the lifecycle a job shown as done was handed over.
LEMMA LifecyclePromise == Lifecycle!Spec => [](Lifecycle!TypeOK /\ Lifecycle!DoneMeansHandedOver)
<1> DEFINE Inv == Lifecycle!TypeOK /\ Lifecycle!DoneMeansHandedOver
<1>1. Lifecycle!Init => Inv
  BY DEF Lifecycle!Init, Lifecycle!TypeOK, Lifecycle!DoneMeansHandedOver
<1>2. Inv /\ [Lifecycle!Next]_(Lifecycle!vars) => Inv'
  <2> SUFFICES ASSUME Inv, [Lifecycle!Next]_(Lifecycle!vars) PROVE Inv'
    OBVIOUS
  <2> USE DEF Lifecycle!TypeOK, Lifecycle!DoneMeansHandedOver, Lifecycle!Submitted, Lifecycle!Verdicts
  <2>1. ASSUME NEW j \in Jobs, Lifecycle!Submit(j) \/ Lifecycle!Take(j) PROVE Inv'
    BY <2>1 DEF Lifecycle!Submit, Lifecycle!Take
  <2>2. ASSUME NEW j \in Jobs, Lifecycle!HandOver(j) PROVE Inv'
    BY <2>2 DEF Lifecycle!HandOver
  <2>3. ASSUME NEW j \in Jobs, NEW v \in Lifecycle!Verdicts, Lifecycle!Settle(j, v) PROVE Inv'
    BY <2>3 DEF Lifecycle!Settle
  <2>4. ASSUME NEW S \in SUBSET Jobs, Lifecycle!PutBack(S) PROVE Inv'
    BY <2>4 DEF Lifecycle!PutBack
  <2>5. CASE UNCHANGED Lifecycle!vars
    BY <2>5 DEF Lifecycle!vars
  <2> QED
    BY <2>1, <2>2, <2>3, <2>4, <2>5 DEF Lifecycle!Next
<1> QED
  BY <1>1, <1>2, PTL DEF Lifecycle!Spec

\* So in remote print mode a job shown as done was handed to a printer at least
\* once, read off the lifecycle.
THEOREM LifecycleDone == Spec => [](Lifecycle!DoneMeansHandedOver)
BY Refinement, LifecyclePromise, PTL DEF ImplementsLifecycle
=============================================================================
