---------------------------- MODULE JobLifecycle ----------------------------
(***************************************************************************)
(* What both print modes promise about a print_jobs row (the lifecycle in  *)
(* the module comment of app/services/print_queue.py and the status column *)
(* of PrintJob): queued -> printing -> done | error, and a job is shown    *)
(* as done only when it was handed to a printer.  What the printer made of *)
(* it neither mode learns.                                                 *)
(*                                                                         *)
(* Retakes says whether claims time out.  With the in-process worker they  *)
(* do not: the lifecycle is walked once and a verdict is final.  With the  *)
(* store-side bridge they do: a claimed job may go back to the queue, and  *)
(* then an agent that still holds the old claim may print or report it     *)
(* whatever its row says.                                                  *)
(***************************************************************************)
EXTENDS Naturals

CONSTANTS Jobs, Retakes

VARIABLES
  status,    \* the row's status; "absent" before the INSERT
  handedOver \* the job was handed to a printer at least once

vars == <<status, handedOver>>

Verdicts == {"done", "error"}
Submitted == {"queued", "printing"} \cup Verdicts

\* Both variables keep their types.
TypeOK ==
  /\ status \in [Jobs -> Submitted \cup {"absent"}]
  /\ handedOver \in [Jobs -> BOOLEAN]

Init ==
  /\ status = [j \in Jobs |-> "absent"]
  /\ handedOver = [j \in Jobs |-> FALSE]

Submit(j) ==
  /\ status[j] = "absent"
  /\ status' = [status EXCEPT ![j] = "queued"]
  /\ UNCHANGED handedOver

Take(j) ==
  /\ status[j] = "queued"
  /\ status' = [status EXCEPT ![j] = "printing"]
  /\ UNCHANGED handedOver

HandOver(j) ==
  /\ IF Retakes THEN status[j] \in Submitted ELSE status[j] = "printing"
  /\ handedOver' = [handedOver EXCEPT ![j] = TRUE]
  /\ UNCHANGED status

Settle(j, verdict) ==
  /\ IF Retakes
       THEN status[j] \in Submitted
       ELSE \/ status[j] = "printing"
            \/ status[j] = "queued" /\ verdict = "error"
  /\ verdict = "done" => handedOver[j]
  /\ status' = [status EXCEPT ![j] = verdict]
  /\ UNCHANGED handedOver

PutBack(S) ==
  /\ Retakes
  /\ \A j \in S : status[j] = "printing"
  /\ status' = [j \in Jobs |-> IF j \in S THEN "queued" ELSE status[j]]
  /\ UNCHANGED handedOver

Next ==
  \/ \E j \in Jobs : Submit(j) \/ Take(j) \/ HandOver(j)
  \/ \E j \in Jobs, v \in Verdicts : Settle(j, v)
  \/ \E S \in SUBSET Jobs : PutBack(S)

Spec == Init /\ [][Next]_vars

\* A job shown as done was handed to a printer.
DoneMeansHandedOver == \A j \in Jobs : status[j] = "done" => handedOver[j]

\* Without re-queues a verdict is final and nothing is handed over after it.
KeepsVerdicts ==
  ~Retakes => \A j \in Jobs :
    status[j] \in Verdicts => status'[j] = status[j] /\ handedOver'[j] = handedOver[j]
VerdictIsFinal == [][KeepsVerdicts]_vars
=============================================================================
