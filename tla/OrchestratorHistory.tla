------------------------ MODULE OrchestratorHistory ------------------------
(***************************************************************************)
(* Orchestrator with history variables, for promises that relate a state   *)
(* to what happened since an earlier one: how long the lane goes on after  *)
(* a pause, why an item was left behind, and why a batch waits in vain.    *)
(* They record and never guard: HistoryNext allows what Next allows.       *)
(***************************************************************************)
EXTENDS Orchestrator

VARIABLES
    lateStarts, \* lateStarts[b]: items of b begun since b was PAUSED
    requeued,   \* items written QUEUED since the lane last selected the
                \* items of their batch
    missed      \* batches whose entry the lane took before the request that
                \* had put it was committed, until they have another one

historyVars == <<lateStarts, requeued, missed>>
allVars == <<vars, historyVars>>

HistoryInit == lateStarts = [b \in Batches |-> 0] /\ requeued = {} /\ missed = {}

Becomes(i, s) == istate[i] # s /\ istate'[i] = s

\* A request has put b into the queue and is about to write QUEUED.
Announced(b) == \E c \in Clients : /\ req[c].batch = b /\ req[c].to = "QUEUED"
                                  /\ ~req[c].enqueue

HistoryNext ==
    /\ Next
    /\ lateStarts' = [b \in Batches |->
          IF bstate'[b] # "PAUSED" THEN 0
          ELSE IF cur = b /\ pc = "item" /\ pc' = "run" THEN lateStarts[b] + 1
          ELSE lateStarts[b]]
    /\ requeued' = IF pc = "select" /\ pc' = "check"
                     THEN {i \in requeued : Owner[i] # cur}
                     ELSE requeued \cup {i \in Items : Becomes(i, "QUEUED")}
    /\ missed' = {b \in Batches :
                    /\ up /\ up' /\ ~InQueue(b)'
                    /\ b \in missed \/ (pc = "idle" /\ cur' = b /\ Announced(b))}

HistorySpec == Init /\ HistoryInit /\ [][HistoryNext]_allVars

FairHistorySpec == HistorySpec /\ Fairness

(* After a pause that stays in force, the lane begins at most the one item *)
(* it had already checked for (batch_processor.py:216-226; api/batches.py: *)
(* 340, "The processor will stop before the next item.").                  *)
PauseStopsLane == \A b \in Batches : lateStarts[b] <= 1

(* An item that still needs processing in a batch that is up for review    *)
(* was put back after the run had collected its items - by a decision, a   *)
(* folder scan or a network failure.  The run forgets none of the items it *)
(* collected (batch_processor.py:174-195, 217, 280).                       *)
NoItemForgotten ==
    \A b \in Batches : bstate[b] = "AWAITING_REVIEW" =>
        \A i \in ItemsOf(b) : istate[i] \in {"QUEUED", "IN_FLIGHT"} => i \in requeued

(* With nothing in flight, a QUEUED batch is in the queue and will be run  *)
(* (api/batches.py:114-116: without the put, batches would "stay QUEUED in *)
(* DB forever").  The one way for it to be left out, other than the        *)
(* exception that ends a run: the idle lane took the entry in the window   *)
(* between the put and the commit of one request (api/batches.py:119, 331; *)
(* items.py, _requeue_batch_if_idle).  Every other order of requests,      *)
(* lane, ticks and restarts keeps it there.                                *)
QueuedIsEnqueued ==
    Quiescent => \A b \in Batches \ (stranded \cup missed) :
                    bstate[b] = "QUEUED" => InQueue(b)

(* A batch that waits or is being worked on gets settled: it comes up for  *)
(* review, or is paused, failed, finished or deleted - unless its run was  *)
(* ended by an exception, or its entry was taken too early.  A crash does  *)
(* not change that.                                                        *)
BatchSettles ==
    \A b \in Batches : bstate[b] \in Busy \cup {"QUEUED"} ~>
        \/ bstate[b] \notin Busy \cup {"QUEUED"}
        \/ b \in stranded \cup missed

=============================================================================
