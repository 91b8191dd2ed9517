------------------------------ MODULE ItemRun -------------------------------
(***************************************************************************)
(* What one run of the pipeline may do to an item's lifecycle state, seen  *)
(* from outside: the contract between batch_processor.run_batch and        *)
(* _process_item.  Orchestrator relies on it for every item and            *)
(* ItemPipeline keeps it; both are shown to implement this module.         *)
(*                                                                         *)
(* It is what the code does: a transition is validated against the state   *)
(* read, and written over whatever a request has put there meanwhile, and  *)
(* an item the user has skipped comes up for review again.                 *)
(***************************************************************************)
EXTENDS Naturals

VARIABLES
    item,   \* the state of the item, the in-flight ones being one IN_FLIGHT
    phase,  \* idle: no run has the item; run: one has;
            \* soft: one has, and puts it up for review already;
            \* over: one had, and has its result
    move    \* the state a transition is about to write, or NONE

vars == <<item, phase, move>>

ItemClass == {"QUEUED", "IN_FLIGHT", "AWAITING_REVIEW", "APPROVED",
              "DROPPED", "SKIPPED", "ERROR", "UNBORN", "DELETED"}

Init == item \in {"UNBORN", "QUEUED"} /\ phase = "idle" /\ move = "NONE"

\* A transition to s is valid from the states in S.
Read(from, to, S, s) ==
    /\ phase \in from /\ phase' = to
    /\ move = "NONE" /\ move' = IF item \in S THEN s ELSE "NONE"
    /\ UNCHANGED item

Start == Read({"idle"}, "run", {"QUEUED"}, "IN_FLIGHT")
Advance == Read({"run"}, "run", {"IN_FLIGHT"}, "IN_FLIGHT")
SoftReview == Read({"run"}, "soft", {"IN_FLIGHT", "SKIPPED"}, "AWAITING_REVIEW")
Ok == Read({"run", "soft"}, "over", {"IN_FLIGHT", "SKIPPED"}, "AWAITING_REVIEW")
Transient == Read({"run"}, "over", {"IN_FLIGHT"}, "QUEUED")
Permanent == Read({"run"}, "over", {"IN_FLIGHT", "QUEUED", "AWAITING_REVIEW"}, "ERROR")

Write ==
    /\ move # "NONE" /\ item \notin {"UNBORN", "DELETED"}
    /\ item' = move /\ move' = "NONE"
    /\ UNCHANGED phase

\* The row is gone, and the run goes on.
Lost == move = "ERROR" /\ item = "DELETED" /\ move' = "NONE" /\ UNCHANGED <<item, phase>>

\* The result is taken; or an exception or a crash ends the run.
Return == phase = "over" /\ move = "NONE" /\ phase' = "idle" /\ UNCHANGED <<item, move>>
Interrupted == phase # "idle" /\ phase' = "idle" /\ move' = "NONE" /\ UNCHANGED item

\* What requests write: the state a decision selects, a new or deleted row.
Request ==
    /\ UNCHANGED <<phase, move>>
    /\ \/ item = "UNBORN" /\ item' = "QUEUED"
       \/ item \notin {"UNBORN", "DELETED"}
          /\ item' \in {"QUEUED", "APPROVED", "DROPPED", "SKIPPED", "DELETED"}

Run == Start \/ Advance \/ SoftReview \/ Ok \/ Transient \/ Permanent
Next == Run \/ Write \/ Lost \/ Return \/ Interrupted \/ Request

Spec == Init /\ [][Next]_vars

=============================================================================
