--------------------------- MODULE MCOrchestrator ---------------------------
(* Small instances of Orchestrator: up to two batches and three items.     *)
EXTENDS Orchestrator

MCOwner == [i \in Items |-> IF i = 3 THEN 2 ELSE 1]
MCProjects == {Batches}
MCThreshold == [b \in Batches |-> 1..b]

(* The server is about to be started on a database an earlier run of it    *)
(* left: batch 1 waits in it with its items, the other is yet to be        *)
(* created.  Spec reaches this state with one more request.                *)
StartOnQueued ==
    /\ bstate = [b \in Batches |-> IF b = 1 THEN "QUEUED" ELSE "UNBORN"]
    /\ istate = [i \in Items |-> IF Owner[i] = 1 THEN "QUEUED" ELSE "UNBORN"]
    /\ failCount = [b \in Batches |-> 0]
    /\ up = FALSE
    /\ queue = <<>>
    /\ pc = "idle" /\ cur = 0 /\ target = "NONE" /\ todo = {} /\ net = 0
    /\ move = NoMove
    /\ due = {}
    /\ req = [c \in Clients |-> NoReq]
    /\ stranded = {} /\ issued = 0 /\ crashes = 0

MCSpec == StartOnQueued /\ [][Next]_vars

=============================================================================
