---------------------------- MODULE Orchestrator ----------------------------
(***************************************************************************)
(* The batch lifecycle of caption_agent: one processing lane fed by an     *)
(* in-memory FIFO queue (main._processing_loop, orchestration/queue.py,    *)
(* orchestration/batch_processor.run_batch), the scheduler                 *)
(* (orchestration/scheduler.py), the HTTP handlers that change batches and *)
(* items (api/batches.py, api/items.py), and a process that can crash and  *)
(* restart (recover_and_load).                                             *)
(*                                                                         *)
(* Grain.  A database session is the unit of atomicity of the program, but *)
(* a handler or helper validates the row it READ and later WRITES blindly  *)
(* (no row is locked by a SELECT).  So a request, a scheduler tick, a      *)
(* transition of a batch and one of an item are each two steps here, read  *)
(* and write, with the other actors in between.  A handler that puts its   *)
(* batch into the queue does so between the two.  Of one item's pipeline   *)
(* run only the transitions and the result are kept; ItemPipeline opens it *)
(* up.                                                                     *)
(***************************************************************************)
EXTENDS Lifecycle, Naturals, Sequences, FiniteSets

CONSTANTS Batches,      \* ids a batch row may get, in creation order
          Projects,     \* the projects, each as the set of its batches
          Items,        \* ids an image item row may get, in creation order
          Owner,        \* the batch of an item
          Threshold,    \* values the consecutive-failure threshold of a batch takes
          Clients,      \* concurrent HTTP requests
          MaxRequests,  \* bound: requests issued in a behaviour
          MaxCrashes,   \* bound: crashes in a behaviour
          MaxQueue      \* bound: queue length beyond which no tick is taken

ASSUME BatchesAssumption == Batches \subseteq Nat \ {0} /\ IsFiniteSet(Batches)
ASSUME ProjectsAssumption == Projects \subseteq SUBSET Batches
ASSUME ItemsAssumption == Items \subseteq Nat /\ IsFiniteSet(Items)
ASSUME OwnerAssumption == Owner \in [Items -> Batches]
ASSUME ThresholdAssumption == Threshold \in [Batches -> SUBSET Nat \ {{}}]
ASSUME BoundsAssumption == {MaxRequests, MaxCrashes, MaxQueue} \subseteq Nat

VARIABLES
    \* The database: survives a crash.
    bstate,     \* bstate[b]: state column of batch b, or UNBORN / DELETED
    istate,     \* istate[i]: state column of item i, or UNBORN / DELETED
    failCount,  \* failCount[b]: Batch.consecutive_failure_counter
    \* The server process: lost in a crash.
    up,         \* the process is running
    queue,      \* BatchQueue: ids awaiting the lane
    pc,         \* where _processing_loop / run_batch stands
    cur,        \* the batch the lane has dequeued, 0 when idle
    target,     \* the state _transition_batch is moving cur to
    todo,       \* item ids of run_batch's snapshot still to be visited
    net,        \* consecutive_network_failures
    move,       \* the write an item transition has validated and not made
    due,        \* batches read by a scheduler tick that has not committed
    req,        \* req[c]: the request c has in flight
    \* Auxiliary.
    stranded,   \* batches whose run was ended by an exception
    issued,     \* requests issued
    crashes     \* crashes suffered

dbVars   == <<bstate, istate, failCount>>
laneVars == <<pc, cur, target, todo, net, move>>
auxVars  == <<stranded, issued, crashes>>
vars == <<dbVars, up, queue, laneVars, due, req, auxVars>>

-----------------------------------------------------------------------------
(* Items, at the grain of this module: the states the pipeline moves an    *)
(* item through while it holds it are one, IN_FLIGHT.                      *)
ItemClass == {"QUEUED", "IN_FLIGHT", "AWAITING_REVIEW", "APPROVED",
              "DROPPED", "SKIPPED", "ERROR"}

\* The states _PENDING_EXPORT_STATES lists, and those run_batch selects.
PendingExport == {"QUEUED", "IN_FLIGHT", "AWAITING_REVIEW"}

\* Bug: items a run left in the middle of the pipeline are not selected again.
Bug_NeedsProcessing == {"QUEUED"}
NeedsProcessing == {"QUEUED", "IN_FLIGHT"}

Decidable == {"AWAITING_REVIEW", "APPROVED", "DROPPED", "SKIPPED", "ERROR"}

\* Bug: REGENERATE sends the item to the state the transition table has for
\* it instead of the one the processor selects.
Bug_DecisionToState == [ACCEPT |-> "APPROVED", DROP |-> "DROPPED",
                        SKIP |-> "SKIPPED", REGENERATE |-> "REGENERATING"]

DecisionToState == [ACCEPT |-> "APPROVED", DROP |-> "DROPPED",
                    SKIP |-> "SKIPPED", REGENERATE |-> "QUEUED"]

NoRow == {"UNBORN", "DELETED"}

\* old_state, as a transition has read it, and the state it goes on to write.
Move == [from : ItemClass, to : ItemClass]
NoMove == [from |-> "NONE", to |-> "NONE"]

BatchExists(b) == bstate[b] \notin NoRow
ItemExists(i) == istate[i] \notin NoRow
ItemsOf(b) == {i \in Items : Owner[i] = b /\ ItemExists(i)}

\* The ids of S in creation order: the ORDER BY of recover_and_load.
InOrder(S) == {s \in [1..Cardinality(S) -> S] :
                  \A m, n \in 1..Cardinality(S) : m < n => s[m] < s[n]}

-----------------------------------------------------------------------------
(* Requests.  A request that passed its checks carries what it will write. *)
Ops == {"queue", "pause", "abort", "export", "delete", "create", "scan",
        "decide"}

\* The batch states some handler writes.
HandlerStates == {"SCHEDULED", "QUEUED", "PAUSED", "ERROR", "DONE"}

Request ==
    [op : Ops, batch : Batches,
     to : HandlerStates \cup {"KEEP", "DELETED"}, \* batch state to write
     items : SUBSET Items, itemTo : ItemClass,    \* item states to write
     gone : SUBSET Items,                         \* item rows to delete
     enqueue : BOOLEAN,   \* put_nowait still to come
     locks : BOOLEAN]     \* holds the row's write lock (flushed)

NoReq == [op |-> "none", batch |-> 0, to |-> "KEEP", items |-> {},
          itemTo |-> "QUEUED", gone |-> {}, enqueue |-> FALSE, locks |-> FALSE]

\* Another transaction has flushed a change of row b and not committed it.
LockedFor(c, b) == \E d \in Clients \ {c} : req[d].locks /\ req[d].batch = b
Locked(b) == \E d \in Clients : req[d].locks /\ req[d].batch = b

TypeOK ==
    /\ bstate \in [Batches -> BatchState \cup NoRow]
    /\ istate \in [Items -> ItemClass \cup NoRow]
    /\ failCount \in [Batches -> Nat]
    /\ up \in BOOLEAN
    /\ queue \in Seq(Batches)
    /\ pc \in {"idle", "read", "transition", "commit", "scan", "select",
               "check", "item", "run", "soft", "ok", "transient",
               "permanent", "failed"}
    /\ cur \in Batches \cup {0}
    /\ target \in {"NONE", "SCANNING", "PROCESSING", "PAUSED", "ERROR",
                   "AWAITING_REVIEW"}
    /\ todo \subseteq Items
    /\ net \in Nat
    /\ move \in Move \cup {NoMove}
    /\ due \subseteq Batches
    /\ req \in [Clients -> Request \cup {NoReq}]
    /\ stranded \subseteq Batches
    /\ issued \in 0..MaxRequests
    /\ crashes \in 0..MaxCrashes

Init ==
    /\ bstate = [b \in Batches |-> "UNBORN"]
    /\ istate = [i \in Items |-> "UNBORN"]
    /\ failCount = [b \in Batches |-> 0]
    /\ up = TRUE
    /\ queue = <<>>
    /\ pc = "idle" /\ cur = 0 /\ target = "NONE" /\ todo = {} /\ net = 0
    /\ move = NoMove
    /\ due = {}
    /\ req = [c \in Clients |-> NoReq]
    /\ stranded = {} /\ issued = 0 /\ crashes = 0

-----------------------------------------------------------------------------
(* The processing lane: _processing_loop and run_batch.                    *)

\* run_batch returns, normally or by an exception, and the loop goes back to
\* queue.get().
EndRun ==
    /\ pc' = "idle" /\ cur' = 0 /\ target' = "NONE" /\ todo' = {} /\ net' = 0
    /\ move' = NoMove

Transition(s) == pc' = "transition" /\ target' = s /\ UNCHANGED <<cur, move>>

Dequeue ==
    /\ up /\ pc = "idle" /\ queue # <<>>
    /\ due = {}          \* a tick runs on the event loop without yielding
    /\ pc' = "read" /\ cur' = Head(queue) /\ queue' = Tail(queue)
    /\ UNCHANGED <<dbVars, up, target, todo, net, move, due, req, auxVars>>

\* The scan phase is run only for a batch read as QUEUED.
ReadBatchRow ==
    /\ pc = "read"
    /\ IF BatchExists(cur)
         THEN /\ Transition(IF bstate[cur] = "QUEUED" THEN "SCANNING"
                                                      ELSE "PROCESSING")
              /\ UNCHANGED <<todo, net>>
         ELSE EndRun
    /\ UNCHANGED <<dbVars, up, queue, due, req, auxVars>>

\* _transition_batch: read the row and validate.  Wherever it refuses,
\* run_batch has nothing more to do.
TransitionRead ==
    /\ pc = "transition"
    /\ IF BatchExists(cur) /\ is_valid_batch_transition(bstate[cur], target)
         THEN pc' = "commit" /\ UNCHANGED <<cur, target, todo, net, move>>
         ELSE EndRun
    /\ UNCHANGED <<dbVars, up, queue, due, req, auxVars>>

\* _transition_batch: the UPDATE, of a row that may have changed since.
TransitionCommit ==
    /\ pc = "commit" /\ ~Locked(cur) /\ BatchExists(cur)
    /\ bstate' = [bstate EXCEPT ![cur] = target]
    /\ stranded' = stranded \ {cur}
    /\ \/ /\ \/ target = "SCANNING" /\ pc' = "scan"
             \/ target = "PROCESSING" /\ pc' = "select"
          /\ UNCHANGED <<cur, target, todo, net, move>>
       \/ target \notin {"SCANNING", "PROCESSING"} /\ EndRun
    /\ UNCHANGED <<istate, failCount, up, queue, due, req, issued, crashes>>

\* An exception leaves run_batch, whose loop logs it and takes the next
\* batch: settings that do not validate, an LLM client that cannot be set up,
\* a rule that does not compile, or a session of one of its steps that the
\* database refuses - the UPDATE has waited too long for the write lock, or
\* its row is gone.
RunRaises ==
    /\ pc # "idle"
    /\ EndRun
    /\ stranded' = stranded \cup {cur}
    /\ UNCHANGED <<dbVars, up, queue, due, req, issued, crashes>>

\* Bug: the run goes on to the items without _transition_batch(PROCESSING).
Bug_ScanItems ==
    /\ pc = "scan" /\ pc' = "select"
    /\ UNCHANGED <<dbVars, up, queue, cur, target, todo, net, move, due, req,
                   auxVars>>

\* The scan loop changes no lifecycle state.  It ends early only when the
\* batch row disappears; it looks at nothing else.
ScanItems ==
    /\ pc = "scan"
    /\ \/ Transition("PROCESSING") /\ UNCHANGED <<todo, net>>
       \/ ~BatchExists(cur) /\ EndRun
    /\ UNCHANGED <<dbVars, up, queue, due, req, auxVars>>

SelectItems ==
    /\ pc = "select"
    /\ todo' = {i \in ItemsOf(cur) : istate[i] \in NeedsProcessing}
    /\ net' = 0
    /\ pc' = "check"
    /\ UNCHANGED <<dbVars, up, queue, cur, target, move, due, req, auxVars>>

\* Bug: the item loop does not look for a pause.
Bug_CheckBatch ==
    /\ pc = "check"
    /\ IF todo = {}
         THEN Transition("AWAITING_REVIEW") /\ UNCHANGED <<todo, net>>
         ELSE IF BatchExists(cur)
                THEN pc' = "item" /\ UNCHANGED <<cur, target, todo, net, move>>
                ELSE EndRun
    /\ UNCHANGED <<dbVars, up, queue, due, req, auxVars>>

\* Head of the item loop: out of items, or the soft-pause check.
CheckBatch ==
    /\ pc = "check"
    /\ IF todo = {}
         THEN Transition("AWAITING_REVIEW") /\ UNCHANGED <<todo, net>>
         ELSE IF BatchExists(cur) /\ bstate[cur] # "PAUSED"
                THEN pc' = "item" /\ UNCHANGED <<cur, target, todo, net, move>>
                ELSE EndRun
    /\ UNCHANGED <<dbVars, up, queue, due, req, auxVars>>

-----------------------------------------------------------------------------
(* One item: _process_item and what run_batch makes of its result.         *)

NextItem == CHOOSE i \in todo : \A j \in todo : i <= j

SetItem(i, s) == istate' = [istate EXCEPT ![i] = s]

\* What the lane leaves alone as it works on an item.
ItemFrame == UNCHANGED <<bstate, up, queue, cur, due, req, auxVars>>

\* Bug: the state is written without asking the transition table.
Bug_Read(S, s) == move' = [from |-> istate[NextItem], to |-> s]

\* _transition_item, _requeue_item and _set_item_error read the row and
\* validate the transition to s, which the table has from the states in S.
Read(S, s) ==
    move' = IF istate[NextItem] \in S THEN [from |-> istate[NextItem], to |-> s]
                                      ELSE NoMove

\* The step begins with a transition to s and goes on at pc'.
Step(from, to, S, s) ==
    /\ pc \in from /\ pc' = to /\ move = NoMove
    /\ Read(S, s)
    /\ UNCHANGED <<istate, failCount, target, todo, net>> /\ ItemFrame

\* The UPDATE, of a row that may have changed since: whatever it finds there
\* it overwrites.
WriteMove ==
    /\ move # NoMove /\ ItemExists(NextItem)
    /\ SetItem(NextItem, move.to)
    /\ move' = NoMove
    /\ UNCHANGED <<failCount, pc, target, todo, net>> /\ ItemFrame

\* _set_item_error alone takes it that the row is gone.
ErrorLost ==
    /\ move.to = "ERROR" /\ ~ItemExists(NextItem)
    /\ move' = NoMove
    /\ UNCHANGED <<istate, failCount, pc, target, todo, net>> /\ ItemFrame

StartItem == Step({"item"}, "run", {"QUEUED"}, "IN_FLIGHT")

\* The transitions between two steps of the pipeline.
Advance == Step({"run"}, "run", {"IN_FLIGHT"}, "IN_FLIGHT")

\* From these the table lets an item come up for review: the pipeline has it,
\* or the user has skipped it.
Reviewable == {"IN_FLIGHT", "SKIPPED"}

\* The soft fallback shows the item to the reviewer before the run of the
\* item is over.
SoftFallback == Step({"run"}, "soft", Reviewable, "AWAITING_REVIEW")

FinishItem == Step({"run", "soft"}, "ok", Reviewable, "AWAITING_REVIEW")

\* _requeue_item.
RequeueItem == Step({"run"}, "transient", {"IN_FLIGHT"}, "QUEUED")

\* _set_item_error.
FailItem ==
    Step({"run"}, "permanent", {"IN_FLIGHT", "QUEUED", "AWAITING_REVIEW"}, "ERROR")

\* Bug: the loop does not advance.
Bug_NextCheck == pc' = "check" /\ UNCHANGED <<todo, cur, target, move>>

NextCheck == pc' = "check" /\ todo' = todo \ {NextItem} /\ UNCHANGED <<cur, target, move>>

\* run_batch is given the result of the item once its transition is written.
Result(r) == pc = r /\ move = NoMove /\ UNCHANGED <<bstate, istate, up, queue, due, req, auxVars>>

\* _reset_batch_failure_counter.
ItemOk ==
    /\ Result("ok")
    /\ failCount' = IF BatchExists(cur) THEN [failCount EXCEPT ![cur] = 0]
                                        ELSE failCount
    /\ net' = 0
    /\ NextCheck

\* The network-failure threshold pauses the batch.
ItemTransient ==
    /\ Result("transient")
    /\ net' = net + 1 /\ UNCHANGED failCount
    /\ \E limit \in Threshold[cur] :
          IF net + 1 >= limit THEN Transition("PAUSED") /\ UNCHANGED todo
                              ELSE NextCheck

\* n: how often the run of the item records a batch failure - not at all
\* (context reader), once, or twice (LLM checker).
RecordFailures(n) ==
    /\ Result("permanent")
    /\ failCount' = IF BatchExists(cur) THEN [failCount EXCEPT ![cur] = @ + n]
                                        ELSE failCount
    /\ pc' = "failed" /\ UNCHANGED <<cur, target, todo, net, move>>

\* _consecutive_failures_exceeded.
ItemPermanent ==
    /\ Result("failed")
    /\ net' = 0 /\ UNCHANGED failCount
    /\ \E limit \in Threshold[cur] :
          IF BatchExists(cur) /\ failCount[cur] >= limit
            THEN Transition("ERROR") /\ UNCHANGED todo
            ELSE NextCheck

EndItem == SoftFallback \/ FinishItem \/ RequeueItem \/ FailItem

RunItem ==
    \/ StartItem \/ Advance \/ EndItem \/ WriteMove \/ ErrorLost
    \/ ItemOk \/ ItemTransient \/ (\E n \in 0..2 : RecordFailures(n)) \/ ItemPermanent

Lane ==
    \/ Dequeue \/ ReadBatchRow \/ TransitionRead \/ TransitionCommit
    \/ ScanItems \/ SelectItems \/ CheckBatch \/ RunItem \/ RunRaises

-----------------------------------------------------------------------------
(* HTTP handlers.  Begin*: the handler has read its rows and passed its    *)
(* checks; a refused request changes nothing and is not modelled.          *)

Begin(c, r) ==
    /\ up /\ req[c] = NoReq /\ issued < MaxRequests
    /\ issued' = issued + 1
    /\ req' = [req EXCEPT ![c] = r]
    /\ UNCHANGED <<dbVars, up, queue, laneVars, due, stranded, crashes>>

CanMove(b, s) == BatchExists(b) /\ is_valid_batch_transition(bstate[b], s)

\* Bug: the handler writes QUEUED and does not put the batch into the queue.
Bug_BeginQueue(c, b) ==
    /\ CanMove(b, "QUEUED")
    /\ Begin(c, [NoReq EXCEPT !.op = "queue", !.batch = b, !.to = "QUEUED"])

\* queue_batch and resume_batch differ only in the reason they record.
BeginQueue(c, b) ==
    /\ CanMove(b, "QUEUED")
    /\ Begin(c, [NoReq EXCEPT !.op = "queue", !.batch = b, !.to = "QUEUED",
                              !.enqueue = TRUE])

BeginPause(c, b) ==
    /\ CanMove(b, "PAUSED")
    /\ Begin(c, [NoReq EXCEPT !.op = "pause", !.batch = b, !.to = "PAUSED"])

BeginAbort(c, b) ==
    /\ CanMove(b, "ERROR")
    /\ Begin(c, [NoReq EXCEPT !.op = "abort", !.batch = b, !.to = "ERROR"])

\* export_batch_endpoint up to its check.
BeginExport(c, b) ==
    /\ bstate[b] \in {"AWAITING_REVIEW", "DONE"}
    /\ \A i \in ItemsOf(b) : istate[i] \notin PendingExport
    /\ is_valid_batch_transition(bstate[b], "EXPORTING")
    /\ Begin(c, [NoReq EXCEPT !.op = "export", !.batch = b, !.to = "DONE"])

BeginDelete(c, b) ==
    /\ BatchExists(b) /\ bstate[b] # "PROCESSING"
    /\ Begin(c, [NoReq EXCEPT !.op = "delete", !.batch = b, !.to = "DELETED"])

\* The new row is flushed, and its lock held, before anything else happens.
\* found: the image files of the source folder, none if it is missing.
BeginCreate(c, b, scheduled, found) ==
    /\ bstate[b] = "UNBORN"
    /\ \A d \in Batches : d < b => bstate[d] # "UNBORN"
    /\ \A d \in Clients : req[d].op # "create"
    /\ Begin(c, [NoReq EXCEPT !.op = "create", !.batch = b,
                              !.to = IF scheduled THEN "SCHEDULED" ELSE "QUEUED",
                              !.items = found,
                              !.enqueue = ~scheduled, !.locks = TRUE])

\* scan_batch: rows for new files, rows of vanished files deleted.
BeginScan(c, b, found, vanished) ==
    /\ BatchExists(b) /\ bstate[b] \notin {"PROCESSING", "SCANNING"}
    /\ vanished \subseteq ItemsOf(b)
    /\ found \cup vanished # {}
    /\ Begin(c, [NoReq EXCEPT !.op = "scan", !.batch = b, !.items = found,
                              !.gone = vanished])

\* The ids a scan of b's folder may allocate.
NewItems(b) == {i \in Items : Owner[i] = b /\ istate[i] = "UNBORN"}

\* decide_item takes one decidable item; mass_decide the decidable ones of a
\* list of ids, or the items found in one state (state_filter: any state).
\* An ACCEPT leaves out items with warnings, so any subset can remain.
Selectable(S) ==
    \/ \A i \in S : istate[i] \in Decidable
    \/ \A i, j \in S : istate[i] = istate[j]

\* _requeue_batch_if_idle.
RequeuesBatch(b, d) == /\ d = "REGENERATE"
                       /\ bstate[b] \notin {"QUEUED", "PROCESSING"}
                       /\ CanMove(b, "QUEUED")

BeginDecide(c, b, S, d) ==
    /\ S # {} /\ S \subseteq ItemsOf(b) /\ Selectable(S)
    /\ LET s == DecisionToState[d]
           r == RequeuesBatch(b, d)
       IN Begin(c, [NoReq EXCEPT !.op = "decide", !.batch = b,
                      !.to = IF r THEN "QUEUED" ELSE "KEEP",
                      !.items = {i \in S : istate[i] # s}, !.itemTo = s,
                      !.enqueue = r])

\* put_nowait.  queue_batch and resume_batch flush first, create_batch has
\* done so; whether the ORM has flushed a decision by then is left open.
Enqueue(c) ==
    /\ req[c].enqueue /\ ~LockedFor(c, req[c].batch)
    /\ queue' = Append(queue, req[c].batch)
    /\ \E l \in (IF req[c].op = "decide" THEN BOOLEAN ELSE {TRUE}) :
          req' = [req EXCEPT ![c].enqueue = FALSE, ![c].locks = l]
    /\ UNCHANGED <<dbVars, up, laneVars, due, auxVars>>

\* The export flushes EXPORTING; it writes the files, and DONE over it, in the
\* same transaction.
Flush(c) ==
    LET b == req[c].batch IN
    /\ req[c].op = "export" /\ ~req[c].locks
    /\ BatchExists(b) /\ ~LockedFor(c, b)
    /\ req' = [req EXCEPT ![c].locks = TRUE]
    /\ UNCHANGED <<dbVars, up, queue, laneVars, due, auxVars>>

\* The rows a request is about to write are still there.
RowsPresent(r) ==
    /\ IF r.op = "create" THEN bstate[r.batch] = "UNBORN"
                          ELSE BatchExists(r.batch)
    /\ \A i \in r.items : IF r.op \in {"create", "scan"}
                            THEN istate[i] = "UNBORN" ELSE ItemExists(i)

\* get_session commits after the handler returned.
Commit(c) ==
    LET r == req[c] IN
    /\ r.op # "none" /\ ~r.enqueue /\ (r.op = "export" => r.locks)
    /\ ~LockedFor(c, r.batch) /\ RowsPresent(r)
    /\ bstate' = IF r.to = "KEEP" THEN bstate
                                  ELSE [bstate EXCEPT ![r.batch] = r.to]
    /\ istate' = [i \in Items |->
                    IF i \in r.items THEN r.itemTo
                    ELSE IF i \in r.gone \/ (r.op = "delete" /\ i \in ItemsOf(r.batch))
                           THEN "DELETED" ELSE istate[i]]
    /\ req' = [req EXCEPT ![c] = NoReq]
    /\ UNCHANGED <<failCount, up, queue, laneVars, due, auxVars>>

\* The request fails (a row is gone, the write lock is not had in time, a
\* file cannot be written) and its session is rolled back.  What it has put
\* into the queue stays there.
RollBack(c) ==
    /\ req[c].op # "none"
    /\ req' = [req EXCEPT ![c] = NoReq]
    /\ UNCHANGED <<dbVars, up, queue, laneVars, due, auxVars>>

\* delete_project: the rows of its batches and their items go with it,
\* whatever state they are in.  It looks at nothing before it deletes, so
\* that it is one step; a batch of it that is not there yet will never be.
DeleteProject(c, P) ==
    /\ up /\ req[c] = NoReq /\ issued < MaxRequests
    /\ \A b \in P : ~Locked(b)
    /\ issued' = issued + 1
    /\ bstate' = [b \in Batches |-> IF b \in P THEN "DELETED" ELSE bstate[b]]
    /\ istate' = [i \in Items |-> IF Owner[i] \in P /\ ItemExists(i)
                                    THEN "DELETED" ELSE istate[i]]
    /\ UNCHANGED <<failCount, up, queue, laneVars, due, req, stranded, crashes>>

\* Begin has the same guard; here it spares TLC the rest.
Arrives(c) ==
    /\ req[c] = NoReq /\ issued < MaxRequests
    /\ \E b \in Batches :
         \/ BeginQueue(c, b) \/ BeginPause(c, b) \/ BeginAbort(c, b)
         \/ BeginExport(c, b) \/ BeginDelete(c, b)
         \/ \E found \in SUBSET NewItems(b) :
              \/ \E scheduled \in BOOLEAN : BeginCreate(c, b, scheduled, found)
              \/ \E vanished \in SUBSET ItemsOf(b) : BeginScan(c, b, found, vanished)
         \/ \E S \in SUBSET ItemsOf(b), d \in DOMAIN DecisionToState :
              BeginDecide(c, b, S, d)

Proceeds(c) == Enqueue(c) \/ Flush(c) \/ Commit(c) \/ RollBack(c)

Handler(c) == Arrives(c) \/ Proceeds(c)

-----------------------------------------------------------------------------
(* The scheduler: _tick.                                                   *)

\* S: the scheduled batches whose time has come.
TickRead(S) ==
    /\ up /\ due = {} /\ S # {} /\ Len(queue) < MaxQueue
    /\ \A b \in S : bstate[b] = "SCHEDULED"
    /\ due' = S
    /\ \E s \in InOrder(S) : queue' = queue \o s
    /\ UNCHANGED <<dbVars, up, laneVars, req, auxVars>>

\* Bug: the due batches are put into the queue and their rows left alone.
Bug_TickCommit ==
    /\ due # {} /\ due' = {}
    /\ UNCHANGED <<dbVars, up, queue, laneVars, req, auxVars>>

TickCommit ==
    /\ due # {} /\ \A b \in due : BatchExists(b) /\ ~Locked(b)
    /\ bstate' = [b \in Batches |-> IF b \in due THEN "QUEUED" ELSE bstate[b]]
    /\ due' = {}
    /\ UNCHANGED <<istate, failCount, up, queue, laneVars, req, auxVars>>

\* The tick's session fails as a whole; scheduler_loop logs it and polls on.
TickFails ==
    /\ due # {}
    /\ (\E b \in due : ~BatchExists(b)) \/ (\E c \in Clients : req[c].locks)
    /\ due' = {}
    /\ UNCHANGED <<dbVars, up, queue, laneVars, req, auxVars>>

Scheduler == (\E S \in SUBSET Batches : TickRead(S)) \/ TickCommit \/ TickFails

-----------------------------------------------------------------------------
(* The process.                                                            *)

\* The process dies (or is replaced: admin restart) at any point.
Crash ==
    /\ up /\ crashes < MaxCrashes
    /\ up' = FALSE /\ crashes' = crashes + 1
    /\ queue' = <<>> /\ due' = {} /\ EndRun
    /\ req' = [c \in Clients |-> NoReq]
    /\ UNCHANGED <<dbVars, stranded, issued>>

Busy == {"SCANNING", "PROCESSING"}

\* Bug: the queue is loaded before the orphans are reset.
Bug_RestartLoadsFirst ==
    /\ ~up /\ up' = TRUE
    /\ bstate' = [b \in Batches |-> IF bstate[b] \in Busy THEN "QUEUED"
                                                          ELSE bstate[b]]
    /\ queue' \in InOrder({b \in Batches : bstate[b] = "QUEUED"})
    /\ stranded' = {}
    /\ UNCHANGED <<istate, failCount, laneVars, due, req, issued, crashes>>

\* Bug: a batch that was being scanned is not recovered.
Bug_RestartSkipsScanning ==
    /\ ~up /\ up' = TRUE
    /\ bstate' = [b \in Batches |-> IF bstate[b] = "PROCESSING" THEN "QUEUED"
                                                               ELSE bstate[b]]
    /\ queue' \in InOrder({b \in Batches : bstate'[b] = "QUEUED"})
    /\ stranded' = {}
    /\ UNCHANGED <<istate, failCount, laneVars, due, req, issued, crashes>>

\* lifespan calls recover_and_load before it starts the scheduler and the
\* lane.
Restart ==
    /\ ~up /\ up' = TRUE
    /\ bstate' = [b \in Batches |-> IF bstate[b] \in Busy THEN "QUEUED"
                                                          ELSE bstate[b]]
    /\ queue' \in InOrder({b \in Batches : bstate'[b] = "QUEUED"})
    /\ stranded' = {}
    /\ UNCHANGED <<istate, failCount, laneVars, due, req, issued, crashes>>

-----------------------------------------------------------------------------
Next ==
    \/ Lane \/ Scheduler \/ Crash \/ Restart
    \/ \E c \in Clients : Handler(c) \/ \E P \in Projects : DeleteProject(c, P)

Spec == Init /\ [][Next]_vars

(***************************************************************************)
(* Fairness.  A run of run_batch always moves on: every LLM request has a  *)
(* timeout and a bounded number of retries, every loop a bound.  The bound *)
(* on the transitions of one item is strong fairness of its end here, and  *)
(* ItemPipeline's ItemRunEnds there.  A handler ends by committing or      *)
(* rolling back.  The scheduler polls for ever and every schedule_at       *)
(* arrives.  A server that went down is started again.                     *)
(***************************************************************************)
Fairness ==
    /\ WF_vars(Lane) /\ SF_vars(EndItem)
    /\ WF_vars(\E S \in SUBSET Batches : TickRead(S))
    /\ WF_vars(TickCommit \/ TickFails)
    /\ \A c \in Clients : WF_vars(Proceeds(c))
    /\ WF_vars(Restart)

FairSpec == Spec /\ Fairness

-----------------------------------------------------------------------------
(* Properties.                                                             *)

(* A batch is in SCANNING or PROCESSING only while the lane is working on  *)
(* it: the queue is single-lane, no request, tick or restart and no batch  *)
(* the lane has left keeps such a state.  Only a run that was ended by an  *)
(* exception leaves its batch behind (batch_processor.run_batch,           *)
(* main._processing_loop).                                                 *)
LaneExclusive ==
    up => \A b \in Batches : bstate[b] \in Busy =>
                b \in stranded \/ (cur = b /\ pc # "idle")

(* Which states the lane's batch can be found in as the run advances; with *)
(* LaneExclusive and TypeOK this is inductive.  Whatever requests write in *)
(* between, a run that has passed _transition_batch(PROCESSING) never      *)
(* finds its batch SCANNING, and before that finds it PROCESSING only if   *)
(* an earlier run left it so.                                              *)
Moving(S) == pc \in {"transition", "commit"} /\ target \in S
Early == pc = "read" \/ Moving({"SCANNING"})
Entering == pc = "scan" \/ Moving({"PROCESSING"})
AtItem == pc \in {"item", "run", "soft", "ok", "transient", "permanent", "failed"}
Working == \/ pc \in {"select", "check"} \/ AtItem
           \/ Moving({"PAUSED", "ERROR", "AWAITING_REVIEW"})
LanePhase ==
    /\ pc # "idle" => up /\ cur \in Batches
    /\ pc \in {"transition", "commit"} => target # "NONE"
    /\ Early => (bstate[cur] \in Busy => cur \in stranded)
    /\ Entering => (bstate[cur] = "PROCESSING" => cur \in stranded)
    /\ Working => bstate[cur] # "SCANNING"

(* The pipeline takes back no decision it could know of: an item that was  *)
(* approved or dropped keeps that state through every step of the lane,    *)
(* unless the decision was committed between a transition's read of the    *)
(* row and its write (_transition_item, _requeue_item, _set_item_error:    *)
(* old_state is what was read, and the UPDATE asks no more).               *)
DecisionSticks ==
    [][Lane => \A i \in Items :
          istate[i] \in {"APPROVED", "DROPPED"} /\ istate'[i] # istate[i]
             => move.to = istate'[i] /\ move.from # istate[i]]_vars

(* Whatever happens to an item happens in the steps ItemRun allows: no     *)
(* request or restart puts one in flight, and the lane only writes what a  *)
(* transition of the run that has the item, and no other, has validated.   *)
ItemPhase(i) == IF AtItem /\ pc # "item" /\ i = NextItem
                  THEN IF pc \in {"run", "soft"} THEN pc ELSE "over"
                  ELSE "idle"
ItemMove(i) == IF ItemPhase(i) = "idle" THEN "NONE" ELSE move.to
Contract(i) == INSTANCE ItemRun
                   WITH item <- istate[i], phase <- ItemPhase(i), move <- ItemMove(i)
ItemsKeepContract ==
    [][\A i \in Items :
          [Contract(i)!Next]_<<istate[i], ItemPhase(i), ItemMove(i)>>]_vars

(* The lane takes back no DROP and no SKIP (docs/help/en/pipeline_image_   *)
(* lifecycle.md:48, "Dropped / Skipped - both are terminal states with no  *)
(* export"; item_states.py:36, "Skip is sticky until next review session").*)
DecidedIsTerminal ==
    [][Lane => \A i \in Items :
          istate[i] \in {"DROPPED", "SKIPPED"} => istate'[i] = istate[i]]_vars

\* Nothing is in flight, and who is in the queue.
Quiescent == up /\ pc = "idle" /\ due = {} /\ \A c \in Clients : req[c] = NoReq
InQueue(b) == \E n \in DOMAIN queue : queue[n] = b

(* An idle lane leaves no item of a batch under review unprocessed         *)
(* (batch_processor.py:11: "After all items reach a terminal-or-review     *)
(* state the batch transitions to AWAITING_REVIEW").                       *)
ReviewIsSettled ==
    \A b \in Batches : bstate[b] = "AWAITING_REVIEW" /\ Quiescent =>
        \A i \in ItemsOf(b) : istate[i] \notin {"QUEUED", "IN_FLIGHT"}

(* DONE is left only by deletion (batch_states.py:21: "no transitions out  *)
(* except deletion").                                                      *)
DoneIsTerminal ==
    [][\A b \in Batches : bstate[b] = "DONE" => bstate'[b] \in {"DONE", "DELETED"}]_vars

(* The lane does not undo a pause (api/batches.py:340: "The processor will *)
(* stop before the next item.").                                           *)
PauseIsKept ==
    [][Lane => \A b \in Batches : bstate[b] = "PAUSED" => bstate'[b] = "PAUSED"]_vars

(* Every run of the lane ends, whatever requests and failures come.        *)
RunEnds == pc # "idle" ~> pc = "idle"

(* A scheduled batch leaves SCHEDULED: its time comes, also after a        *)
(* downtime (scheduler.py:5, "Missed schedules ... are queued immediately  *)
(* on startup").                                                           *)
ScheduledIsQueued ==
    \A b \in Batches : bstate[b] = "SCHEDULED" ~> bstate[b] # "SCHEDULED"

=============================================================================
