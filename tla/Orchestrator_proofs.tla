------------------------ MODULE Orchestrator_proofs ------------------------
(***************************************************************************)
(* Proofs about Orchestrator and its history variables, for every set of   *)
(* batches, items and clients, every threshold and every bound.            *)
(***************************************************************************)
EXTENDS OrchestratorHistory, FiniteSetTheorems, TLAPS

(* What a run of the lane needs of the table: the states it moves a batch  *)
(* to from PROCESSING, and from SCANNING, are never refused.               *)
LEMMA LaneMovesAreValid ==
    /\ \A s \in {"PAUSED", "ERROR", "AWAITING_REVIEW"} :
          is_valid_batch_transition("PROCESSING", s)
    /\ is_valid_batch_transition("SCANNING", "PROCESSING")
BY DEF is_valid_batch_transition, BATCH_TRANSITIONS, BATCH_ACTIVE_STATES

(* The sequences recover_and_load and _tick put into the queue.            *)
LEMMA InOrderType ==
    ASSUME NEW S \in SUBSET Batches, NEW s \in InOrder(S)
    PROVE  s \in Seq(Batches)
<1>1. IsFiniteSet(S)
  BY BatchesAssumption, FS_Subset
<1>2. Cardinality(S) \in Nat
  BY <1>1, FS_CardinalityType
<1>3. s \in [1..Cardinality(S) -> Batches]
  BY DEF InOrder
<1> QED BY <1>2, <1>3

-----------------------------------------------------------------------------
(* Type correctness needs two facts about the lane: a run has a batch, and *)
(* a target when it commits.                                               *)
Typed == /\ TypeOK
         /\ pc # "idle" => up /\ cur \in Batches
         /\ pc \in {"transition", "commit"} => target # "NONE"

LEMMA InitTyped == Init => Typed
BY BoundsAssumption
   DEF Init, Typed, TypeOK, NoRow, Request, NoReq, ItemClass, HandlerStates

(* A transition of an item reads one of the states it is valid from.       *)
LEMMA ReadTyped ==
    ASSUME NEW S \in SUBSET ItemClass, NEW s \in ItemClass, Read(S, s)
    PROVE  move' \in Move \cup {NoMove}
BY DEF Read, Move

LEMMA StepTyped ==
    ASSUME Typed, NEW from, NEW to \in {"run", "soft", "ok", "transient", "permanent"},
           NEW S \in SUBSET ItemClass, NEW s \in ItemClass, Step(from, to, S, s), pc # "idle"
    PROVE  Typed'
BY ReadTyped DEF Step, ItemFrame, Typed, TypeOK, auxVars

LEMMA RunItemTyped == Typed /\ RunItem => Typed'
<1> SUFFICES ASSUME Typed, RunItem PROVE Typed'
  OBVIOUS
<1> USE DEF Typed, auxVars
<1>1. CASE StartItem \/ Advance \/ EndItem
  BY <1>1, StepTyped DEF StartItem, Advance, EndItem, SoftFallback, FinishItem, RequeueItem,
                         FailItem, Step, ItemClass, Reviewable
<1>2. CASE WriteMove
  <2>1. istate' \in [Items -> ItemClass \cup NoRow]
    BY <1>2 DEF WriteMove, SetItem, TypeOK, Move
  <2> QED BY <1>2, <2>1 DEF WriteMove, ItemFrame, TypeOK
<1>3. CASE ErrorLost
  BY <1>3 DEF ErrorLost, ItemFrame, TypeOK
<1>4. CASE ItemOk
  BY <1>4 DEF ItemOk, Result, NextCheck, TypeOK
<1>5. CASE ItemTransient
  BY <1>5 DEF ItemTransient, Result, NextCheck, Transition, TypeOK
<1>6. ASSUME NEW n \in 0..2, RecordFailures(n) PROVE Typed'
  <2>1. \A b \in Batches : failCount[b] + n \in Nat
    BY DEF TypeOK
  <2>2. failCount' \in [Batches -> Nat]
    <3> USE <1>6, <2>1
    <3>1. CASE BatchExists(cur)
      BY <3>1 DEF RecordFailures, TypeOK
    <3>2. CASE ~BatchExists(cur)
      BY <3>2 DEF RecordFailures, TypeOK
    <3> QED BY <3>1, <3>2
  <2> QED BY <1>6, <2>2 DEF RecordFailures, Result, TypeOK
<1>7. CASE ItemPermanent
  BY <1>7 DEF ItemPermanent, Result, NextCheck, Transition, TypeOK
<1> QED BY <1>1, <1>2, <1>3, <1>4, <1>5, <1>6, <1>7 DEF RunItem

LEMMA LaneTyped == Typed /\ Lane => Typed'
<1> SUFFICES ASSUME Typed, Lane PROVE Typed'
  OBVIOUS
<1> USE DEF Typed, EndRun, Transition, dbVars, auxVars, laneVars
<1>1. CASE Dequeue
  BY <1>1 DEF Dequeue, TypeOK
<1>2. CASE ReadBatchRow
  BY <1>2 DEF ReadBatchRow, TypeOK
<1>3. CASE TransitionRead
  BY <1>3 DEF TransitionRead, TypeOK
<1>4. CASE TransitionCommit
  <2>1. target \in BatchState
    BY <1>4 DEF TransitionCommit, TypeOK, BatchState
  <2>2. bstate' \in [Batches -> BatchState \cup NoRow]
    BY <1>4, <2>1 DEF TransitionCommit, TypeOK
  <2>3. stranded' \subseteq Batches
    BY <1>4 DEF TransitionCommit, TypeOK
  <2> QED BY <1>4, <2>2, <2>3 DEF TransitionCommit, TypeOK
<1>5. CASE RunRaises
  BY <1>5 DEF RunRaises, TypeOK
<1>6. CASE ScanItems
  BY <1>6 DEF ScanItems, TypeOK
<1>7. CASE SelectItems
  BY <1>7 DEF SelectItems, TypeOK, ItemsOf
<1>8. CASE CheckBatch
  BY <1>8 DEF CheckBatch, TypeOK
<1>9. CASE RunItem
  BY <1>9, RunItemTyped
<1> QED BY <1>1, <1>2, <1>3, <1>4, <1>5, <1>6, <1>7, <1>8, <1>9 DEF Lane

LEMMA SchedulerTyped == Typed /\ Scheduler => Typed'
<1> SUFFICES ASSUME Typed, Scheduler PROVE Typed'
  OBVIOUS
<1> USE DEF Typed, dbVars, auxVars, laneVars
<1>1. ASSUME NEW S \in SUBSET Batches, TickRead(S) PROVE Typed'
  <2>1. PICK s \in InOrder(S) : queue' = queue \o s
    BY <1>1 DEF TickRead
  <2>2. s \in Seq(Batches)
    BY <2>1, InOrderType
  <2>3. queue' \in Seq(Batches)
    BY <2>1, <2>2 DEF TypeOK
  <2> QED BY <1>1, <2>3 DEF TickRead, TypeOK
<1>2. CASE TickCommit
  <2>1. bstate' \in [Batches -> BatchState \cup NoRow]
    BY <1>2 DEF TickCommit, TypeOK, BatchState
  <2> QED BY <1>2, <2>1 DEF TickCommit, TypeOK
<1>3. CASE TickFails
  BY <1>3 DEF TickFails, TypeOK
<1> QED BY <1>1, <1>2, <1>3 DEF Scheduler

(* What a request carries when it begins, whichever handler it is.         *)
WellFormed(r) ==
    /\ r.itemTo \in {"QUEUED", "APPROVED", "DROPPED", "SKIPPED"}
    /\ r.op \in {"create", "scan"} => r.itemTo = "QUEUED"
    /\ \A i \in r.gone : istate[i] # "UNBORN"
    /\ r.to = "QUEUED" => r.enqueue

LEMMA HandlerBegins ==
    ASSUME NEW d \in Clients, Handler(d),
           ~(Enqueue(d) \/ Flush(d) \/ Commit(d) \/ RollBack(d))
    PROVE  \E r \in Request : Begin(d, r) /\ WellFormed(r)
<1> DEFINE Begins == \E r \in Request : Begin(d, r) /\ WellFormed(r)
<1> USE DEF NoReq, Request, Ops, HandlerStates, ItemClass, WellFormed
<1>1. ASSUME NEW b \in Batches, \/ BeginQueue(d, b) \/ BeginPause(d, b)
             \/ BeginAbort(d, b) \/ BeginExport(d, b) \/ BeginDelete(d, b)
      PROVE  Begins
  <2>1. CASE BeginQueue(d, b)
    <3> DEFINE r == [NoReq EXCEPT !.op = "queue", !.batch = b, !.to = "QUEUED",
                                   !.enqueue = TRUE]
    <3>1. r \in Request /\ WellFormed(r)
      OBVIOUS
    <3>2. Begin(d, r)
      BY <2>1 DEF BeginQueue
    <3> QED BY <3>1, <3>2
  <2>2. CASE BeginPause(d, b)
    <3> DEFINE r == [NoReq EXCEPT !.op = "pause", !.batch = b, !.to = "PAUSED"]
    <3>1. r \in Request /\ WellFormed(r)
      OBVIOUS
    <3>2. Begin(d, r)
      BY <2>2 DEF BeginPause
    <3> QED BY <3>1, <3>2
  <2>3. CASE BeginAbort(d, b)
    <3> DEFINE r == [NoReq EXCEPT !.op = "abort", !.batch = b, !.to = "ERROR"]
    <3>1. r \in Request /\ WellFormed(r)
      OBVIOUS
    <3>2. Begin(d, r)
      BY <2>3 DEF BeginAbort
    <3> QED BY <3>1, <3>2
  <2>4. CASE BeginExport(d, b)
    <3> DEFINE r == [NoReq EXCEPT !.op = "export", !.batch = b, !.to = "DONE"]
    <3>1. r \in Request /\ WellFormed(r)
      OBVIOUS
    <3>2. Begin(d, r)
      BY <2>4 DEF BeginExport
    <3> QED BY <3>1, <3>2
  <2>5. CASE BeginDelete(d, b)
    <3> DEFINE r == [NoReq EXCEPT !.op = "delete", !.batch = b, !.to = "DELETED"]
    <3>1. r \in Request /\ WellFormed(r)
      OBVIOUS
    <3>2. Begin(d, r)
      BY <2>5 DEF BeginDelete
    <3> QED BY <3>1, <3>2
  <2> QED BY <1>1, <2>1, <2>2, <2>3, <2>4, <2>5
<1>2. ASSUME NEW b \in Batches, NEW found \in SUBSET NewItems(b),
             NEW scheduled \in BOOLEAN, BeginCreate(d, b, scheduled, found)
      PROVE  Begins
  <2> DEFINE r == [NoReq EXCEPT !.op = "create", !.batch = b,
                      !.to = IF scheduled THEN "SCHEDULED" ELSE "QUEUED",
                      !.items = found, !.enqueue = ~scheduled, !.locks = TRUE]
  <2>1. found \subseteq Items
    BY DEF NewItems
  <2>2. r \in Request /\ WellFormed(r)
    BY <2>1
  <2>3. Begin(d, r)
    BY <1>2 DEF BeginCreate
  <2> HIDE DEF r
  <2> QED BY <2>2, <2>3
<1>3. ASSUME NEW b \in Batches, NEW found \in SUBSET NewItems(b),
             NEW vanished \in SUBSET ItemsOf(b), BeginScan(d, b, found, vanished)
      PROVE  Begins
  <2> DEFINE r == [NoReq EXCEPT !.op = "scan", !.batch = b, !.items = found,
                                !.gone = vanished]
  <2>1. found \subseteq Items /\ vanished \subseteq Items
    BY DEF NewItems, ItemsOf
  <2>2. \A i \in vanished : istate[i] # "UNBORN"
    BY DEF ItemsOf, ItemExists, NoRow
  <2>3. r \in Request /\ WellFormed(r)
    BY <2>1, <2>2
  <2>4. Begin(d, r)
    BY <1>3 DEF BeginScan
  <2> QED BY <2>3, <2>4
<1>4. ASSUME NEW b \in Batches, NEW S \in SUBSET ItemsOf(b),
             NEW e \in DOMAIN DecisionToState, BeginDecide(d, b, S, e)
      PROVE  Begins
  <2> DEFINE s == DecisionToState[e]
             r == [NoReq EXCEPT !.op = "decide", !.batch = b,
                      !.to = IF RequeuesBatch(b, e) THEN "QUEUED" ELSE "KEEP",
                      !.items = {i \in S : istate[i] # s}, !.itemTo = s,
                      !.enqueue = RequeuesBatch(b, e)]
  <2>1. s \in {"QUEUED", "APPROVED", "DROPPED", "SKIPPED"}
    BY DEF DecisionToState
  <2>2. {i \in S : istate[i] # s} \subseteq Items /\ RequeuesBatch(b, e) \in BOOLEAN
    BY DEF ItemsOf, RequeuesBatch
  <2>3. r \in Request /\ WellFormed(r)
    BY <2>1, <2>2
  <2>4. Begin(d, r)
    BY <1>4 DEF BeginDecide
  <2> HIDE DEF r
  <2> QED BY <2>3, <2>4
<1> QED BY <1>1, <1>2, <1>3, <1>4 DEF Handler, Arrives, Proceeds

LEMMA BeginTyped ==
    ASSUME Typed, NEW c \in Clients, NEW r \in Request, Begin(c, r)
    PROVE  Typed'
<1>1. issued' \in 0..MaxRequests
  BY BoundsAssumption DEF Begin, Typed, TypeOK
<1>2. req' \in [Clients -> Request \cup {NoReq}]
  BY DEF Begin, Typed, TypeOK
<1> QED BY <1>1, <1>2 DEF Begin, Typed, TypeOK, dbVars, laneVars

LEMMA HandlerTyped ==
    ASSUME Typed, NEW c \in Clients, Handler(c)
    PROVE  Typed'
<1> USE DEF dbVars, auxVars, laneVars
<1>1. CASE ~(Enqueue(c) \/ Flush(c) \/ Commit(c) \/ RollBack(c))
  BY <1>1, HandlerBegins, BeginTyped
<1>2. CASE Enqueue(c)
  <2>1. req[c] \in Request
    BY <1>2 DEF Enqueue, Typed, TypeOK, NoReq
  <2>2. PICK l \in BOOLEAN : req' = [req EXCEPT ![c].enqueue = FALSE, ![c].locks = l]
    BY <1>2 DEF Enqueue
  <2>3. req' \in [Clients -> Request \cup {NoReq}]
    BY <2>1, <2>2 DEF Typed, TypeOK, Request
  <2>4. req[c].batch \in Batches
    BY <2>1 DEF Request
  <2>5. queue' \in Seq(Batches)
    BY <1>2, <2>4 DEF Enqueue, Typed, TypeOK
  <2> QED BY <1>2, <2>3, <2>5 DEF Enqueue, Typed, TypeOK
<1>3. CASE Commit(c)
  <2>1. req[c] \in Request
    BY <1>3 DEF Commit, Typed, TypeOK, NoReq
  <2>2. bstate' \in [Batches -> BatchState \cup NoRow]
    BY <1>3, <2>1 DEF Commit, Typed, TypeOK, Request, HandlerStates,
                      BatchState, NoRow
  <2>3. istate' \in [Items -> ItemClass \cup NoRow]
    BY <1>3, <2>1 DEF Commit, Typed, TypeOK, Request, NoRow
  <2>4. req' \in [Clients -> Request \cup {NoReq}]
    BY <1>3 DEF Commit, Typed, TypeOK
  <2> QED BY <1>3, <2>2, <2>3, <2>4 DEF Commit, Typed, TypeOK
<1>4. CASE RollBack(c)
  <2>1. req' \in [Clients -> Request \cup {NoReq}]
    BY <1>4 DEF RollBack, Typed, TypeOK
  <2> QED BY <1>4, <2>1 DEF RollBack, Typed, TypeOK
<1>5. CASE Flush(c)
  <2>1. req[c] \in Request
    BY <1>5 DEF Flush, Typed, TypeOK, NoReq
  <2>2. req' \in [Clients -> Request \cup {NoReq}]
    BY <1>5, <2>1 DEF Flush, Typed, TypeOK, Request
  <2> QED BY <1>5, <2>2 DEF Flush, Typed, TypeOK
<1> QED BY <1>1, <1>2, <1>3, <1>4, <1>5

LEMMA CrashTyped == Typed /\ Crash => Typed'
<1> SUFFICES ASSUME Typed, Crash PROVE Typed'
  OBVIOUS
<1>1. req' \in [Clients -> Request \cup {NoReq}]
  BY DEF Crash
<1>2. crashes' \in 0..MaxCrashes
  BY BoundsAssumption DEF Crash, Typed, TypeOK
<1>3. <<>> \in Seq(Batches)
  OBVIOUS
<1> QED BY <1>1, <1>2, <1>3 DEF Crash, EndRun, Typed, TypeOK, dbVars

LEMMA RestartTyped == Typed /\ Restart => Typed'
<1> SUFFICES ASSUME Typed, Restart PROVE Typed'
  OBVIOUS
<1>1. bstate' \in [Batches -> BatchState \cup NoRow]
  BY DEF Restart, Typed, TypeOK, BatchState
<1>2. queue' \in Seq(Batches)
  BY InOrderType DEF Restart
<1> QED BY <1>1, <1>2 DEF Restart, Typed, TypeOK, laneVars

LEMMA DeleteProjectTyped ==
    ASSUME Typed, NEW c, NEW P, DeleteProject(c, P) PROVE Typed'
<1>1. bstate' \in [Batches -> BatchState \cup NoRow]
  BY DEF DeleteProject, Typed, TypeOK, NoRow
<1>2. istate' \in [Items -> ItemClass \cup NoRow]
  BY DEF DeleteProject, Typed, TypeOK, NoRow
<1>3. issued' \in 0..MaxRequests
  BY BoundsAssumption DEF DeleteProject, Typed, TypeOK
<1> QED BY <1>1, <1>2, <1>3 DEF DeleteProject, Typed, TypeOK, laneVars

LEMMA NextTyped == Typed /\ [Next]_vars => Typed'
<1> SUFFICES ASSUME Typed, [Next]_vars PROVE Typed'
  OBVIOUS
<1>1. CASE UNCHANGED vars
  BY <1>1 DEF vars, dbVars, laneVars, auxVars, Typed, TypeOK
<1> QED
  BY <1>1, LaneTyped, SchedulerTyped, HandlerTyped, CrashTyped, RestartTyped,
     DeleteProjectTyped
     DEF Next

(* Every reachable state is well typed (TypeOK).                           *)
THEOREM TypeCorrect == Spec => []TypeOK
<1>1. Spec => []Typed
  BY InitTyped, NextTyped, PTL DEF Spec
<1>2. Typed => TypeOK
  BY DEF Typed
<1> QED BY <1>1, <1>2, PTL

-----------------------------------------------------------------------------
(* The lane.  LaneExclusive alone is not inductive: that a run which ends  *)
(* has taken its batch out of SCANNING and PROCESSING depends on where the *)
(* run stands, which is what LanePhase records.                            *)
IInv == LanePhase /\ LaneExclusive

(* Steps that neither move the lane nor write a busy state.                *)
LEMMA OthersKeepIInv ==
    ASSUME TypeOK, IInv, UNCHANGED <<pc, cur, target, up, stranded>>,
           \A b \in Batches : bstate'[b] \in Busy => bstate'[b] = bstate[b]
    PROVE  IInv'
BY DEF IInv, LanePhase, LaneExclusive, Early, Entering, Working, AtItem, Moving, Busy

LEMMA ItemStepKeepsIInv ==
    ASSUME TypeOK, IInv, Working, Working', pc # "idle", pc' # "idle",
           pc' \in {"transition", "commit"} => target' # "NONE",
           UNCHANGED <<bstate, up, cur, stranded>>
    PROVE  IInv'
<1>1. ~Early' /\ ~Entering'
  BY DEF Early, Entering, Working, AtItem, Moving
<1> QED
  BY <1>1 DEF IInv, LanePhase, LaneExclusive, Busy

LEMMA EndRunKeepsIInv ==
    ASSUME TypeOK, IInv, EndRun, UNCHANGED <<bstate, up>>,
           stranded \subseteq stranded',
           pc # "idle" => (bstate[cur] \in Busy => cur \in stranded')
    PROVE  IInv'
BY DEF EndRun, IInv, LanePhase, LaneExclusive, Early, Entering, Working, AtItem, Moving

(* The steps of an item leave the batch alone.                             *)
LEMMA RunItemKeepsIInv ==
    ASSUME TypeOK, IInv, RunItem
    PROVE  IInv'
<1> USE DEF Result, Working, AtItem, Moving, Transition, NextCheck, auxVars
<1>1. CASE StartItem \/ Advance \/ EndItem
  BY <1>1, ItemStepKeepsIInv
     DEF StartItem, Advance, EndItem, SoftFallback, FinishItem, RequeueItem, FailItem,
         Step, ItemFrame
<1>2. CASE WriteMove \/ ErrorLost
  BY <1>2, OthersKeepIInv DEF WriteMove, ErrorLost, ItemFrame
<1>3. CASE ItemOk
  BY <1>3, ItemStepKeepsIInv DEF ItemOk
<1>4. CASE ItemTransient
  BY <1>4, ItemStepKeepsIInv DEF ItemTransient
<1>5. ASSUME NEW n \in 0..2, RecordFailures(n) PROVE IInv'
  BY <1>5, ItemStepKeepsIInv DEF RecordFailures
<1>6. CASE ItemPermanent
  BY <1>6, ItemStepKeepsIInv DEF ItemPermanent
<1> QED BY <1>1, <1>2, <1>3, <1>4, <1>5, <1>6 DEF RunItem

LEMMA LaneKeepsIInv == TypeOK /\ IInv /\ Lane => IInv'
<1> SUFFICES ASSUME TypeOK, IInv, Lane PROVE IInv'
  OBVIOUS
<1> USE DEF auxVars, dbVars
<1>1. CASE Dequeue
  <2>1. cur' \in Batches
    BY <1>1 DEF Dequeue, TypeOK
  <2>2. up /\ pc = "idle" /\ pc' = "read"
    BY <1>1 DEF Dequeue
  <2>3. ~Entering' /\ ~Working'
    BY <2>2 DEF Entering, Working, AtItem, Moving
  <2> QED
    BY <1>1, <2>1, <2>2, <2>3 DEF Dequeue, IInv, LanePhase, LaneExclusive
<1>2. CASE ReadBatchRow
  <2>1. CASE BatchExists(cur)
    BY <1>2, <2>1 DEF ReadBatchRow, Transition, IInv, LanePhase, LaneExclusive,
                      Early, Entering, Working, AtItem, Moving, Busy
  <2>2. CASE ~BatchExists(cur)
    BY <1>2, <2>2, EndRunKeepsIInv
       DEF ReadBatchRow, BatchExists, NoRow, Busy
  <2> QED BY <2>1, <2>2
<1>3. CASE TransitionRead
  <2>1. CASE BatchExists(cur) /\ is_valid_batch_transition(bstate[cur], target)
    BY <1>3, <2>1 DEF TransitionRead, IInv, LanePhase, LaneExclusive,
                      Early, Entering, Working, AtItem, Moving
  <2>2. CASE ~(BatchExists(cur) /\ is_valid_batch_transition(bstate[cur], target))
    <3>1. bstate[cur] \in Busy => cur \in stranded
      BY <1>3, <2>2, LaneMovesAreValid
         DEF TransitionRead, BatchExists, NoRow, Busy, TypeOK, IInv, LanePhase,
             Early, Entering, Working, AtItem, Moving
    <3> QED BY <1>3, <2>2, <3>1, EndRunKeepsIInv DEF TransitionRead
  <2> QED BY <2>1, <2>2
<1>4. CASE TransitionCommit
  <2> USE DEF TransitionCommit, IInv, TypeOK
  <2>1. /\ cur \in Batches /\ up /\ up' /\ bstate'[cur] = target
        /\ \A b \in Batches \ {cur} : bstate'[b] = bstate[b]
        /\ \A b \in Batches \ {cur} : b \in stranded' <=> b \in stranded
    BY <1>4 DEF LanePhase
  <2>2. \A b \in Batches \ {cur} : bstate'[b] \in Busy => b \in stranded'
    BY <1>4, <2>1 DEF LaneExclusive
  <2>3. CASE target \in Busy
    <3>1. /\ cur' = cur /\ target' = target
          /\ \/ target = "SCANNING" /\ pc' = "scan"
             \/ target = "PROCESSING" /\ pc' = "select"
      BY <1>4, <2>3 DEF Busy
    <3> QED
      BY <2>1, <2>2, <3>1 DEF LanePhase, LaneExclusive, Early, Entering,
                              Working, AtItem, Moving
  <2>4. CASE target \notin Busy
    <3>1. EndRun
      BY <1>4, <2>4 DEF Busy
    <3> QED
      BY <2>1, <2>2, <2>4, <3>1 DEF EndRun, LanePhase, LaneExclusive, Early,
                                    Entering, Working, AtItem, Moving
  <2> QED BY <2>3, <2>4
<1>5. ASSUME RunRaises PROVE IInv'
  BY <1>5, EndRunKeepsIInv DEF RunRaises
<1>6. CASE ScanItems
  <2>1. CASE Transition("PROCESSING")
    BY <1>6, <2>1 DEF ScanItems, Transition, IInv, LanePhase, LaneExclusive,
                      Early, Entering, Working, AtItem, Moving
  <2>2. CASE ~BatchExists(cur) /\ EndRun
    BY <1>6, <2>2, EndRunKeepsIInv DEF ScanItems, BatchExists, NoRow, Busy
  <2> QED BY <1>6, <2>1, <2>2 DEF ScanItems
<1>7. CASE SelectItems
  BY <1>7, ItemStepKeepsIInv DEF SelectItems, Working, AtItem
<1>8. CASE CheckBatch
  <2>1. CASE todo = {}
    BY <1>8, <2>1, ItemStepKeepsIInv DEF CheckBatch, Transition, Working, AtItem, Moving
  <2>2. CASE todo # {} /\ BatchExists(cur) /\ bstate[cur] # "PAUSED"
    BY <1>8, <2>2, ItemStepKeepsIInv DEF CheckBatch, Working, AtItem
  <2>3. CASE todo # {} /\ ~(BatchExists(cur) /\ bstate[cur] # "PAUSED")
    BY <1>8, <2>3, EndRunKeepsIInv DEF CheckBatch, BatchExists, NoRow, Busy
  <2> QED BY <2>1, <2>2, <2>3
<1>9. CASE RunItem
  BY <1>9, RunItemKeepsIInv
<1> QED
  BY <1>1, <1>2, <1>3, <1>4, <1>5, <1>6, <1>7, <1>8, <1>9 DEF Lane

LEMMA HandlerKeepsIInv ==
    ASSUME TypeOK, IInv, NEW c \in Clients, Handler(c)
    PROVE  IInv'
<1> USE DEF dbVars, auxVars, laneVars
<1>1. ASSUME NEW r, Begin(c, r) PROVE IInv'
  BY <1>1, OthersKeepIInv DEF Begin
<1>2. CASE Enqueue(c)
  BY <1>2, OthersKeepIInv DEF Enqueue
<1>3. CASE Commit(c)
  <2>1. req[c] \in Request
    BY <1>3 DEF Commit, TypeOK, NoReq
  <2>2. req[c].to \notin Busy
    BY <2>1 DEF Request, HandlerStates, Busy
  <2>3. \A b \in Batches : bstate'[b] \in Busy => bstate'[b] = bstate[b]
    BY <1>3, <2>2 DEF Commit, TypeOK
  <2> QED BY <1>3, <2>3, OthersKeepIInv DEF Commit
<1>4. CASE RollBack(c) \/ Flush(c)
  BY <1>4, OthersKeepIInv DEF RollBack, Flush
<1> QED
  BY <1>1, <1>2, <1>3, <1>4
     DEF Handler, Arrives, Proceeds, BeginQueue, BeginPause, BeginAbort, BeginExport, BeginDelete,
         BeginCreate, BeginScan, BeginDecide

LEMMA NextKeepsIInv == TypeOK /\ IInv /\ [Next]_vars => IInv'
<1> SUFFICES ASSUME TypeOK, IInv, [Next]_vars PROVE IInv'
  OBVIOUS
<1> USE DEF dbVars, auxVars, laneVars
<1>1. CASE Scheduler
  <2>1. ASSUME NEW S \in SUBSET Batches, TickRead(S) PROVE IInv'
    BY <2>1, OthersKeepIInv DEF TickRead
  <2>2. CASE TickCommit
    BY <2>2, OthersKeepIInv DEF TickCommit, Busy
  <2>3. CASE TickFails
    BY <2>3, OthersKeepIInv DEF TickFails
  <2> QED BY <1>1, <2>1, <2>2, <2>3 DEF Scheduler
<1>2. CASE Crash
  BY <1>2 DEF Crash, EndRun, IInv, LanePhase, LaneExclusive, Early, Entering,
              Working, AtItem, Moving
<1>3. CASE Restart
  <2>1. pc = "idle"
    BY <1>3 DEF Restart, IInv, LanePhase
  <2>2. \A b \in Batches : bstate'[b] \notin Busy
    BY <1>3 DEF Restart, TypeOK, Busy
  <2> QED
    BY <1>3, <2>1, <2>2 DEF Restart, IInv, LanePhase, LaneExclusive, Early,
                            Entering, Working, AtItem, Moving
<1>4. CASE UNCHANGED vars
  BY <1>4, OthersKeepIInv DEF vars
<1>5. ASSUME NEW c \in Clients, NEW P \in Projects, DeleteProject(c, P) PROVE IInv'
  BY <1>5, OthersKeepIInv DEF DeleteProject, TypeOK, Busy
<1> QED
  BY <1>1, <1>2, <1>3, <1>4, <1>5, LaneKeepsIInv, HandlerKeepsIInv DEF Next

LEMMA InitIInv == Init => IInv
BY DEF Init, IInv, LanePhase, LaneExclusive, Early, Entering, Working, AtItem, Moving,
       Busy

(* The inductive invariant holds in every reachable state.                 *)
THEOREM InvariantHolds == Spec => []IInv
BY TypeCorrect, InitIInv, NextKeepsIInv, PTL DEF Spec

(* The lane is exclusive: in every reachable state of a running server, a  *)
(* batch in SCANNING or PROCESSING is the one the lane is working on, or   *)
(* was left there by a run that an exception ended (LaneExclusive).        *)
THEOREM LaneIsExclusive == Spec => []LaneExclusive
<1>1. IInv => LaneExclusive
  BY DEF IInv
<1> QED BY InvariantHolds, <1>1, PTL

(* The lane's batch is in a state that fits the phase of the run           *)
(* (LanePhase).                                                            *)
THEOREM LanePhaseHolds == Spec => []LanePhase
<1>1. IInv => LanePhase
  BY DEF IInv
<1> QED BY InvariantHolds, <1>1, PTL

(* At most one batch at a time is being processed, as long as no run was   *)
(* ended by an exception (pipeline_batch_lifecycle.md:51).                 *)
THEOREM OneBatchAtATime ==
    Spec => [](up /\ stranded = {} =>
                  \A a, b \in Batches :
                      bstate[a] \in Busy /\ bstate[b] \in Busy => a = b)
<1>1. LaneExclusive =>
        (up /\ stranded = {} =>
            \A a, b \in Batches :
                bstate[a] \in Busy /\ bstate[b] \in Busy => a = b)
  BY DEF LaneExclusive
<1> QED BY LaneIsExclusive, <1>1, PTL

-----------------------------------------------------------------------------
(* Every item goes through its run as ItemRun says.                        *)

(* What a request carries until it commits.                                *)
RequestOK ==
    \A c \in Clients :
        /\ req[c].itemTo \in {"QUEUED", "APPROVED", "DROPPED", "SKIPPED"}
        /\ req[c].op \in {"create", "scan"} => req[c].itemTo = "QUEUED"
        /\ \A i \in req[c].gone : istate[i] # "UNBORN"

(* What a transition is about to write was valid from what it read, which  *)
(* is never a state the user has decided on for good.                      *)
MoveInv ==
    move # NoMove =>
        /\ pc \in {"run", "soft", "ok", "transient", "permanent"}
        /\ move.from \in {"QUEUED", "IN_FLIGHT", "AWAITING_REVIEW", "SKIPPED"}
        /\ move.to \in {"QUEUED", "IN_FLIGHT", "AWAITING_REVIEW", "ERROR"}
        /\ move.to = "IN_FLIGHT" => pc = "run"
        /\ \A i \in Items : i = NextItem => istate[i] # "UNBORN"

KeepsContract(i) ==
    [Contract(i)!Next]_<<istate[i], ItemPhase(i), ItemMove(i)>>

(* The steps of a run outside of its items.                                *)
OffItems == \/ Dequeue \/ ReadBatchRow \/ TransitionRead \/ TransitionCommit
            \/ ScanItems \/ SelectItems \/ CheckBatch

LEMMA OffItemsSteps ==
    ASSUME OffItems
    PROVE  /\ UNCHANGED istate
           /\ pc \notin {"run", "soft", "ok", "transient", "permanent", "failed"}
           /\ pc' \notin {"run", "soft", "ok", "transient", "permanent", "failed"}
           /\ move' \in {move, NoMove}
BY DEF OffItems, Dequeue, ReadBatchRow, TransitionRead, TransitionCommit, ScanItems,
       SelectItems, CheckBatch, EndRun, Transition, dbVars

(* The items the lane is not at have no part in its steps.                 *)
LEMMA OtherItemsKeepContract ==
    ASSUME NEW i \in Items, i # NextItem, UNCHANGED <<istate[i], todo>>
    PROVE  KeepsContract(i)
BY DEF KeepsContract, ItemPhase, ItemMove, NextItem

LEMMA StepKeepsContract ==
    ASSUME StartItem \/ Advance \/ EndItem, NEW i \in Items
    PROVE  KeepsContract(i)
<1> USE DEF StartItem, Advance, EndItem, SoftFallback, FinishItem, RequeueItem, FailItem, Step
<1>1. CASE i # NextItem
  BY <1>1, OtherItemsKeepContract
<1>2. CASE i = NextItem
  <2>1. NextItem' = NextItem
    BY DEF NextItem
  <2>2. ItemMove(i) = "NONE" /\ UNCHANGED istate[i]
    BY DEF ItemMove, NoMove
  <2>3. ASSUME NEW S, NEW s, Read(S, s), pc' \in {"run", "soft", "ok", "transient", "permanent"}
        PROVE  ItemMove(i)' = IF istate[i] \in S THEN s ELSE "NONE"
    BY <1>2, <2>1, <2>3 DEF Read, ItemMove, ItemPhase, AtItem, NoMove
  <2> USE DEF Contract!Next, Contract!Run, Contract!Read, KeepsContract, ItemPhase, AtItem
  <2> HIDE DEF StartItem, Advance, EndItem, SoftFallback, FinishItem, RequeueItem, FailItem
  <2>4. CASE StartItem
    BY <1>2, <2>1, <2>2, <2>3, <2>4 DEF StartItem, Contract!Start
  <2>5. CASE Advance
    BY <1>2, <2>1, <2>2, <2>3, <2>5 DEF Advance, Contract!Advance
  <2>6. CASE SoftFallback
    BY <1>2, <2>1, <2>2, <2>3, <2>6 DEF SoftFallback, Reviewable, Contract!SoftReview
  <2>7. CASE FinishItem
    BY <1>2, <2>1, <2>2, <2>3, <2>7 DEF FinishItem, Reviewable, Contract!Ok
  <2>8. CASE RequeueItem
    BY <1>2, <2>1, <2>2, <2>3, <2>8 DEF RequeueItem, Contract!Transient
  <2>9. CASE FailItem
    BY <1>2, <2>1, <2>2, <2>3, <2>9 DEF FailItem, Contract!Permanent
  <2> QED BY <2>4, <2>5, <2>6, <2>7, <2>8, <2>9 DEF EndItem
<1> QED BY <1>1, <1>2

LEMMA WriteKeepsContract ==
    ASSUME TypeOK, MoveInv, WriteMove \/ ErrorLost, NEW i \in Items
    PROVE  KeepsContract(i)
<1> USE DEF WriteMove, ErrorLost
<1>1. CASE i # NextItem
  BY <1>1, OtherItemsKeepContract DEF SetItem, TypeOK
<1>2. CASE i = NextItem
  <2>1. move # NoMove
    BY DEF NoMove
  <2>2. UNCHANGED <<pc, todo>> /\ move' = NoMove
    OBVIOUS
  <2>3. UNCHANGED ItemPhase(i) /\ ItemPhase(i) # "idle"
    BY <1>2, <2>1, <2>2 DEF MoveInv, ItemPhase, AtItem, NextItem
  <2>4. ItemMove(i) = move.to /\ move.to # "NONE" /\ ItemMove(i)' = "NONE"
    BY <2>1, <2>2, <2>3 DEF ItemMove, MoveInv, NoMove
  <2>5. CASE WriteMove
    <3>1. istate'[i] = move.to /\ istate[i] \notin {"UNBORN", "DELETED"}
      BY <1>2, <2>5 DEF SetItem, TypeOK, ItemExists, NoRow
    <3>2. Contract(i)!Write
      BY <2>3, <2>4, <3>1 DEF Contract!Write
    <3> QED BY <3>2 DEF KeepsContract, Contract!Next
  <2>6. CASE ErrorLost
    <3>1. istate[i] = "DELETED"
      BY <1>2, <2>1, <2>6 DEF MoveInv, ItemExists, NoRow
    <3>2. Contract(i)!Lost
      BY <2>3, <2>4, <2>6, <3>1 DEF Contract!Lost
    <3> QED BY <3>2 DEF KeepsContract, Contract!Next
  <2> QED BY <2>5, <2>6
<1> QED BY <1>1, <1>2

LEMMA ResultKeepsContract ==
    ASSUME NEW i \in Items, NEW n,
           ItemOk \/ ItemTransient \/ RecordFailures(n) \/ ItemPermanent
    PROVE  KeepsContract(i)
<1> USE DEF Result
<1>1. move = NoMove /\ UNCHANGED <<istate, move>>
  BY DEF ItemOk, ItemTransient, RecordFailures, ItemPermanent, NextCheck, Transition
<1>2. ItemMove(i) = "NONE" /\ ItemMove(i)' = "NONE"
  BY <1>1 DEF ItemMove, NoMove
<1>3. CASE RecordFailures(n)
  <2>1. UNCHANGED ItemPhase(i)
    BY <1>3 DEF RecordFailures, ItemPhase, AtItem, NextItem
  <2> QED BY <1>1, <1>2, <2>1 DEF KeepsContract
<1>4. CASE ItemOk \/ ItemTransient \/ ItemPermanent
  <2>1. pc \in {"ok", "transient", "failed"} /\ pc' \in {"check", "transition"}
    BY <1>4 DEF ItemOk, ItemTransient, ItemPermanent, NextCheck, Transition
  <2>2. ItemPhase(i)' = "idle"
    BY <2>1 DEF ItemPhase, AtItem
  <2>3. CASE i # NextItem
    BY <1>1, <1>2, <2>2, <2>3 DEF ItemPhase, KeepsContract
  <2>4. CASE i = NextItem
    <3>1. Contract(i)!Return
      BY <1>1, <1>2, <2>1, <2>2, <2>4 DEF ItemPhase, AtItem, Contract!Return
    <3> QED BY <3>1 DEF KeepsContract, Contract!Next
  <2> QED BY <2>3, <2>4
<1> QED BY <1>3, <1>4

LEMMA EndRunKeepsContract ==
    ASSUME EndRun, UNCHANGED istate, NEW i \in Items
    PROVE  KeepsContract(i)
<1>1. ItemPhase(i)' = "idle" /\ ItemMove(i)' = "NONE"
  BY DEF EndRun, ItemPhase, AtItem, ItemMove
<1>2. CASE ItemPhase(i) = "idle"
  BY <1>1, <1>2 DEF KeepsContract, ItemMove
<1>3. CASE ItemPhase(i) # "idle"
  <2>1. Contract(i)!Interrupted
    BY <1>1, <1>3 DEF Contract!Interrupted
  <2> QED BY <2>1 DEF KeepsContract, Contract!Next
<1> QED BY <1>2, <1>3

LEMMA LaneKeepsContract ==
    ASSUME TypeOK, MoveInv, Lane, NEW i \in Items
    PROVE  KeepsContract(i)
<1>1. CASE OffItems
  <2>1. ItemPhase(i) = "idle" /\ ItemPhase(i)' = "idle" /\ UNCHANGED istate
    BY <1>1, OffItemsSteps DEF ItemPhase, AtItem
  <2> QED BY <2>1 DEF ItemMove, KeepsContract
<1>2. CASE RunItem
  BY <1>2, StepKeepsContract, WriteKeepsContract, ResultKeepsContract DEF RunItem
<1>3. CASE RunRaises
  BY <1>3, EndRunKeepsContract DEF RunRaises, dbVars
<1> QED BY <1>1, <1>2, <1>3 DEF Lane, OffItems

LEMMA CommitKeepsContract ==
    ASSUME TypeOK, RequestOK, NEW c \in Clients, Commit(c), NEW i \in Items
    PROVE  KeepsContract(i)
<1>1. UNCHANGED <<ItemPhase(i), ItemMove(i)>>
  BY DEF Commit, ItemPhase, ItemMove, AtItem, NextItem, laneVars
<1>2. istate'[i] = istate[i] \/ Contract(i)!Request
  <2>1. CASE i \in req[c].items
    BY <1>1, <2>1 DEF Commit, RowsPresent, RequestOK, ItemExists, NoRow,
                      Contract!Request
  <2>2. CASE i \notin req[c].items
    <3>1. istate'[i] \in {istate[i], "DELETED"}
      BY <2>2 DEF Commit
    <3>2. istate'[i] # istate[i] => istate[i] # "UNBORN"
      BY <2>2 DEF Commit, RequestOK, ItemsOf, ItemExists, NoRow
    <3> QED BY <1>1, <3>1, <3>2 DEF Contract!Request
  <2> QED BY <2>1, <2>2
<1> QED BY <1>1, <1>2 DEF KeepsContract, Contract!Next

LEMMA NextKeepsContract ==
    ASSUME TypeOK, RequestOK, MoveInv, [Next]_vars, NEW i \in Items
    PROVE  KeepsContract(i)
<1>1. CASE UNCHANGED <<istate, laneVars>>
  BY <1>1 DEF KeepsContract, ItemPhase, ItemMove, AtItem, NextItem, laneVars
<1>2. CASE Lane
  BY <1>2, LaneKeepsContract
<1>3. ASSUME NEW c \in Clients, Handler(c) PROVE KeepsContract(i)
  <2>1. CASE Commit(c)
    BY <2>1, CommitKeepsContract
  <2>2. ~Commit(c) => UNCHANGED <<istate, laneVars>>
    BY <1>3 DEF Handler, Arrives, Proceeds, Flush, BeginQueue, BeginPause, BeginAbort, BeginExport, BeginDelete,
                BeginCreate, BeginScan, BeginDecide, Begin, Enqueue, RollBack, dbVars
  <2> QED BY <1>1, <2>1, <2>2
<1>4. CASE Crash
  BY <1>4, EndRunKeepsContract DEF Crash, dbVars
<1>5. Scheduler \/ Restart \/ UNCHANGED vars => UNCHANGED <<istate, laneVars>>
  BY DEF Scheduler, TickRead, TickCommit, TickFails, Restart, vars, dbVars
<1>6. ASSUME NEW c \in Clients, NEW P \in Projects, DeleteProject(c, P)
      PROVE  KeepsContract(i)
  <2>1. UNCHANGED <<ItemPhase(i), ItemMove(i)>>
    BY <1>6 DEF DeleteProject, ItemPhase, ItemMove, AtItem, NextItem, laneVars
  <2>2. istate'[i] = istate[i] \/ Contract(i)!Request
    BY <1>6, <2>1 DEF DeleteProject, ItemExists, NoRow, Contract!Request
  <2> QED BY <2>1, <2>2 DEF KeepsContract, Contract!Next
<1> QED BY <1>1, <1>2, <1>3, <1>4, <1>5, <1>6 DEF Next

(* A step that keeps the contract brings no row back from UNBORN's side.   *)
LEMMA StaysBorn ==
    ASSUME TypeOK, RequestOK, MoveInv, [Next]_vars, NEW i \in Items, istate[i] # "UNBORN"
    PROVE  istate'[i] # "UNBORN"
<1>1. KeepsContract(i)
  BY NextKeepsContract
<1>2. ItemMove(i) # "UNBORN"
  BY DEF ItemMove, TypeOK, Move, NoMove, ItemClass
<1> QED
  BY <1>1, <1>2 DEF KeepsContract, Contract!Next, Contract!Run, Contract!Read, Contract!Start,
              Contract!Advance, Contract!SoftReview, Contract!Ok, Contract!Transient,
              Contract!Permanent, Contract!Write, Contract!Lost, Contract!Return,
              Contract!Interrupted, Contract!Request
LEMMA BeginKeepsRequestOK ==
    ASSUME TypeOK, RequestOK, NEW d \in Clients, NEW r \in Request,
           Begin(d, r), WellFormed(r)
    PROVE  RequestOK'
<1>1. ASSUME NEW c \in Clients PROVE req'[c] = IF c = d THEN r ELSE req[c]
  BY DEF Begin, TypeOK
<1>2. UNCHANGED istate
  BY DEF Begin, dbVars
<1> QED BY <1>1, <1>2 DEF RequestOK, WellFormed

(* What a step makes of a request that has begun.                          *)
LEMMA RequestsStay ==
    ASSUME TypeOK, [Next]_vars
    PROVE  \/ \A c \in Clients : \/ req'[c] = NoReq
                                 \/ /\ req'[c].op = req[c].op
                                    /\ req'[c].itemTo = req[c].itemTo
                                    /\ req'[c].gone = req[c].gone
           \/ /\ UNCHANGED istate
              /\ \E d \in Clients, r \in Request : Begin(d, r) /\ WellFormed(r)
<1>1. ASSUME NEW d \in Clients, Handler(d), ~(Enqueue(d) \/ Flush(d) \/ Commit(d) \/ RollBack(d))
      PROVE  UNCHANGED istate /\ \E r \in Request : Begin(d, r) /\ WellFormed(r)
  BY <1>1, HandlerBegins DEF Begin, dbVars
<1>2. ASSUME NEW d \in Clients, Commit(d) \/ RollBack(d)
      PROVE  \A c \in Clients : req'[c] \in {NoReq, req[c]}
  BY <1>2 DEF Commit, RollBack, TypeOK
<1>3. ASSUME NEW d \in Clients, Enqueue(d) \/ Flush(d), NEW c \in Clients
      PROVE  /\ req'[c].op = req[c].op /\ req'[c].itemTo = req[c].itemTo
             /\ req'[c].gone = req[c].gone
  <2>1. req[d] \in Request
    <3>1. req[d] # NoReq
      <4>1. NoReq.op = "none" /\ ~NoReq.enqueue
        BY DEF NoReq
      <4> QED BY <1>3, <4>1 DEF Enqueue, Flush
    <3> QED BY <3>1 DEF TypeOK
  <2>2. PICK e, l \in BOOLEAN : req' = [req EXCEPT ![d].enqueue = e, ![d].locks = l]
    <3>1. CASE Enqueue(d)
      BY <3>1 DEF Enqueue
    <3>2. CASE Flush(d)
      <4>1. req' = [req EXCEPT ![d].enqueue = req[d].enqueue, ![d].locks = TRUE]
        BY <2>1, <3>2 DEF Flush, TypeOK, Request
      <4>2. req[d].enqueue \in BOOLEAN
        BY <2>1 DEF Request
      <4> QED BY <4>1, <4>2
    <3> QED BY <1>3, <3>1, <3>2
  <2> QED BY <2>1, <2>2 DEF TypeOK, Request
<1>4. Lane => UNCHANGED req
  BY DEF Lane, RunItem, Dequeue, ReadBatchRow, TransitionRead, TransitionCommit, RunRaises,
         ScanItems, SelectItems, CheckBatch, StartItem, Advance, EndItem, SoftFallback,
         FinishItem, RequeueItem, FailItem, Step, ItemFrame, WriteMove, ErrorLost, ItemOk,
         ItemTransient, RecordFailures, ItemPermanent, Result
<1>5. Scheduler \/ Restart \/ UNCHANGED vars => UNCHANGED req
  BY DEF Scheduler, TickRead, TickCommit, TickFails, Restart, vars
<1>6. Crash => \A c \in Clients : req'[c] = NoReq
  BY DEF Crash
<1>7. ASSUME NEW c \in Clients, NEW P \in Projects, DeleteProject(c, P)
      PROVE  UNCHANGED req
  BY <1>7 DEF DeleteProject
<1>8. CASE \E d \in Clients : Handler(d)
  BY <1>1, <1>2, <1>3, <1>8
<1> QED BY <1>4, <1>5, <1>6, <1>7, <1>8 DEF Next

LEMMA NextKeepsRequestOK == TypeOK /\ RequestOK /\ MoveInv /\ [Next]_vars => RequestOK'
<1> SUFFICES ASSUME TypeOK, RequestOK, MoveInv, [Next]_vars PROVE RequestOK'
  OBVIOUS
<1>1. \A c \in Clients : req[c].gone \subseteq Items
  BY DEF TypeOK, Request, NoReq
<1>2. CASE \A c \in Clients : \/ req'[c] = NoReq
                              \/ /\ req'[c].op = req[c].op
                                 /\ req'[c].itemTo = req[c].itemTo
                                 /\ req'[c].gone = req[c].gone
  BY <1>1, <1>2, StaysBorn DEF RequestOK, NoReq
<1> QED BY <1>2, RequestsStay, BeginKeepsRequestOK

(* Everyone but the lane leaves its variables alone, or ends the run in a  *)
(* crash.                                                                  *)
LEMMA LaneOrNot ==
    ASSUME [Next]_vars, ~Lane
    PROVE  UNCHANGED laneVars \/ EndRun
<1>1. Scheduler \/ Restart \/ UNCHANGED vars => UNCHANGED laneVars
  BY DEF Scheduler, TickRead, TickCommit, TickFails, Restart, vars
<1>2. Crash => EndRun
  BY DEF Crash
<1>3. ASSUME NEW c \in Clients, Handler(c) PROVE UNCHANGED laneVars
  BY <1>3 DEF Handler, Arrives, Proceeds, Flush, BeginQueue, BeginPause, BeginAbort,
              BeginExport, BeginDelete, BeginCreate, BeginScan, BeginDecide, Begin,
              Enqueue, Commit, RollBack
<1>4. ASSUME NEW c \in Clients, NEW P \in Projects, DeleteProject(c, P)
      PROVE  UNCHANGED laneVars
  BY <1>4 DEF DeleteProject
<1> QED BY <1>1, <1>2, <1>3, <1>4 DEF Next

LEMMA ReadKeepsMoveInv ==
    ASSUME StartItem \/ Advance \/ EndItem
    PROVE  MoveInv'
<1> DEFINE Reads(S, s) == Read(S, s) /\ (s = "IN_FLIGHT" => pc' = "run")
<1>1. \/ Reads({"QUEUED"}, "IN_FLIGHT") \/ Reads({"IN_FLIGHT"}, "IN_FLIGHT")
      \/ Reads(Reviewable, "AWAITING_REVIEW") \/ Reads({"IN_FLIGHT"}, "QUEUED")
      \/ Reads({"IN_FLIGHT", "QUEUED", "AWAITING_REVIEW"}, "ERROR")
  BY DEF StartItem, Advance, EndItem, SoftFallback, FinishItem, RequeueItem, FailItem, Step
<1>2. /\ UNCHANGED <<istate, todo>>
      /\ pc' \in {"run", "soft", "ok", "transient", "permanent"}
  BY DEF StartItem, Advance, EndItem, SoftFallback, FinishItem, RequeueItem, FailItem, Step
<1>3. NextItem' = NextItem
  BY <1>2 DEF NextItem
<1> QED BY <1>1, <1>2, <1>3 DEF MoveInv, Read, NoMove, Reviewable

LEMMA NextKeepsMoveInv == TypeOK /\ RequestOK /\ MoveInv /\ [Next]_vars => MoveInv'
<1> SUFFICES ASSUME TypeOK, RequestOK, MoveInv, [Next]_vars PROVE MoveInv'
  OBVIOUS
<1>1. CASE move' = NoMove
  BY <1>1 DEF MoveInv
<1>2. CASE UNCHANGED laneVars
  BY <1>2, StaysBorn DEF MoveInv, NextItem, laneVars
<1>3. CASE Lane
  <2>1. CASE OffItems
    BY <2>1, <1>1, OffItemsSteps DEF MoveInv
  <2>2. CASE StartItem \/ Advance \/ EndItem
    BY <2>2, ReadKeepsMoveInv
  <2>3. CASE WriteMove \/ ErrorLost \/ RunRaises
    BY <2>3, <1>1 DEF WriteMove, ErrorLost, RunRaises, EndRun
  <2>4. ASSUME NEW n, ItemOk \/ ItemTransient \/ RecordFailures(n) \/ ItemPermanent
        PROVE  move' = NoMove
    BY <2>4 DEF ItemOk, ItemTransient, RecordFailures, ItemPermanent, NextCheck,
                Transition, Result
  <2> QED BY <1>1, <1>3, <2>1, <2>2, <2>3, <2>4 DEF Lane, RunItem, OffItems
<1> QED BY <1>1, <1>2, <1>3, LaneOrNot DEF EndRun

LEMMA RequestsOK == Spec => [](RequestOK /\ MoveInv)
<1>1. Init => RequestOK /\ MoveInv
  BY DEF Init, RequestOK, MoveInv, NoReq
<1> QED BY <1>1, NextKeepsRequestOK, NextKeepsMoveInv, TypeCorrect, PTL DEF Spec

(* Every step of the whole system - lane, requests, scheduler, crash,      *)
(* restart - is, for every item, a step of ItemRun or leaves it alone      *)
(* (ItemsKeepContract).                                                    *)
THEOREM ContractKept == Spec => ItemsKeepContract
<1>1. TypeOK /\ RequestOK /\ MoveInv /\ [Next]_vars =>
        [\A i \in Items :
            [Contract(i)!Next]_<<istate[i], ItemPhase(i), ItemMove(i)>>]_vars
  BY NextKeepsContract DEF KeepsContract
<1> QED BY <1>1, RequestsOK, TypeCorrect, PTL DEF Spec, ItemsKeepContract

-----------------------------------------------------------------------------
(* The user's decisions.                                                   *)

LEMMA OnlyWritesChange ==
    ASSUME TypeOK, Lane, NEW i \in Items, istate'[i] # istate[i]
    PROVE  WriteMove /\ i = NextItem /\ istate'[i] = move.to
<1>1. WriteMove \/ UNCHANGED istate
  BY DEF Lane, RunItem, Dequeue, ReadBatchRow, TransitionRead, TransitionCommit, RunRaises,
         ScanItems, SelectItems, CheckBatch, StartItem, Advance, EndItem, SoftFallback,
         FinishItem, RequeueItem, FailItem, Step, ErrorLost, ItemOk, ItemTransient,
         RecordFailures, ItemPermanent, Result, dbVars
<1> QED BY <1>1 DEF WriteMove, SetItem, TypeOK

(* The lane takes back no approval and no drop but one that was committed  *)
(* after the transition had read the row: what it writes over the decision *)
(* is the write it had validated against another state (DecisionSticks).   *)
THEOREM DecisionsStick == Spec => DecisionSticks
<1>1. TypeOK /\ MoveInv /\ [Next]_vars =>
        [Lane => \A i \in Items :
            istate[i] \in {"APPROVED", "DROPPED"} /\ istate'[i] # istate[i]
               => move.to = istate'[i] /\ move.from # istate[i]]_vars
  <2> SUFFICES ASSUME TypeOK, MoveInv, Lane, NEW i \in Items,
                      istate[i] \in {"APPROVED", "DROPPED"}, istate'[i] # istate[i]
               PROVE  move.to = istate'[i] /\ move.from # istate[i]
    OBVIOUS
  <2> QED BY OnlyWritesChange DEF WriteMove, MoveInv
<1> QED BY RequestsOK, TypeCorrect, <1>1, PTL DEF Spec, DecisionSticks

-----------------------------------------------------------------------------
(* What the history variables add.                                         *)

LEMMA HistoryIsSpec == HistorySpec => Spec
<1>1. [HistoryNext]_allVars => [Next]_vars
  BY DEF HistoryNext, allVars
<1> QED BY <1>1, PTL DEF HistorySpec, Spec

(* The lane goes to an item only past the soft-pause check.                *)
LEMMA ItemIsChecked ==
    ASSUME [Next]_vars, pc' = "item"
    PROVE  /\ UNCHANGED cur
           /\ \/ pc = "item"
              \/ UNCHANGED bstate /\ bstate[cur] # "PAUSED"
<1>1. CASE Lane
  BY <1>1 DEF Lane, RunItem, Dequeue, ReadBatchRow, TransitionRead, TransitionCommit,
              RunRaises, ScanItems, SelectItems, CheckBatch, StartItem, Advance, EndItem,
              SoftFallback, FinishItem, RequeueItem, FailItem, Step, ItemFrame, WriteMove,
              ErrorLost, ItemOk, ItemTransient, RecordFailures, ItemPermanent, EndRun,
              Transition, NextCheck, Result, dbVars
<1>2. CASE ~Lane
  BY <1>2, LaneOrNot DEF laneVars, EndRun
<1> QED BY <1>1, <1>2

(* Once an item of a paused batch has been begun, the lane is not about to *)
(* begin another.                                                          *)
PauseInv ==
    \A b \in Batches :
        /\ lateStarts[b] \in {0, 1}
        /\ lateStarts[b] = 1 =>
              bstate[b] = "PAUSED" /\ ~(pc = "item" /\ cur = b)

LEMMA HistoryKeepsPauseInv == PauseInv /\ [HistoryNext]_allVars => PauseInv'
<1> SUFFICES ASSUME PauseInv, [HistoryNext]_allVars, NEW b \in Batches
             PROVE  /\ lateStarts'[b] \in {0, 1}
                    /\ lateStarts'[b] = 1 =>
                          bstate'[b] = "PAUSED" /\ ~(pc' = "item" /\ cur' = b)
  BY DEF PauseInv
<1>1. CASE UNCHANGED allVars
  BY <1>1 DEF PauseInv, allVars, historyVars, vars, dbVars, laneVars
<1>2. CASE HistoryNext
  <2>1. pc' = "item" =>
          /\ UNCHANGED cur
          /\ \/ pc = "item"
             \/ UNCHANGED bstate /\ bstate[cur] # "PAUSED"
    BY <1>2, ItemIsChecked DEF HistoryNext
  <2>2. CASE bstate'[b] # "PAUSED"
    BY <1>2, <2>2 DEF HistoryNext
  <2>3. CASE bstate'[b] = "PAUSED" /\ cur = b /\ pc = "item" /\ pc' = "run"
    BY <1>2, <2>3 DEF HistoryNext, PauseInv
  <2>4. CASE bstate'[b] = "PAUSED" /\ ~(cur = b /\ pc = "item" /\ pc' = "run")
    <3>1. lateStarts'[b] = lateStarts[b]
      BY <1>2, <2>4 DEF HistoryNext
    <3> QED BY <2>1, <2>4, <3>1 DEF PauseInv
  <2> QED BY <2>2, <2>3, <2>4
<1> QED BY <1>1, <1>2

(* A pause stops the lane: while it stays in force, at most one more item  *)
(* of the batch is begun (PauseStopsLane).                                 *)
THEOREM PauseStops == HistorySpec => []PauseStopsLane
<1>1. Init /\ HistoryInit => PauseInv
  BY DEF HistoryInit, PauseInv
<1>2. PauseInv => PauseStopsLane
  BY DEF PauseInv, PauseStopsLane
<1> QED BY <1>1, <1>2, HistoryKeepsPauseInv, PTL DEF HistorySpec

-----------------------------------------------------------------------------
(* No item is forgotten.                                                   *)

(* A finite set of numbers has a least one: the sets of the numbers below  *)
(* each of them are finite, and inclusion is well-founded on those.        *)
LEMMA LeastOf ==
    ASSUME NEW T \in SUBSET Nat, IsFiniteSet(T), T # {}
    PROVE  \E i \in T : \A j \in T : i <= j
<1> DEFINE below(i) == {j \in T : j < i}
           R == StrictSubsetOrdering(T)
           V == {below(i) : i \in T}
<1>1. IsWellFoundedOn(R, SUBSET T)
  BY FS_StrictSubsetOrderingWellFounded, FS_FiniteSubsetsOfFinite
<1>2. V \subseteq SUBSET T /\ V # {}
  OBVIOUS
<1>3. PICK x \in V : \A y \in V : <<y, x>> \notin R
  <2> HIDE DEF R, V
  <2> QED BY <1>1, <1>2, WFMin
<1>4. PICK i \in T : x = below(i)
  BY <1>3
<1>5. ASSUME NEW j \in T, j < i PROVE FALSE
  <2>1. below(j) \in V
    OBVIOUS
  <2>2. below(j) \subseteq below(i)
    <3> SUFFICES ASSUME NEW k \in T, k < j PROVE k < i
      OBVIOUS
    <3>1. k \in Nat /\ j \in Nat /\ i \in Nat
      OBVIOUS
    <3> QED BY <1>5, <3>1
  <2>3. j \in below(i) /\ j \notin below(j)
    BY <1>5
  <2>4. <<below(j), below(i)>> \in R
    BY <2>2, <2>3 DEF StrictSubsetOrdering
  <2> QED BY <2>1, <2>4, <1>3, <1>4
<1> QED BY <1>5

\* The lane has selected the items of its batch and not yet given them up.
Visiting == pc = "check" \/ AtItem \/ Moving({"AWAITING_REVIEW"})

(* The list of a run is of its batch, and the lane is at an item only      *)
(* while there is one.                                                     *)
OnList ==
    /\ AtItem => todo # {}
    /\ pc = "check" \/ AtItem => \A i \in todo : Owner[i] = cur

(* The item being run counts as put back as soon as it is QUEUED again and *)
(* no write of the run is going to change that; and a run that has made    *)
(* its last transition leaves the item out of the pipeline, or has yet to  *)
(* make the write that takes it out.                                       *)
ItemGiven ==
    AtItem /\ pc # "item" =>
        /\ istate[NextItem] = "QUEUED" =>
              NextItem \in requeued \/ move.to \in {"IN_FLIGHT", "ERROR"}
        /\ istate[NextItem] = "IN_FLIGHT" => pc = "run" \/ move # NoMove

(* What the run still owes: every item of its batch that needs processing  *)
(* is on its list or was put back since it was selected.  NoItemForgotten  *)
(* alone is not inductive: that nothing is forgotten when a batch comes up *)
(* for review depends on the list that was worked off.                     *)
Snapshot ==
    /\ Visiting => \A i \in Items : Owner[i] = cur /\ istate[i] \in NeedsProcessing
                                      => i \in todo \cup requeued
    /\ Moving({"AWAITING_REVIEW"}) => todo = {}
    /\ Working => bstate[cur] # "AWAITING_REVIEW"

HInv == OnList /\ ItemGiven /\ Snapshot /\ NoItemForgotten

LEMMA NextItemOnList ==
    ASSUME TypeOK, OnList, AtItem
    PROVE  NextItem \in todo /\ NextItem \in Items /\ Owner[NextItem] = cur
<1>1. todo \in SUBSET Nat /\ IsFiniteSet(todo) /\ todo # {}
  BY ItemsAssumption, FS_Subset DEF TypeOK, OnList
<1>2. \E i \in todo : \A j \in todo : i <= j
  BY <1>1, LeastOf
<1>3. NextItem \in todo
  BY <1>2 DEF NextItem
<1> QED BY <1>3 DEF TypeOK, OnList

\* No item is taken into the pipeline.
NoneStarted ==
    \A i \in Items : istate'[i] = "IN_FLIGHT" => istate[i] = "IN_FLIGHT"

\* What HistoryNext says of requeued outside the selection of items.
PutBack == requeued' = requeued \cup {i \in Items : Becomes(i, "QUEUED")}

NoNewReview ==
    \A b \in Batches : bstate'[b] = "AWAITING_REVIEW" => bstate[b] = "AWAITING_REVIEW"

\* An item that needs processing did so before, or has just been put back.
LEMMA NothingNew ==
    ASSUME PutBack, NoneStarted, NEW i \in Items, istate'[i] \in NeedsProcessing
    PROVE  istate[i] \in NeedsProcessing \/ i \in requeued'
BY DEF PutBack, NoneStarted, NeedsProcessing, Becomes

LEMMA NoneForgotten ==
    ASSUME NoItemForgotten, PutBack, NoneStarted, NoNewReview
    PROVE  NoItemForgotten'
BY NothingNew DEF NoItemForgotten, PutBack, NoNewReview, NeedsProcessing, ItemsOf,
       ItemExists, NoRow

LEMMA OthersKeepHInv ==
    ASSUME TypeOK, LanePhase, HInv, PutBack, NoneStarted, NoNewReview, UNCHANGED laneVars
    PROVE  HInv'
<1> USE DEF laneVars
<1>1. NoItemForgotten'
  BY NoneForgotten DEF HInv
<1>2. OnList'
  BY DEF HInv, OnList, AtItem
<1>3. ItemGiven'
  <2> SUFFICES ASSUME AtItem, pc # "item"
               PROVE  /\ istate'[NextItem] = "QUEUED" =>
                            NextItem \in requeued' \/ move.to \in {"IN_FLIGHT", "ERROR"}
                      /\ istate'[NextItem] = "IN_FLIGHT" => pc = "run" \/ move # NoMove
    BY DEF ItemGiven, AtItem, NextItem
  <2>1. NextItem \in Items
    BY NextItemOnList DEF HInv
  <2> QED BY <2>1 DEF HInv, ItemGiven, PutBack, Becomes, NoneStarted
<1>4. Snapshot'
  <2>1. Working' => bstate'[cur'] # "AWAITING_REVIEW"
    <3> SUFFICES ASSUME Working, bstate'[cur] = "AWAITING_REVIEW" PROVE FALSE
      BY DEF Working, AtItem, Moving
    <3>1. cur \in Batches
      BY DEF LanePhase, Working, AtItem, Moving
    <3> QED BY <3>1 DEF HInv, Snapshot, NoNewReview
  <2>2. Visiting' => \A i \in Items : Owner[i] = cur' /\ istate'[i] \in NeedsProcessing
                                         => i \in todo' \cup requeued'
    BY NothingNew DEF HInv, Snapshot, Visiting, AtItem, Moving, PutBack
  <2>3. Moving({"AWAITING_REVIEW"})' => todo' = {}
    BY DEF HInv, Snapshot, Moving
  <2> QED BY <2>1, <2>2, <2>3 DEF Snapshot
<1> QED BY <1>1, <1>2, <1>3, <1>4 DEF HInv

(* The run is over, or has no items: the database is not touched.          *)
LEMMA OffItemsKeepHInv ==
    ASSUME HInv, PutBack, UNCHANGED dbVars, ~Visiting', ~Working'
    PROVE  HInv'
<1>1. NoneStarted /\ NoNewReview
  BY DEF NoneStarted, NoNewReview, dbVars
<1>2. NoItemForgotten'
  BY <1>1, NoneForgotten DEF HInv
<1> QED BY <1>2 DEF HInv, OnList, ItemGiven, Snapshot, Visiting, Working, AtItem, Moving

LEMMA SelectsOrPutsBack ==
    ASSUME HistoryNext
    PROVE  PutBack \/ (SelectItems /\ requeued' = {i \in requeued : Owner[i] # cur})
<1> SUFFICES ASSUME pc = "select", pc' = "check" PROVE SelectItems
  BY DEF HistoryNext, PutBack
<1>1. Lane
  BY LaneOrNot DEF HistoryNext, laneVars, EndRun
<1>2. CASE RunItem
  BY <1>2 DEF RunItem, StartItem, Advance, EndItem, SoftFallback, FinishItem, RequeueItem,
              FailItem, Step, WriteMove, ErrorLost, ItemOk, ItemTransient, RecordFailures,
              ItemPermanent, Result
<1> QED
  BY <1>1, <1>2 DEF Lane, Dequeue, ReadBatchRow, TransitionRead, TransitionCommit, RunRaises,
                    ScanItems, CheckBatch, EndRun

LEMMA SelectKeepsHInv ==
    ASSUME TypeOK, HInv, SelectItems, requeued' = {i \in requeued : Owner[i] # cur}
    PROVE  HInv'
<1> USE DEF SelectItems, AtItem, dbVars
<1>1. bstate[cur] # "AWAITING_REVIEW"
  BY DEF HInv, Snapshot, Working
<1>2. NoItemForgotten'
  BY <1>1 DEF HInv, NoItemForgotten, ItemsOf, ItemExists
<1>3. \A i \in Items : Owner[i] = cur' /\ istate'[i] \in NeedsProcessing => i \in todo'
  BY DEF ItemsOf, ItemExists, NeedsProcessing, NoRow
<1>4. \A i \in todo' : Owner[i] = cur'
  BY DEF ItemsOf
<1> QED
  BY <1>1, <1>2, <1>3, <1>4 DEF HInv, OnList, ItemGiven, Snapshot, Working, Moving

(* The steps of the item loop but the writes: no row is touched, and an    *)
(* item leaves the list only when it is done or was put back.              *)
LEMMA ListKeepsHInv ==
    ASSUME TypeOK, HInv, PutBack, UNCHANGED <<bstate, istate, cur>>, Visiting, Working,
           todo' \subseteq todo, AtItem' => todo' # {},
           \A i \in todo \ todo' : istate[i] \in NeedsProcessing => i \in requeued,
           Moving({"AWAITING_REVIEW"})' => todo' = {},
           ItemGiven'
    PROVE  HInv'
<1>1. NoneStarted /\ NoNewReview
  BY DEF NoneStarted, NoNewReview
<1>2. NoItemForgotten'
  BY <1>1, NoneForgotten DEF HInv
<1>3. \A i \in Items : Owner[i] = cur' /\ istate'[i] \in NeedsProcessing
                          => i \in todo' \cup requeued'
  BY DEF HInv, Snapshot, PutBack
<1>4. Snapshot'
  BY <1>3 DEF HInv, Snapshot
<1>5. pc = "check" \/ AtItem \/ todo = {}
  BY DEF Visiting, HInv, Snapshot
<1>6. OnList'
  BY <1>5 DEF HInv, OnList
<1> QED BY <1>2, <1>4, <1>6 DEF HInv

LEMMA StepKeepsHInv ==
    ASSUME TypeOK, HInv, PutBack, StartItem \/ Advance \/ EndItem
    PROVE  HInv'
<1> USE DEF StartItem, Advance, EndItem, SoftFallback, FinishItem, RequeueItem, FailItem, Step,
            ItemFrame
<1>1. UNCHANGED <<bstate, istate, cur, todo>> /\ AtItem /\ AtItem' /\ pc' # "item"
  BY DEF AtItem
<1>2. NextItem' = NextItem
  BY <1>1 DEF NextItem
<1>3. requeued \subseteq requeued'
  BY DEF PutBack
<1>4. pc # "item" /\ istate[NextItem] = "QUEUED" => NextItem \in requeued'
  BY <1>1, <1>3 DEF HInv, ItemGiven, NoMove
<1>5. StartItem /\ istate[NextItem] = "QUEUED" => move'.to = "IN_FLIGHT"
  BY DEF Read
<1>6. ~StartItem => pc # "item"
  OBVIOUS
<1>7. istate[NextItem] = "IN_FLIGHT" => pc' = "run" \/ move' # NoMove
  BY DEF Read, Reviewable, NoMove
<1>8. ItemGiven'
  BY <1>1, <1>2, <1>4, <1>5, <1>6, <1>7 DEF ItemGiven
<1>9. ~Moving({"AWAITING_REVIEW"})'
  BY <1>1 DEF AtItem, Moving
<1> QED BY <1>1, <1>8, <1>9, ListKeepsHInv DEF Visiting, Working, HInv, OnList

LEMMA WriteKeepsHInv ==
    ASSUME TypeOK, MoveInv, HInv, PutBack, WriteMove
    PROVE  HInv'
<1> USE DEF WriteMove, ItemFrame
<1>1. AtItem /\ pc # "item" /\ Working /\ Visiting
  BY DEF MoveInv, AtItem, Working, Visiting
<1>2. NextItem \in todo /\ NextItem \in Items /\ Owner[NextItem] = cur
  BY <1>1, NextItemOnList DEF HInv
<1>3. /\ istate'[NextItem] = move.to
      /\ \A i \in Items \ {NextItem} : istate'[i] = istate[i]
  BY <1>2 DEF SetItem, TypeOK
<1>4. bstate[cur] # "AWAITING_REVIEW"
  BY <1>1 DEF HInv, Snapshot
<1>5. NoItemForgotten'
  <2> SUFFICES ASSUME NEW b \in Batches, bstate[b] = "AWAITING_REVIEW", NEW i \in ItemsOf(b)',
                      istate'[i] \in {"QUEUED", "IN_FLIGHT"}
               PROVE  i \in requeued'
    BY DEF NoItemForgotten
  <2>1. i \in Items /\ i # NextItem /\ Owner[i] = b
    BY <1>2, <1>4 DEF ItemsOf
  <2>2. i \in ItemsOf(b)
    BY <1>3, <2>1 DEF ItemsOf, ItemExists, NoRow
  <2> QED BY <1>3, <2>1, <2>2 DEF HInv, NoItemForgotten, PutBack
<1>6. Snapshot'
  <2>1. \A i \in Items : Owner[i] = cur /\ istate'[i] \in NeedsProcessing
                            => i \in todo \cup requeued'
    BY <1>1, <1>2, <1>3 DEF HInv, Snapshot, PutBack
  <2> QED BY <1>4, <2>1 DEF HInv, Snapshot, Moving
<1>7. OnList'
  BY DEF HInv, OnList, AtItem
<1>8. ItemGiven'
  <2>1. NextItem' = NextItem /\ UNCHANGED pc
    BY DEF NextItem
  <2>2. move.to = "QUEUED" => NextItem \in requeued'
    BY <1>1, <1>2, <1>3 DEF HInv, ItemGiven, PutBack, Becomes
  <2> QED BY <1>3, <2>1, <2>2 DEF ItemGiven, MoveInv
<1> QED BY <1>5, <1>6, <1>7, <1>8 DEF HInv

LEMMA ResultKeepsHInv ==
    ASSUME TypeOK, HInv, PutBack, NEW n,
           ItemOk \/ ItemTransient \/ RecordFailures(n) \/ ItemPermanent
    PROVE  HInv'
<1> USE DEF Result
<1>1. /\ UNCHANGED <<bstate, istate, cur>>
      /\ pc \in {"ok", "transient", "permanent", "failed"} /\ move = NoMove
      /\ ~Moving({"AWAITING_REVIEW"})'
  BY DEF ItemOk, ItemTransient, RecordFailures, ItemPermanent, NextCheck, Transition, Moving
<1>2. /\ istate[NextItem] = "QUEUED" => NextItem \in requeued
      /\ istate[NextItem] # "IN_FLIGHT"
  BY <1>1 DEF HInv, ItemGiven, AtItem, NoMove
<1>3. AtItem /\ Visiting /\ Working
  BY <1>1 DEF AtItem, Visiting, Working
<1>4. CASE RecordFailures(n)
  <2>1. pc' = "failed" /\ UNCHANGED <<todo, move>> /\ requeued \subseteq requeued'
    BY <1>4 DEF RecordFailures, PutBack
  <2>2. NextItem' = NextItem
    BY <2>1 DEF NextItem
  <2>3. ItemGiven'
    BY <1>1, <1>2, <2>1, <2>2 DEF ItemGiven
  <2>4. todo # {}
    BY <1>3 DEF HInv, OnList
  <2> QED BY <1>1, <1>3, <2>1, <2>3, <2>4, ListKeepsHInv
<1>5. CASE ItemOk \/ ItemTransient \/ ItemPermanent
  <2>1. todo' \in {todo, todo \ {NextItem}} /\ pc' \in {"check", "transition"}
    BY <1>5 DEF ItemOk, ItemTransient, ItemPermanent, NextCheck, Transition
  <2>2. ~AtItem' /\ ItemGiven'
    BY <2>1 DEF AtItem, ItemGiven
  <2>3. \A i \in todo \ todo' : istate[i] \in NeedsProcessing => i \in requeued
    BY <1>2, <2>1 DEF NeedsProcessing
  <2> QED BY <1>1, <1>3, <2>1, <2>2, <2>3, ListKeepsHInv
<1> QED BY <1>4, <1>5

LEMMA RunItemKeepsHInv ==
    ASSUME TypeOK, MoveInv, HInv, PutBack, RunItem
    PROVE  HInv'
<1>1. CASE ErrorLost
  <2>1. UNCHANGED <<bstate, istate, cur, pc, target, todo>>
    BY <1>1 DEF ErrorLost, ItemFrame
  <2>2. AtItem /\ Visiting /\ Working /\ ~Moving({"AWAITING_REVIEW"})
    BY <1>1 DEF ErrorLost, MoveInv, NoMove, AtItem, Visiting, Working, Moving
  <2>3. istate[NextItem] \notin {"QUEUED", "IN_FLIGHT"} /\ NextItem' = NextItem
    BY <1>1, <2>1 DEF ErrorLost, ItemExists, NoRow, NextItem
  <2>4. ItemGiven'
    BY <2>1, <2>3 DEF ItemGiven
  <2>5. ~Moving({"AWAITING_REVIEW"})' /\ todo # {}
    BY <2>1, <2>2 DEF Moving, HInv, OnList
  <2> QED BY <2>1, <2>2, <2>4, <2>5, ListKeepsHInv
<1> QED BY <1>1, StepKeepsHInv, WriteKeepsHInv, ResultKeepsHInv DEF RunItem

LEMMA LaneKeepsHInv ==
    ASSUME TypeOK, LanePhase, MoveInv, HInv, PutBack, Lane, ~SelectItems
    PROVE  HInv'
<1> USE DEF dbVars, auxVars
<1>1. ASSUME EndRun, UNCHANGED dbVars PROVE HInv'
  BY <1>1, OffItemsKeepHInv DEF EndRun, Visiting, Working, AtItem, Moving
<1>2. CASE Dequeue
  BY <1>2, OffItemsKeepHInv DEF Dequeue, Visiting, Working, AtItem, Moving
<1>3. CASE ReadBatchRow
  <2>1. CASE BatchExists(cur)
    BY <1>3, <2>1, OffItemsKeepHInv DEF ReadBatchRow, Transition, Visiting, Working, AtItem, Moving
  <2>2. CASE ~BatchExists(cur)
    BY <1>1, <1>3, <2>2 DEF ReadBatchRow
  <2> QED BY <2>1, <2>2
<1>4. CASE TransitionRead
  <2>1. CASE pc' = "commit" /\ UNCHANGED <<cur, target, todo, net>>
    <3>1. NoneStarted /\ NoNewReview
      BY <1>4 DEF TransitionRead, NoneStarted, NoNewReview
    <3>2. NoItemForgotten'
      BY <3>1, NoneForgotten DEF HInv
    <3>3. UNCHANGED <<bstate, istate>> /\ pc = "transition" /\ ~AtItem'
      BY <1>4, <2>1 DEF TransitionRead, AtItem
    <3> QED
      BY <2>1, <3>2, <3>3 DEF HInv, OnList, ItemGiven, Snapshot, Visiting, Working, AtItem,
                              Moving, PutBack
  <2> QED BY <1>1, <1>4, <2>1 DEF TransitionRead
<1>5. CASE TransitionCommit
  <2>1. cur \in Batches
    BY <1>5 DEF TransitionCommit, LanePhase
  <2>2. bstate'[cur] = target /\ \A b \in Batches \ {cur} : bstate'[b] = bstate[b]
    BY <1>5, <2>1 DEF TransitionCommit, TypeOK
  <2>3. target = "AWAITING_REVIEW" =>
          \A i \in Items : Owner[i] = cur /\ istate[i] \in NeedsProcessing => i \in requeued
    BY <1>5 DEF TransitionCommit, HInv, Snapshot, Visiting, Moving
  <2>4. NoItemForgotten'
    BY <1>5, <2>1, <2>2, <2>3
       DEF TransitionCommit, HInv, NoItemForgotten, PutBack, ItemsOf, ItemExists,
           NeedsProcessing
  <2>5. ~Visiting' /\ (Working' => pc' = "select" /\ cur' = cur /\ target = "PROCESSING")
    BY <1>5 DEF TransitionCommit, EndRun, Visiting, Working, AtItem, Moving
  <2> QED BY <2>2, <2>4, <2>5 DEF HInv, OnList, ItemGiven, Snapshot, Visiting, Moving
<1>6. CASE RunRaises
  BY <1>1, <1>6 DEF RunRaises
<1>7. CASE ScanItems
  <2>1. CASE Transition("PROCESSING")
    BY <1>7, <2>1, OffItemsKeepHInv DEF ScanItems, Transition, Visiting, Working, AtItem, Moving
  <2> QED BY <1>1, <1>7, <2>1 DEF ScanItems
<1>8. CASE CheckBatch
  <2>1. pc = "check" /\ UNCHANGED <<bstate, istate>>
    BY <1>8 DEF CheckBatch
  <2>2. CASE pc' \in {"item", "transition"}
    <3>1. UNCHANGED <<cur, todo>> /\ (pc' = "transition" <=> todo = {})
      BY <1>8, <2>2 DEF CheckBatch, Transition, EndRun
    <3>2. (AtItem' => todo' # {}) /\ (Moving({"AWAITING_REVIEW"})' => todo' = {})
      BY <2>2, <3>1 DEF AtItem, Moving
    <3>3. ItemGiven' /\ Visiting /\ Working
      BY <2>1, <2>2 DEF ItemGiven, AtItem, Visiting, Working
    <3> QED BY <2>1, <3>1, <3>2, <3>3, ListKeepsHInv
  <2> QED BY <1>1, <1>8, <2>2 DEF CheckBatch, Transition
<1>9. CASE RunItem
  BY <1>9, RunItemKeepsHInv
<1> QED BY <1>2, <1>3, <1>4, <1>5, <1>6, <1>7, <1>8, <1>9 DEF Lane

LEMMA HandlerKeepsHInv ==
    ASSUME TypeOK, LanePhase, RequestOK, HInv, PutBack, NEW c \in Clients, Handler(c)
    PROVE  HInv'
<1>1. CASE Commit(c)
  <2>1. req[c] \in Request
    BY <1>1 DEF Commit, TypeOK, NoReq
  <2>2. NoNewReview
    BY <1>1, <2>1 DEF Commit, NoNewReview, TypeOK, Request, HandlerStates
  <2>3. NoneStarted
    BY <1>1 DEF Commit, RequestOK, NoneStarted
  <2> QED BY <1>1, <2>2, <2>3, OthersKeepHInv DEF Commit
<1>2. CASE ~Commit(c)
  <2>1. UNCHANGED <<dbVars, laneVars>>
    BY <1>2 DEF Handler, Arrives, Proceeds, Flush, BeginQueue, BeginPause, BeginAbort, BeginExport, BeginDelete,
                BeginCreate, BeginScan, BeginDecide, Begin, Enqueue, RollBack
  <2> QED BY <2>1, OthersKeepHInv DEF NoneStarted, NoNewReview, dbVars
<1> QED BY <1>1, <1>2

LEMMA HistoryKeepsHInv ==
    TypeOK /\ LanePhase /\ RequestOK /\ MoveInv /\ HInv /\ [HistoryNext]_allVars => HInv'
<1> SUFFICES ASSUME TypeOK, LanePhase, RequestOK, MoveInv, HInv, [HistoryNext]_allVars
             PROVE  HInv'
  OBVIOUS
<1>1. CASE UNCHANGED allVars
  <2>1. UNCHANGED <<bstate, istate, pc, cur, target, todo, move, requeued>>
    BY <1>1 DEF allVars, vars, historyVars, dbVars, laneVars
  <2> QED BY <2>1 DEF HInv, OnList, ItemGiven, Snapshot, NoItemForgotten, Visiting, Working,
                      AtItem, Moving, ItemsOf, ItemExists, NextItem
<1>2. CASE SelectItems /\ requeued' = {i \in requeued : Owner[i] # cur}
  BY <1>2, SelectKeepsHInv
<1>3. ASSUME Next, PutBack PROVE HInv'
  <2>1. CASE Lane
    <3>1. CASE SelectItems
      <4>1. NoneStarted /\ NoNewReview
        BY <3>1 DEF SelectItems, NoneStarted, NoNewReview, dbVars
      <4> QED
        BY <3>1, <4>1, NoneForgotten, <1>3
           DEF HInv, OnList, ItemGiven, Snapshot, SelectItems, Working, AtItem, Moving,
               ItemsOf, ItemExists, NeedsProcessing, NoRow, dbVars
    <3> QED BY <1>3, <2>1, <3>1, LaneKeepsHInv
  <2>2. CASE Scheduler
    <3>1. UNCHANGED laneVars /\ NoneStarted /\ NoNewReview
      BY <2>2 DEF Scheduler, TickRead, TickCommit, TickFails, NoneStarted, NoNewReview, dbVars
    <3> QED BY <1>3, <3>1, OthersKeepHInv
  <2>3. CASE Crash
    BY <1>3, <2>3, OffItemsKeepHInv DEF Crash, EndRun, Visiting, Working, AtItem, Moving
  <2>4. CASE Restart
    <3>1. UNCHANGED laneVars /\ NoneStarted /\ NoNewReview
      BY <2>4 DEF Restart, NoneStarted, NoNewReview
    <3> QED BY <1>3, <3>1, OthersKeepHInv
  <2>5. ASSUME NEW c \in Clients, Handler(c) PROVE HInv'
    BY <1>3, <2>5, HandlerKeepsHInv
  <2>6. ASSUME NEW c \in Clients, NEW P \in Projects, DeleteProject(c, P) PROVE HInv'
    <3>1. UNCHANGED laneVars /\ NoneStarted /\ NoNewReview
      BY <2>6 DEF DeleteProject, NoneStarted, NoNewReview, NeedsProcessing
    <3> QED BY <1>3, <3>1, OthersKeepHInv
  <2> QED BY <1>3, <2>1, <2>2, <2>3, <2>4, <2>5, <2>6 DEF Next
<1> QED BY <1>1, <1>2, <1>3, SelectsOrPutsBack DEF HistoryNext

(* No item is forgotten: when a batch is up for review, an item of it that *)
(* still needs processing was put back after the run had selected its      *)
(* items (NoItemForgotten).                                                *)
THEOREM NothingForgotten == HistorySpec => []NoItemForgotten
<1>1. Init /\ HistoryInit => HInv
  BY DEF Init, HInv, OnList, ItemGiven, Snapshot, NoItemForgotten, Visiting, Working, AtItem,
         Moving
<1>2. HistorySpec => [](TypeOK /\ LanePhase /\ RequestOK /\ MoveInv)
  BY HistoryIsSpec, TypeCorrect, LanePhaseHolds, RequestsOK, PTL
<1>3. HistorySpec => []HInv
  BY <1>1, <1>2, HistoryKeepsHInv, PTL DEF HistorySpec
<1>4. HInv => NoItemForgotten
  BY DEF HInv
<1> QED BY <1>3, <1>4, PTL

-----------------------------------------------------------------------------
(* A batch that waits is in the queue.                                     *)

(* What recover_and_load and _tick put into the queue leaves nothing out:  *)
(* a list in creation order has no repetitions, so that as many entries as *)
(* there are batches are all the batches.                                  *)
LEMMA InOrderIsAll ==
    ASSUME NEW S \in SUBSET Batches, NEW s \in InOrder(S), NEW b \in S
    PROVE  \E n \in DOMAIN s : s[n] = b
<1> DEFINE k == Cardinality(S)
<1>1. IsFiniteSet(S)
  BY BatchesAssumption, FS_Subset
<1>2. k \in Nat
  BY <1>1, FS_CardinalityType
<1>3. s \in [1..k -> S] /\ \A m, n \in 1..k : m < n => s[m] < s[n]
  BY DEF InOrder
<1>4. s \in Injection(1..k, S)
  <2>1. ASSUME NEW m \in 1..k, NEW n \in 1..k, s[m] = s[n] PROVE m = n
    <3>1. s[m] \in Nat /\ s[n] \in Nat
      BY <1>3, BatchesAssumption
    <3>2. CASE m < n
      BY <1>3, <2>1, <3>1, <3>2
    <3>3. CASE n < m
      BY <1>3, <2>1, <3>1, <3>3
    <3> QED BY <1>2, <3>2, <3>3
  <2> QED BY <1>3, <2>1 DEF Injection, IsInjective
<1>5. Cardinality(1..k) = k
  BY <1>2, FS_Interval
<1>6. s \in Surjection(1..k, S)
  BY <1>1, <1>4, <1>5, FS_Injection
<1> QED BY <1>3, <1>6 DEF Surjection

\* Where the entries stand that recovery puts behind those already queued.
LEMMA SecondPart ==
    ASSUME NEW S, NEW q \in Seq(S), NEW s \in Seq(S), NEW n \in DOMAIN s
    PROVE  Len(q) + n \in DOMAIN (q \o s) /\ (q \o s)[Len(q) + n] = s[n]
<1>1. Len(q) \in Nat /\ Len(s) \in Nat /\ n \in 1..Len(s)
  OBVIOUS
<1>2. Len(q \o s) = Len(q) + Len(s) /\ DOMAIN (q \o s) = 1..Len(q \o s)
  OBVIOUS
<1>3. Len(q) + n \in 1..Len(q \o s)
  BY <1>1, <1>2
<1>4. (q \o s)[Len(q) + n] = s[n]
  BY <1>1
<1> QED BY <1>2, <1>3, <1>4

LEMMA QueueGrows ==
    ASSUME TypeOK, NEW s \in Seq(Batches), queue' = queue \o s
    PROVE  /\ \A b : InQueue(b) => InQueue(b)'
           /\ \A n \in DOMAIN s : InQueue(s[n])'
<1>1. ASSUME NEW n \in DOMAIN queue PROVE n \in DOMAIN queue' /\ queue'[n] = queue[n]
  BY DEF TypeOK
<1>2. ASSUME NEW n \in DOMAIN s
      PROVE  Len(queue) + n \in DOMAIN queue' /\ queue'[Len(queue) + n] = s[n]
  BY SecondPart DEF TypeOK
<1> QED BY <1>1, <1>2 DEF InQueue

LEMMA QueueAppends ==
    ASSUME TypeOK, NEW b \in Batches, queue' = Append(queue, b)
    PROVE  InQueue(b)' /\ \A a : InQueue(a) => InQueue(a)'
<1>1. ASSUME NEW n \in DOMAIN queue PROVE n \in DOMAIN queue' /\ queue'[n] = queue[n]
  BY DEF TypeOK
<1>2. Len(queue) + 1 \in DOMAIN queue' /\ queue'[Len(queue) + 1] = b
  BY DEF TypeOK
<1> QED BY <1>1, <1>2 DEF InQueue

LEMMA QueueShrinks ==
    ASSUME TypeOK, queue # <<>>, queue' = Tail(queue), NEW b, InQueue(b)
    PROVE  b = Head(queue) \/ InQueue(b)'
<1>1. PICK n \in DOMAIN queue : queue[n] = b
  BY DEF InQueue
<1>2. n = 1 => b = Head(queue)
  BY <1>1 DEF TypeOK
<1>3. n # 1 => n - 1 \in DOMAIN queue' /\ queue'[n - 1] = b
  BY <1>1 DEF TypeOK
<1> QED BY <1>2, <1>3 DEF InQueue

\* The batch has an entry, or the lane took the one it had too early.
Waits(b) == InQueue(b) \/ b \in missed

(* Whatever will be written QUEUED has been put into the queue, and a      *)
(* QUEUED batch that has no entry has been taken out by the lane, which    *)
(* has yet to move it on, or was too early to.                             *)
QueueInv ==
    /\ ~up => due = {} /\ \A c \in Clients : req[c] = NoReq
    /\ \A b \in Batches : Announced(b) => Waits(b)
    /\ \A b \in due : InQueue(b)
    /\ up => \A b \in Batches \ stranded : bstate[b] = "QUEUED" =>
                Waits(b) \/ (cur = b /\ (Early \/ Entering))

(* A batch is no longer missed only when it has an entry again.            *)
LEMMA StillWaits ==
    ASSUME HistoryNext, up, up', NEW b \in Batches, Waits(b), InQueue(b) => InQueue(b)'
    PROVE  Waits(b)'
BY DEF HistoryNext, Waits

LEMMA QueueKept == queue' = queue => \A b : InQueue(b)' = InQueue(b)
BY DEF InQueue

LEMMA LaneStepKeepsQueueInv ==
    ASSUME HistoryNext, up, QueueInv, UNCHANGED <<bstate, up, queue, due, req>>,
           stranded \subseteq stranded',
           Early \/ Entering =>
              \/ bstate[cur] # "QUEUED" \/ cur \in stranded'
              \/ cur' = cur /\ (Early \/ Entering)'
    PROVE  QueueInv'
<1>1. \A b \in Batches : Waits(b) => Waits(b)'
  BY StillWaits, QueueKept
<1>2. \A b : Announced(b)' = Announced(b)
  BY DEF Announced
<1> QED BY <1>1, <1>2, QueueKept DEF QueueInv

LEMMA DequeueKeepsQueueInv ==
    ASSUME TypeOK, HistoryNext, QueueInv, Dequeue
    PROVE  QueueInv'
<1>1. cur' = Head(queue) /\ Early' /\ up /\ up' /\ pc = "idle" /\ ~Early /\ ~Entering
  BY DEF Dequeue, Early, Entering, Moving
<1>2. \A b : InQueue(b) => b = cur' \/ InQueue(b)'
  BY <1>1, QueueShrinks DEF Dequeue
<1>3. UNCHANGED <<bstate, req, stranded>> /\ due' = {}
  BY DEF Dequeue, dbVars, auxVars
<1>4. ASSUME NEW b \in Batches, Waits(b), b # cur' PROVE Waits(b)'
  BY <1>1, <1>2, <1>4, StillWaits
<1>5. ASSUME NEW b \in Batches, Announced(b) PROVE Waits(b)'
  <2>1. CASE b = cur'
    BY <1>1, <1>5, <2>1 DEF HistoryNext, Waits
  <2>2. CASE b # cur'
    BY <1>4, <1>5, <2>2 DEF QueueInv
  <2> QED BY <2>1, <2>2
<1>6. \A b : Announced(b)' = Announced(b)
  BY <1>3 DEF Announced
<1> QED BY <1>1, <1>3, <1>4, <1>5, <1>6 DEF QueueInv

LEMMA LaneKeepsQueueInv ==
    ASSUME TypeOK, LanePhase, MoveInv, HistoryNext, QueueInv, Lane
    PROVE  QueueInv'
<1> USE DEF dbVars, auxVars
<1>1. CASE Dequeue
  BY <1>1, DequeueKeepsQueueInv
<1>2. CASE ReadBatchRow
  <2>1. CASE BatchExists(cur)
    BY <1>2, <2>1, LaneStepKeepsQueueInv
       DEF ReadBatchRow, Transition, Early, Entering, Moving, LanePhase
  <2>2. CASE ~BatchExists(cur)
    BY <1>2, <2>2, LaneStepKeepsQueueInv DEF ReadBatchRow, BatchExists, NoRow, LanePhase
  <2> QED BY <2>1, <2>2
<1>3. CASE TransitionRead
  <2>1. CASE pc' = "commit" /\ UNCHANGED <<cur, target>>
    BY <1>3, <2>1, LaneStepKeepsQueueInv DEF TransitionRead, Early, Entering, Moving, LanePhase
  <2>2. CASE ~(BatchExists(cur) /\ is_valid_batch_transition(bstate[cur], target))
    <3>1. is_valid_batch_transition("QUEUED", "SCANNING")
            /\ is_valid_batch_transition("QUEUED", "PROCESSING")
      BY DEF is_valid_batch_transition, BATCH_TRANSITIONS
    <3>2. Early \/ Entering => bstate[cur] # "QUEUED"
      BY <1>3, <2>2, <3>1 DEF TransitionRead, Early, Entering, Moving, BatchExists, NoRow
    <3> QED BY <1>3, <3>2, LaneStepKeepsQueueInv DEF TransitionRead, LanePhase
  <2> QED BY <1>3, <2>1, <2>2 DEF TransitionRead
<1>4. CASE TransitionCommit
  <2>1. /\ cur \in Batches /\ target # "QUEUED" /\ bstate'[cur] = target /\ up
        /\ \A b \in Batches \ {cur} : bstate'[b] = bstate[b]
    BY <1>4 DEF TransitionCommit, TypeOK, LanePhase
  <2>2. UNCHANGED <<queue, up, due, req>> /\ stranded' = stranded \ {cur}
    BY <1>4 DEF TransitionCommit
  <2>3. \A b \in Batches : Waits(b) => Waits(b)'
    BY <2>1, <2>2, StillWaits, QueueKept
  <2>4. \A b : Announced(b)' = Announced(b)
    BY <2>2 DEF Announced
  <2> QED BY <2>1, <2>2, <2>3, <2>4, QueueKept DEF QueueInv
<1>5. CASE RunRaises
  BY <1>5, LaneStepKeepsQueueInv DEF RunRaises, LanePhase
<1>6. CASE ScanItems
  <2>1. CASE Transition("PROCESSING")
    BY <1>6, <2>1, LaneStepKeepsQueueInv DEF ScanItems, Transition, Entering, Moving, LanePhase
  <2>2. CASE ~BatchExists(cur)
    BY <1>6, <2>2, LaneStepKeepsQueueInv DEF ScanItems, BatchExists, NoRow, LanePhase
  <2> QED BY <1>6, <2>1, <2>2 DEF ScanItems
<1>7. CASE SelectItems \/ CheckBatch
  BY <1>7, LaneStepKeepsQueueInv
     DEF SelectItems, CheckBatch, Early, Entering, Moving, LanePhase
<1>8. CASE RunItem
  <2>1. UNCHANGED <<bstate, up, queue, due, req, stranded>>
    BY <1>8 DEF RunItem, StartItem, Advance, EndItem, SoftFallback, FinishItem, RequeueItem,
                FailItem, Step, ItemFrame, WriteMove, ErrorLost, ItemOk, ItemTransient,
                RecordFailures, ItemPermanent, Result
  <2>2. AtItem
    <3>1. CASE WriteMove \/ ErrorLost
      BY <3>1 DEF WriteMove, ErrorLost, MoveInv, NoMove, AtItem
    <3>2. CASE ~(WriteMove \/ ErrorLost)
      BY <1>8, <3>2 DEF RunItem, StartItem, Advance, EndItem, SoftFallback, FinishItem,
                    RequeueItem, FailItem, Step, ItemOk, ItemTransient, RecordFailures,
                    ItemPermanent, Result, AtItem
    <3> QED BY <3>1, <3>2
  <2>3. ~Early /\ ~Entering /\ up
    BY <2>2 DEF AtItem, Early, Entering, Moving, LanePhase
  <2> QED BY <2>1, <2>3, LaneStepKeepsQueueInv
<1> QED
  BY <1>1, <1>2, <1>3, <1>4, <1>5, <1>6, <1>7, <1>8 DEF Lane

LEMMA BeginKeepsQueueInv ==
    ASSUME TypeOK, HistoryNext, QueueInv, NEW c \in Clients, NEW r, Begin(c, r),
           r.to = "QUEUED" => r.enqueue
    PROVE  QueueInv'
<1>1. ASSUME NEW d \in Clients PROVE req'[d] = IF d = c THEN r ELSE req[d]
  BY DEF Begin, TypeOK
<1>2. up /\ up' /\ UNCHANGED <<queue, bstate, due, cur, pc, target, stranded>>
  BY DEF Begin, dbVars, laneVars
<1>3. \A b \in Batches : Waits(b) => Waits(b)'
  BY <1>2, StillWaits, QueueKept
<1>4. \A b : Announced(b)' => Announced(b)
  BY <1>1 DEF Announced
<1> QED BY <1>2, <1>3, <1>4, QueueKept DEF QueueInv, Early, Entering, Moving

LEMMA HandlerKeepsQueueInv ==
    ASSUME TypeOK, HistoryNext, QueueInv, NEW c \in Clients, Handler(c)
    PROVE  QueueInv'
<1> USE DEF dbVars, laneVars, auxVars
<1>1. CASE ~(Enqueue(c) \/ Flush(c) \/ Commit(c) \/ RollBack(c))
  BY <1>1, HandlerBegins, BeginKeepsQueueInv DEF WellFormed
<1>2. ASSUME Enqueue(c) \/ Flush(c) \/ Commit(c) \/ RollBack(c)
      PROVE  /\ up /\ UNCHANGED <<up, due, cur, pc, target, stranded>>
             /\ req[c] \in Request
  <2>1. req[c] # NoReq
    <3>1. NoReq.op = "none" /\ ~NoReq.enqueue
      BY DEF NoReq
    <3> QED BY <1>2, <3>1 DEF Enqueue, Flush, Commit, RollBack
  <2>2. up /\ req[c] \in Request
    BY <2>1 DEF QueueInv, TypeOK
  <2> QED BY <1>2, <2>2 DEF Enqueue, Flush, Commit, RollBack
<1>3. CASE Enqueue(c)
  <2>1. PICK q \in Batches : q = req[c].batch /\ queue' = Append(queue, q)
    BY <1>2, <1>3 DEF Enqueue, Request
  <2>2. InQueue(q)' /\ \A a : InQueue(a) => InQueue(a)'
    BY <2>1, QueueAppends
  <2>3. UNCHANGED bstate
    BY <1>3 DEF Enqueue
  <2>4. PICK l \in BOOLEAN : req' = [req EXCEPT ![c].enqueue = FALSE, ![c].locks = l]
    BY <1>3 DEF Enqueue
  <2>5. ASSUME NEW d \in Clients
        PROVE  /\ req'[d].to = req[d].to /\ req'[d].batch = req[d].batch
               /\ d # c => req'[d] = req[d]
    BY <1>2, <2>4 DEF TypeOK, Request
  <2>6. \A b : Announced(b)' => Announced(b) \/ b = q
    BY <2>1, <2>5 DEF Announced
  <2>7. \A b \in Batches : Waits(b) => Waits(b)'
    BY <1>2, <1>3, <2>2, StillWaits
  <2>8. Waits(q)'
    BY <2>2 DEF Waits
  <2> QED BY <1>2, <1>3, <2>2, <2>3, <2>6, <2>7, <2>8 DEF QueueInv, Early, Entering, Moving
<1>4. CASE Flush(c) \/ Commit(c) \/ RollBack(c)
  <2>1. UNCHANGED queue
    BY <1>4 DEF Flush, Commit, RollBack
  <2>2. \A b \in Batches : Waits(b) => Waits(b)'
    BY <1>2, <1>4, <2>1, QueueKept, StillWaits
  <2>3. \A b \in Batches : bstate'[b] = "QUEUED" => bstate[b] = "QUEUED" \/ Announced(b)
    BY <1>4 DEF Flush, Commit, RollBack, Announced, TypeOK
  <2>4. ASSUME NEW d \in Clients
        PROVE  \/ req'[d] = NoReq
               \/ /\ req'[d].to = req[d].to /\ req'[d].batch = req[d].batch
                  /\ req'[d].enqueue = req[d].enqueue
    BY <1>2, <1>4 DEF Flush, Commit, RollBack, TypeOK, Request
  <2>5. \A b : Announced(b)' => Announced(b)
    BY <2>4 DEF Announced, NoReq
  <2> QED BY <1>2, <1>4, <2>1, <2>2, <2>3, <2>5, QueueKept DEF QueueInv, Early, Entering, Moving
<1> QED BY <1>1, <1>3, <1>4

LEMMA SchedulerKeepsQueueInv ==
    ASSUME TypeOK, HistoryNext, QueueInv, Scheduler
    PROVE  QueueInv'
<1> USE DEF dbVars, laneVars, auxVars
<1>1. up /\ UNCHANGED <<up, req, pc, cur, target, stranded>>
  BY DEF Scheduler, TickRead, TickCommit, TickFails, QueueInv
<1>2. \A b : Announced(b)' = Announced(b)
  BY <1>1 DEF Announced
<1>3. ASSUME NEW S \in SUBSET Batches, TickRead(S) PROVE QueueInv'
  <2>1. PICK s \in InOrder(S) : queue' = queue \o s
    BY <1>3 DEF TickRead
  <2>2. s \in Seq(Batches)
    BY InOrderType
  <2>3. \A b : InQueue(b) => InQueue(b)'
    BY <2>1, <2>2, QueueGrows
  <2>4. \A b \in S : InQueue(b)'
    BY <2>1, <2>2, QueueGrows, InOrderIsAll
  <2>5. \A b \in Batches : Waits(b) => Waits(b)'
    BY <1>1, <2>3, StillWaits
  <2>6. UNCHANGED bstate /\ due' = S
    BY <1>3 DEF TickRead
  <2> QED BY <1>1, <1>2, <2>4, <2>5, <2>6 DEF QueueInv, Early, Entering, Moving
<1>4. CASE TickCommit \/ TickFails
  <2>1. UNCHANGED queue /\ due' = {}
    BY <1>4 DEF TickCommit, TickFails
  <2>2. \A b \in Batches : Waits(b) => Waits(b)'
    BY <1>1, <2>1, QueueKept, StillWaits
  <2>3. \A b \in Batches : bstate'[b] = "QUEUED" => bstate[b] = "QUEUED" \/ b \in due
    BY <1>4 DEF TickCommit, TickFails
  <2>4. \A b \in due : Waits(b)
    BY DEF QueueInv, Waits
  <2> QED BY <1>1, <1>2, <2>1, <2>2, <2>3, <2>4 DEF QueueInv, Early, Entering, Moving, TypeOK
<1> QED BY <1>3, <1>4 DEF Scheduler

LEMMA HistoryKeepsQueueInv ==
    TypeOK /\ LanePhase /\ MoveInv /\ QueueInv /\ [HistoryNext]_allVars => QueueInv'
<1> SUFFICES ASSUME TypeOK, LanePhase, MoveInv, QueueInv, [HistoryNext]_allVars
             PROVE  QueueInv'
  OBVIOUS
<1>1. CASE UNCHANGED allVars
  BY <1>1 DEF allVars, historyVars, vars, dbVars, laneVars, auxVars, QueueInv, Announced,
              Waits, InQueue, Early, Entering, Moving
<1>2. CASE HistoryNext /\ Lane
  BY <1>2, LaneKeepsQueueInv
<1>3. CASE HistoryNext /\ Scheduler
  BY <1>3, SchedulerKeepsQueueInv
<1>4. CASE Crash
  BY <1>4 DEF Crash, QueueInv, Announced, NoReq
<1>5. CASE Restart
  <2>1. due' = {} /\ \A c \in Clients : req'[c] = NoReq
    BY <1>5 DEF Restart, QueueInv
  <2>2. \A b \in Batches : bstate'[b] = "QUEUED" => InQueue(b)'
    BY <1>5, InOrderIsAll DEF Restart, InQueue
  <2> QED BY <1>5, <2>1, <2>2 DEF QueueInv, Waits, Announced, NoReq
<1>6. ASSUME HistoryNext, NEW c \in Clients, Handler(c) PROVE QueueInv'
  BY <1>6, HandlerKeepsQueueInv
<1>7. ASSUME HistoryNext, NEW c \in Clients, NEW P \in Projects, DeleteProject(c, P)
      PROVE  QueueInv'
  <2>1. /\ up /\ UNCHANGED <<up, queue, due, req, pc, cur, target, stranded>>
        /\ \A b \in Batches : bstate'[b] = "QUEUED" => bstate[b] = "QUEUED"
    BY <1>7 DEF DeleteProject, laneVars
  <2>2. \A b \in Batches : Waits(b) => Waits(b)'
    BY <1>7, <2>1, QueueKept, StillWaits
  <2>3. \A b : Announced(b)' = Announced(b)
    BY <2>1 DEF Announced
  <2> QED BY <2>1, <2>2, <2>3, QueueKept DEF QueueInv, Early, Entering, Moving
<1> QED BY <1>1, <1>2, <1>3, <1>4, <1>5, <1>6, <1>7 DEF HistoryNext, Next

(* A QUEUED batch of a server at rest is in the queue, and will be run,    *)
(* unless an exception ended its run or the lane took its entry before the *)
(* request that had put it was committed (QueuedIsEnqueued).               *)
THEOREM QueuedAreEnqueued == HistorySpec => []QueuedIsEnqueued
<1>1. Init /\ HistoryInit => QueueInv
  BY DEF Init, QueueInv, Announced, NoReq
<1>2. HistorySpec => [](TypeOK /\ LanePhase /\ MoveInv)
  BY HistoryIsSpec, TypeCorrect, LanePhaseHolds, RequestsOK, PTL
<1>3. HistorySpec => []QueueInv
  BY <1>1, <1>2, HistoryKeepsQueueInv, PTL DEF HistorySpec
<1>4. QueueInv => QueuedIsEnqueued
  BY DEF QueueInv, QueuedIsEnqueued, Quiescent, Waits, Early, Entering, Moving
<1> QED BY <1>3, <1>4, PTL

=============================================================================
