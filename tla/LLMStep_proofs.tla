--------------------------- MODULE LLMStep_proofs ---------------------------
(***************************************************************************)
(* Proofs about LLMStep, for every number of retries the client may be     *)
(* configured with, the negative ones included.                            *)
(***************************************************************************)
EXTENDS LLMStep, TLAPS

(* What the step needs of the item table.                                  *)
LEMMA Table ==
    /\ \A s \in {"ERROR", "QUEUED"} :
          /\ is_valid_item_transition("ANALYZING", s)
          /\ ~is_valid_item_transition("GONE", s)
    /\ \A s \in {"ERROR", "QUEUED"} :
          /\ Pipeline!is_valid_item_transition("ANALYZING", s)
          /\ ~Pipeline!is_valid_item_transition("GONE", s)
<1>1. \A s \in {"ERROR", "QUEUED"} :
          /\ is_valid_item_transition("ANALYZING", s)
          /\ ~is_valid_item_transition("GONE", s)
  BY DEF is_valid_item_transition, ITEM_TRANSITIONS, ITEM_IN_FLIGHT
<1>2. \A s \in {"ERROR", "QUEUED"} :
          /\ Pipeline!is_valid_item_transition("ANALYZING", s)
          /\ ~Pipeline!is_valid_item_transition("GONE", s)
  BY DEF Pipeline!is_valid_item_transition, Pipeline!ITEM_TRANSITIONS,
         Pipeline!ITEM_IN_FLIGHT
<1> QED BY <1>1, <1>2

-----------------------------------------------------------------------------
(* The inductive invariant.  Control: which exception is on its way up     *)
(* where, and why.  Count: what the tries before this one have cost, and   *)
(* what this one has.                                                      *)
Control ==
    /\ outcome = "none" <=> pc # "done"
    /\ pc = "raised" <=> exc # "none"
    /\ move # NoMove => \/ move.to = "ERROR" /\ outcome = "PERMANENT"
                        \/ move.to = "QUEUED" /\ outcome = "TRANSIENT"
    /\ move.category = "validation" =>
          /\ val = MAX_VALIDATION_RETRIES - 1
          /\ \/ last = "unusable"
             \/ last = "malformed" /\ attempt = MaxClientRetries
    /\ pc # "done" => item \in {"ANALYZING", "GONE"} /\ category = "none"
    /\ pc \in {"post", "sleep", "write"} => MaxClientRetries >= 0
    /\ pc = "sleep" => attempt < MaxClientRetries
    /\ pc = "write" => last = "usable"
    /\ last = "permanent" => pc = "done" \/ exc = "LLMPermanentError"
    /\ exc = "LLMTransientError" => last = "transient" /\ attempt = MaxClientRetries
    /\ exc = "LLMValidationError" =>
          last = "unusable" \/ (last = "malformed" /\ attempt = MaxClientRetries)

PerTry == IF MaxClientRetries >= 0 THEN MaxClientRetries + 1 ELSE 0
Earlier == IF val = 0 THEN 0 ELSE IF val = 1 THEN PerTry ELSE PerTry + PerTry
ThisTry == IF pc = "call" THEN 0
           ELSE IF pc = "post" THEN attempt
           ELSE IF pc \in {"sleep", "write"} THEN attempt + 1 ELSE PerTry
Count == asked <= Earlier + ThisTry

IInv == TypeOK /\ Control /\ Count /\ ResultFitsAnswers

LEMMA InitInvariant == Init => IInv
BY ClientRetriesAssumption
   DEF Init, IInv, TypeOK, Control, Count, Earlier, ThisTry, PerTry,
       ResultFitsAnswers, Answer, NoMove, MAX_VALIDATION_RETRIES

LEMMA NextInvariant == IInv /\ [Next]_vars => IInv'
<1> SUFFICES ASSUME IInv, [Next]_vars PROVE IInv'
  OBVIOUS
<1> USE ClientRetriesAssumption, Table
    DEF IInv, TypeOK, Control, Count, Earlier, ThisTry, PerTry,
        ResultFitsAnswers, Answer, Move, NoMove, MAX_VALIDATION_RETRIES
<1>1. CASE Call
  <2>1. CASE item = "GONE"
    BY <1>1, <2>1 DEF Call, Settle
  <2>2. CASE item # "GONE" /\ MaxClientRetries >= 0
    BY <1>1, <2>2 DEF Call
  <2>3. CASE item # "GONE" /\ ~(MaxClientRetries >= 0)
    BY <1>1, <2>3 DEF Call, Raise
  <2> QED BY <2>1, <2>2, <2>3
<1>2. CASE ImageRefused
  BY <1>2 DEF ImageRefused, Raise
<1>3. ASSUME NEW a \in Answer, Post(a) PROVE IInv'
  BY <1>3 DEF Post, Repeats, Raised, LLMTransientError, Raise
<1>4. CASE PostBreaks
  BY <1>4 DEF PostBreaks, Raise
<1>5. CASE BackOff
  BY <1>5 DEF BackOff
<1>6. CASE Write
  BY <1>6 DEF Write, Settle, Raise
<1>7. CASE CatchValidation
  BY <1>7 DEF CatchValidation, SetError, Settle, Valid
<1>8. CASE CatchPermanent
  BY <1>8 DEF CatchPermanent, SetError, Settle, Valid
<1>9. CASE CatchTransient
  BY <1>9 DEF CatchTransient, LLMTransientError, Settle, Valid
<1>12. CASE WriteMove
  BY <1>12 DEF WriteMove
<1>13. CASE MoveFails
  BY <1>13 DEF MoveFails
<1>10. CASE Delete
  BY <1>10 DEF Delete
<1>11. CASE UNCHANGED vars
  BY <1>11 DEF vars
<1> QED BY <1>1, <1>2, <1>3, <1>4, <1>5, <1>6, <1>7, <1>8, <1>9, <1>10, <1>11, <1>12, <1>13
        DEF Next, Step

LEMMA InvariantHolds == Spec => []IInv
BY InitInvariant, NextInvariant, PTL DEF Spec

-----------------------------------------------------------------------------
(* The variables keep their types; the loop counters their limits.         *)
THEOREM TypeCorrect == Spec => []TypeOK
<1>1. IInv => TypeOK
  BY DEF IInv
<1> QED BY <1>1, InvariantHolds, PTL

(* A step costs at most MAX_VALIDATION_RETRIES * (max_retries + 1)         *)
(* requests, whatever the endpoint answers (_run_llm_step,                 *)
(* _post_with_retry).                                                      *)
THEOREM BudgetKept == Spec => []Budget
<1>1. IInv => Budget
  BY ClientRetriesAssumption
     DEF IInv, TypeOK, Control, Count, Earlier, ThisTry, PerTry, Budget,
         MAX_VALIDATION_RETRIES
<1> QED BY <1>1, InvariantHolds, PTL

(* What the step reports is what the endpoint answered (the order of the   *)
(* except clauses of _run_llm_step).                                       *)
THEOREM ResultFits == Spec => []ResultFitsAnswers
<1>1. IInv => ResultFitsAnswers
  BY DEF IInv
<1> QED BY <1>1, InvariantHolds, PTL

(* A request the endpoint has refused is not repeated by either loop       *)
(* (LLMPermanentError).                                                    *)
THEOREM RefusalStands == Spec => RefusalIsFinal
<1>1. IInv /\ [Next]_vars => [last = "permanent" => asked' = asked]_vars
  <2> SUFFICES ASSUME IInv, Next, last = "permanent" PROVE asked' = asked
    BY DEF vars
  <2>1. pc # "post"
    BY DEF IInv, TypeOK, Control
  <2> QED BY <2>1 DEF Next, Step, Call, ImageRefused, Post, PostBreaks, BackOff,
              Write, CatchValidation, CatchPermanent, CatchTransient,
              WriteMove, MoveFails, Delete
<1> QED BY <1>1, InvariantHolds, PTL DEF Spec, RefusalIsFinal

-----------------------------------------------------------------------------
(* The refinement of ItemPipeline's Analyst.                               *)

StepOfPipeline ==
    \/ Pipeline!Analyst \/ Pipeline!WriteMove \/ Pipeline!MoveLost
    \/ Pipeline!MoveRaises \/ Pipeline!Delete \/ UNCHANGED Pipeline!vars

LEMMA StepMaps == IInv /\ [Next]_vars => StepOfPipeline
<1> SUFFICES ASSUME IInv, [Next]_vars PROVE StepOfPipeline
  OBVIOUS
<1> USE ClientRetriesAssumption, Table
    DEF IInv, TypeOK, Control, Move, NoMove, MAX_VALIDATION_RETRIES, StepOfPipeline,
        Pipeline!vars, Pipeline!row, Pipeline!lane, Pipeline!aux
<1> USE DEF Pipeline!Analyst, Pipeline!LlmFails, Pipeline!Vanished, Pipeline!End,
        Pipeline!SetError, Pipeline!Requeue, Pipeline!Valid, Pipeline!Goto,
        Pipeline!At, Pipeline!NoMove,
        Pipeline!MAX_VALIDATION_RETRIES
<1>1. CASE Call
  BY <1>1 DEF Call, Settle, Raise
<1>2. CASE ImageRefused \/ PostBreaks \/ BackOff
  BY <1>2 DEF ImageRefused, PostBreaks, BackOff, Raise
<1>3. ASSUME NEW a \in Answer, Post(a) PROVE StepOfPipeline
  BY <1>3 DEF Post, Raise
<1>4. CASE Write
  BY <1>4 DEF Write, Settle, Raise
<1>5. CASE CatchValidation
  BY <1>5 DEF CatchValidation, SetError, Settle, Valid
<1>6. CASE CatchPermanent
  BY <1>6 DEF CatchPermanent, SetError, Settle, Valid
<1>7. CASE CatchTransient
  BY <1>7 DEF CatchTransient, Settle, Valid
<1>10. CASE WriteMove
  BY <1>10 DEF WriteMove, Pipeline!WriteMove
<1>11. CASE MoveFails
  BY <1>11 DEF MoveFails, Pipeline!MoveLost, Pipeline!MoveRaises, Pipeline!Stop
<1>8. CASE Delete
  BY <1>8 DEF Delete, Pipeline!Delete, Pipeline!Request
<1>9. CASE UNCHANGED vars
  BY <1>9 DEF vars
<1> QED BY <1>1, <1>2, <1>3, <1>4, <1>5, <1>6, <1>7, <1>8, <1>9, <1>10, <1>11
        DEF Next, Step

(* The client's retries and the step's tries, for any number of them, are  *)
(* the one action ItemPipeline has for the step (_run_llm_step).           *)
THEOREM AnalystImplemented == Spec => ImplementsAnalyst
<1>1. IInv /\ [Next]_vars =>
          [\/ Pipeline!Analyst \/ Pipeline!WriteMove
           \/ Pipeline!MoveLost \/ Pipeline!MoveRaises \/ Pipeline!Delete]_(Pipeline!vars)
  BY StepMaps DEF StepOfPipeline
<1> QED BY <1>1, InvariantHolds, PTL DEF Spec, ImplementsAnalyst

=============================================================================
