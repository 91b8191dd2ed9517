------------------------ MODULE ItemPipeline_proofs ------------------------
(***************************************************************************)
(* Proofs about ItemPipeline, for any limit of retries and any bounds.     *)
(* What needs a limit of at least 0 says so: below it the normalizer loop  *)
(* is empty, and the item stays in ANALYZING.                              *)
(***************************************************************************)
EXTENDS ItemPipeline, TLAPS

(* The item table, read by the state that is asked for.                    *)
LEMMA Table ==
    \A s \in ItemState \cup {"GONE"} :
      /\ is_valid_item_transition(s, "READING_CONTEXT") <=> s = "QUEUED"
      /\ is_valid_item_transition(s, "ANALYZING") <=> s = "READING_CONTEXT"
      /\ is_valid_item_transition(s, "NORMALIZING") <=>
            s \in {"ANALYZING", "RULE_CHECK", "LLM_PASS_CHECK", "REGENERATING"}
      /\ is_valid_item_transition(s, "RULE_CHECK") <=> s = "NORMALIZING"
      /\ is_valid_item_transition(s, "LLM_PASS_CHECK") <=> s = "GAP_FILLING"
      /\ is_valid_item_transition(s, "AWAITING_REVIEW") <=>
            s \in {"RULE_CHECK", "LLM_PASS_CHECK", "SKIPPED"}
      /\ is_valid_item_transition(s, "ERROR") <=>
            s \in ITEM_IN_FLIGHT \cup {"QUEUED", "AWAITING_REVIEW", "EXPORTING"}
      /\ is_valid_item_transition(s, "QUEUED") <=>
            s \in ITEM_IN_FLIGHT \cup {"EXPORTING", "ERROR"}
BY DEF ItemState, is_valid_item_transition, ITEM_TRANSITIONS, ITEM_IN_FLIGHT

-----------------------------------------------------------------------------
(* The inductive invariant.                                                *)

\* The states an item of this pipeline is ever in; where the run stands, an
\* item it still holds is in the state of that step.
Where ==
    /\ state \in {"QUEUED", "READING_CONTEXT", "ANALYZING", "NORMALIZING", "RULE_CHECK",
                  "AWAITING_REVIEW", "APPROVED", "DROPPED", "SKIPPED", "ERROR", "GONE"}
    /\ state = "ERROR" => pc \in {"idle", "over"}
    /\ state = "AWAITING_REVIEW" => pc \in {"idle", "soft", "soft_ok", "clear", "over"}
    /\ pc \in {"analyst", "to_normalizer"} /\ move = NoMove => state # "READING_CONTEXT"
    /\ pc \in {"normalizer", "to_rule_check"} /\ move = NoMove =>
          state \notin {"READING_CONTEXT", "ANALYZING", "RULE_CHECK"}
    /\ pc \in {"rule_check", "save", "to_llm_check", "llm_check", "verdict",
               "exhausted", "to_soft", "ok"} /\ move = NoMove =>
          state \notin {"READING_CONTEXT", "ANALYZING", "NORMALIZING"}
    /\ pc \in {"soft", "soft_ok", "clear"} /\ move = NoMove =>
          state \notin {"READING_CONTEXT", "ANALYZING", "NORMALIZING", "RULE_CHECK"}
    /\ pc \notin {"idle", "selected", "over"} => recorded = 0

\* Which step validates which transition.
Pending ==
    /\ move = NoMove \/ pc \in {"context", "analyst", "normalizer", "rule_check",
                                "soft", "clear", "over"}
    /\ pc # "over" => move.category = "keep"
    /\ pc = "context" => move.to \in {"NONE", "READING_CONTEXT"}
    /\ pc = "analyst" => move.to \in {"NONE", "ANALYZING"}
    /\ pc = "normalizer" => move.to \in {"NONE", "NORMALIZING"}
    /\ pc = "rule_check" => move.to \in {"NONE", "RULE_CHECK"}
    /\ pc \in {"soft", "clear"} => move.to \in {"NONE", "AWAITING_REVIEW"}
    /\ pc = "over" => \/ move = NoMove
                      \/ move.to = "QUEUED" /\ move.category = "none"
                      \/ /\ move.to = "ERROR"
                         /\ move.category \in {"permanent", "policy", "validation"}

\* The warnings of the row are those of its caption.
Consistent ==
    /\ warnings \ {"LLM"} = caption.breaks
    /\ caption.breaks \in {{}, {"SLOT_MISSING"}, {"MULTI_CHARACTER"}}

\* What the checks have found, as far as they have come.
Checked ==
    caption.by = "model" =>
      /\ pc \in {"save", "exhausted"} => feedback = caption.breaks
      /\ ~overtaken =>
           /\ pc \in {"to_llm_check", "llm_check", "verdict"} =>
                 Consistent /\ caption.breaks = {}
           /\ pc = "ok" => Consistent
           /\ pc \in {"to_soft", "soft", "soft_ok"} /\ state # "GONE" => Consistent
           /\ state = "AWAITING_REVIEW" \/ move.to = "AWAITING_REVIEW" => Consistent

\* A run that was not cut short has cleared the error of an earlier one.
Cleared == pc = "over" /\ state = "AWAITING_REVIEW" => category = "none"

Shape == Where /\ Pending /\ Checked /\ Cleared /\ ErrorIsCurrent
IInv == TypeOK /\ Shape

LEMMA InitInvariant == Init => IInv
<1> SUFFICES ASSUME Init PROVE IInv
  OBVIOUS
<1>1. TypeOK
  <2>1. NoCaption \in Caption
    BY DEF NoCaption, Caption, RuleCodes
  <2>2. 0 \in 0..MaxRequests /\ 0 \in 0..MaxRuns
    BY BoundsAssumption
  <2>3. state \in ItemState /\ val \in 0..(MAX_VALIDATION_RETRIES - 1)
    BY DEF Init, ItemState, MAX_VALIDATION_RETRIES
  <2>4. cut \in BOOLEAN /\ overtaken \in BOOLEAN
    BY Zenon DEF Init
  <2> QED BY <2>1, <2>2, <2>3, <2>4 DEF Init, TypeOK
<1>2. Shape
  BY DEF Init, NoCaption, NoMove, Shape, Where, Pending, Checked, Cleared, ErrorIsCurrent
<1> QED BY <1>1, <1>2 DEF IInv

(* A transition that is validated is one the table has for the state.      *)
LEMMA ValidMoves ==
    ASSUME TypeOK, NEW s \in ItemState,
           NEW c \in {"keep", "none", "permanent", "policy", "validation"}, Valid(s, c)
    PROVE  /\ move' \in Move \cup {NoMove}
           /\ IF is_valid_item_transition(state, s) THEN move' = [to |-> s, category |-> c]
                                                    ELSE move' = NoMove
           /\ ~is_valid_item_transition("GONE", s)
<1>1. [to |-> s, category |-> c] \in Move
  BY DEF Move
<1>2. ~is_valid_item_transition("GONE", s)
  BY DEF is_valid_item_transition, ITEM_TRANSITIONS, ITEM_IN_FLIGHT, ItemState
<1> QED BY <1>1, <1>2 DEF Valid

LEMMA NoMoveIsNone ==
    \A m \in Move \cup {NoMove} : m.to = "NONE" <=> m = NoMove
BY DEF Move, NoMove, ItemState

(* A run that gives up leaves no trace of where it stood.                  *)
LEMMA EndKeeps ==
    ASSUME IInv, NEW n \in 0..2, End(n), pc \notin {"idle", "selected", "over"}, move = NoMove,
           UNCHANGED <<row, decision, aux>>,
           \/ move' = NoMove
           \/ move' = [to |-> "QUEUED", category |-> "none"]
           \/ \E c \in {"permanent", "policy", "validation"} :
                 move' = [to |-> "ERROR", category |-> c],
           state # "AWAITING_REVIEW"
    PROVE  IInv'
<1>1. TypeOK'
  <2>1. move' \in Move \cup {NoMove}
    BY DEF Move, ItemState
  <2>2. recorded' \in 0..2
    BY DEF IInv, Shape, Where, TypeOK, End
  <2> QED BY <2>1, <2>2 DEF IInv, TypeOK, End, row, aux, MAX_VALIDATION_RETRIES
<1>2. Where' /\ Pending' /\ Cleared' /\ ErrorIsCurrent'
  BY DEF IInv, Shape, Where, Pending, Cleared, ErrorIsCurrent, End, row, aux, NoMove
<1>3. Checked'
  BY DEF IInv, Shape, Checked, Consistent, End, row, aux, NoMove
<1> QED BY <1>1, <1>2, <1>3 DEF IInv, Shape

\* The states a step of the pipeline that works on the item meets.
Steps == {"context", "analyst", "normalizer", "rule_check", "save", "llm_check", "exhausted"}

(* The ways a step fails.                                                  *)
LEMMA FailuresKeep ==
    ASSUME IInv, NEW n \in 0..2, pc \in Steps, move = NoMove,
           \/ LlmFails(n) \/ (Vanished(n) /\ UNCHANGED row)
           \/ \E c \in {"permanent", "policy", "validation"} :
                 SetError(c) /\ End(n) /\ UNCHANGED row,
           UNCHANGED <<decision, aux>>
    PROVE  IInv'
<1> USE DEF Steps
<1>1. /\ state # "AWAITING_REVIEW" /\ pc \notin {"idle", "selected", "over"}
      /\ TypeOK /\ {"ERROR", "QUEUED"} \subseteq ItemState
  BY DEF IInv, Shape, Where, ItemState
<1>2. ASSUME NEW c \in {"permanent", "policy", "validation"}, SetError(c), End(n),
             UNCHANGED row
      PROVE  IInv'
  BY <1>1, <1>2, ValidMoves, EndKeeps DEF SetError
<1>3. CASE Requeue /\ End(0) /\ UNCHANGED row
  BY <1>1, <1>3, ValidMoves, EndKeeps DEF Requeue
<1>4. CASE /\ val + 1 < MAX_VALIDATION_RETRIES
           /\ val' = val + 1 /\ UNCHANGED <<row, pc, attempt, feedback, recorded, move>>
  <2>1. TypeOK'
    BY <1>4 DEF row, aux, IInv, TypeOK, MAX_VALIDATION_RETRIES
  <2>2. Shape'
    BY <1>4 DEF row, aux, IInv, Shape, Where, Pending, Checked, Consistent, Cleared,
                ErrorIsCurrent
  <2> QED BY <2>1, <2>2 DEF IInv
<1>5. CASE Vanished(n) /\ UNCHANGED row
  BY <1>1, <1>5, EndKeeps DEF Vanished
<1> QED BY <1>2, <1>3, <1>4, <1>5 DEF LlmFails

-----------------------------------------------------------------------------
(* One lemma per part of the next-state relation.                          *)

LEMMA TransitionsKeep ==
    ASSUME IInv, \/ WriteMove \/ MoveLost \/ MoveRaises \/ Over \/ Interrupt
                 \/ \E from \in DOMAIN Entry : Enter(from)
    PROVE  IInv'
<1> USE NoMoveIsNone DEF row, aux
<1>t. /\ state \in ItemState \cup {"GONE"} /\ TypeOK
      /\ move \in Move \cup {NoMove}
  BY DEF IInv, TypeOK
<1>1. CASE WriteMove
  <2>1. /\ move \in Move /\ state' = move.to /\ move' = NoMove
        /\ category' = IF move.category = "keep" THEN category ELSE move.category
    BY <1>t, <1>1 DEF WriteMove
  <2>2. TypeOK'
    BY <1>1, <2>1 DEF WriteMove, IInv, TypeOK, Shape, Pending, Move
  <2>3. Where' /\ Pending' /\ Cleared' /\ ErrorIsCurrent'
    BY <1>1, <2>1 DEF WriteMove, IInv, Shape, Where, Pending, Cleared, ErrorIsCurrent,
                      NoMove
  <2>4. Checked'
    BY <1>1, <2>1 DEF WriteMove, IInv, Shape, Checked, Consistent, Where, Pending, NoMove
  <2> QED BY <2>2, <2>3, <2>4 DEF IInv, Shape
<1>2. CASE MoveLost
  <2>1. TypeOK'
    BY <1>2 DEF MoveLost, IInv, TypeOK
  <2>2. Shape'
    BY <1>2 DEF MoveLost, IInv, Shape, Where, Pending, Checked, Consistent, Cleared,
                ErrorIsCurrent, NoMove
  <2> QED BY <2>1, <2>2 DEF IInv
\* The run ends where it stands.
<1>3. ASSUME Stop, UNCHANGED <<row, decision, overtaken, issued, runs>>,
             cut' \in BOOLEAN, cut' \/ (pc = "over" /\ cut' = cut)
      PROVE  IInv'
  <2>1. TypeOK'
    BY <1>3 DEF Stop, IInv, TypeOK, MAX_VALIDATION_RETRIES
  <2>2. Where' /\ Pending' /\ Cleared' /\ ErrorIsCurrent'
    BY <1>3 DEF Stop, IInv, Shape, Where, Pending, Cleared, ErrorIsCurrent, NoMove
  <2>3. Checked'
    BY <1>3 DEF Stop, IInv, Shape, Checked, Consistent, NoMove
  <2> QED BY <2>1, <2>2, <2>3 DEF IInv, Shape
<1>4. CASE MoveRaises \/ Interrupt
  <2>1. cut' = TRUE /\ cut' \in BOOLEAN /\ cut'
    BY <1>4, Zenon DEF MoveRaises, Interrupt
  <2> QED BY <1>3, <1>4, <2>1 DEF MoveRaises, Interrupt
<1>5. CASE Over
  <2>1. cut \in BOOLEAN
    BY DEF IInv, TypeOK
  <2> QED BY <1>3, <1>5, <2>1 DEF Over, At
<1>6. ASSUME NEW from \in DOMAIN Entry, Enter(from) PROVE IInv'
  <2>0. /\ move = NoMove /\ pc = from /\ pc' = Entry[from].step
        /\ Valid(Entry[from].state, "keep")
        /\ UNCHANGED <<row, attempt, val, feedback, recorded, decision, aux>>
    BY <1>6 DEF Enter, At
  <2>1. /\ from \in {"to_analyst", "to_normalizer", "to_rule_check", "to_llm_check", "to_soft"}
        /\ Entry[from].state \in ItemState
    BY DEF Entry, ItemState
  <2>2. /\ move' \in Move \cup {NoMove}
        /\ IF is_valid_item_transition(state, Entry[from].state)
             THEN move' = [to |-> Entry[from].state, category |-> "keep"] /\ state # "GONE"
             ELSE move' = NoMove
    BY <1>t, <2>0, <2>1, ValidMoves
  <2>3. TypeOK'
    <3>1. pc' \in {"analyst", "normalizer", "rule_check", "llm_check", "soft"}
      BY <2>0, <2>1 DEF Entry
    <3> QED BY <2>0, <2>2, <3>1 DEF IInv, TypeOK
  <2>4. CASE from = "to_analyst"
    <3>1. Shape'
      BY <1>t, <2>0, <2>2, <2>4, Table
         DEF Entry, IInv, Shape, Where, Pending, Checked, Consistent, Cleared,
             ErrorIsCurrent, NoMove
    <3> QED BY <2>3, <3>1 DEF IInv
  <2>5. CASE from = "to_normalizer"
    <3>1. Shape'
      BY <1>t, <2>0, <2>2, <2>5, Table
         DEF Entry, IInv, Shape, Where, Pending, Checked, Consistent, Cleared,
             ErrorIsCurrent, NoMove
    <3> QED BY <2>3, <3>1 DEF IInv
  <2>6. CASE from = "to_rule_check"
    <3>1. Shape'
      BY <1>t, <2>0, <2>2, <2>6, Table
         DEF Entry, IInv, Shape, Where, Pending, Checked, Consistent, Cleared,
             ErrorIsCurrent, NoMove
    <3> QED BY <2>3, <3>1 DEF IInv
  <2>7. CASE from = "to_llm_check"
    <3>1. Shape'
      BY <1>t, <2>0, <2>2, <2>7, Table
         DEF Entry, IInv, Shape, Where, Pending, Checked, Consistent, Cleared,
             ErrorIsCurrent, NoMove
    <3> QED BY <2>3, <3>1 DEF IInv
  <2>8. CASE from = "to_soft"
    <3>1. Shape'
      BY <1>t, <2>0, <2>2, <2>8, Table
         DEF Entry, IInv, Shape, Where, Pending, Checked, Consistent, Cleared,
             ErrorIsCurrent, NoMove
    <3> QED BY <2>3, <3>1 DEF IInv
  <2> QED BY <2>1, <2>4, <2>5, <2>6, <2>7, <2>8
<1> QED BY <1>1, <1>2, <1>4, <1>5, <1>6

LEMMA EarlyStepsKeep ==
    ASSUME MaxRetries \in Nat, IInv,
           Select \/ NotReached \/ Begin \/ ReadContext \/ Analyst \/ Normalize
    PROVE  IInv'
<1> USE NoMoveIsNone DEF row, aux, Goto, At
<1>t. state \in ItemState \cup {"GONE"} /\ TypeOK
  BY DEF IInv, TypeOK
<1>1. CASE Select
  <2>1. TypeOK'
    <3>1. runs' \in 0..MaxRuns
      BY <1>1, BoundsAssumption DEF Select, IInv, TypeOK
    <3> QED BY <1>1, <3>1 DEF Select, IInv, TypeOK
  <2>2. Shape'
    BY <1>1 DEF Select, IInv, Shape, Where, Pending, Checked, Consistent, Cleared,
                ErrorIsCurrent, ITEM_IN_FLIGHT
  <2> QED BY <2>1, <2>2 DEF IInv
<1>2. CASE NotReached
  <2>1. TypeOK'
    BY <1>2 DEF NotReached, Stop, IInv, TypeOK, MAX_VALIDATION_RETRIES
  <2>2. Shape'
    BY <1>2 DEF NotReached, Stop, IInv, Shape, Where, Pending, Checked, Consistent,
                Cleared, ErrorIsCurrent
  <2> QED BY <2>1, <2>2 DEF IInv
<1>3. CASE Begin
  <2>0. /\ move' \in Move \cup {NoMove}
        /\ IF state = "QUEUED" THEN move' = [to |-> "READING_CONTEXT", category |-> "keep"]
                               ELSE move' = NoMove
    BY <1>t, <1>3, Table, ValidMoves DEF Begin, ItemState
  <2>1. TypeOK'
    <3>1. cut' \in BOOLEAN /\ overtaken' \in BOOLEAN
      BY <1>3, Zenon DEF Begin
    <3> QED BY <1>3, <2>0, <3>1 DEF Begin, IInv, TypeOK
  <2>2. Shape'
    BY <1>3, <2>0 DEF Begin, IInv, Shape, Where, Pending, Checked, Consistent, Cleared,
                      ErrorIsCurrent, NoMove
  <2> QED BY <2>1, <2>2 DEF IInv
<1>4. CASE ReadContext
  <2>1. CASE state # "GONE" /\ Goto("to_analyst")
    <3>1. TypeOK'
      BY <1>4, <2>1 DEF ReadContext, IInv, TypeOK, MAX_VALIDATION_RETRIES, Entry
    <3>2. Shape'
      BY <1>4, <2>1 DEF ReadContext, IInv, Shape, Where, Pending, Checked, Consistent,
                        Cleared, ErrorIsCurrent
    <3> QED BY <3>1, <3>2 DEF IInv
  <2>2. CASE NonLlmFails
    BY <1>4, <2>2, FailuresKeep DEF ReadContext, NonLlmFails, Steps
  <2> QED BY <1>4, <2>1, <2>2 DEF ReadContext
<1>5. CASE Analyst
  <2>1. CASE LlmFails(1)
    BY <1>5, <2>1, FailuresKeep DEF Analyst, Steps
  <2>2. CASE state # "GONE" /\ UNCHANGED row /\ Goto("to_normalizer")
    <3>1. TypeOK'
      BY <1>5, <2>2 DEF Analyst, IInv, TypeOK, MAX_VALIDATION_RETRIES, Entry
    <3>2. Shape'
      BY <1>5, <2>2 DEF Analyst, IInv, Shape, Where, Pending, Checked, Consistent, Cleared,
                        ErrorIsCurrent
    <3> QED BY <3>1, <3>2 DEF IInv
  <2> QED BY <1>5, <2>1, <2>2 DEF Analyst
<1>6. CASE Normalize
  <2>1. CASE LlmFails(1)
    BY <1>6, <2>1, FailuresKeep DEF Normalize, Steps
  <2>2. CASE /\ state # "GONE" /\ WriteCaption /\ Goto("to_rule_check")
             /\ UNCHANGED <<state, warnings, category>>
    <3>1. caption' \in Caption
      BY <2>2 DEF WriteCaption, Caption, IInv, TypeOK
    <3>2. TypeOK'
      BY <1>6, <2>2, <3>1 DEF Normalize, IInv, TypeOK, MAX_VALIDATION_RETRIES, Entry
    <3>3. Shape'
      BY <1>6, <2>2 DEF Normalize, IInv, Shape, Where, Pending, Checked, Consistent, Cleared,
                        ErrorIsCurrent, NoMove
    <3> QED BY <3>2, <3>3 DEF IInv
  <2> QED BY <1>6, <2>1, <2>2 DEF Normalize
<1> QED BY <1>1, <1>2, <1>3, <1>4, <1>5, <1>6

\* Another attempt of the normalizer, or the step to go on with.
LEMMA RetryOrTyped ==
    ASSUME MaxRetries \in Nat, TypeOK, NEW step \in {"exhausted", "ok"}, RetryOr(step)
    PROVE  attempt' \in {0} \cup 0..MaxRetries /\ pc' \in {"to_normalizer", step}
BY DEF RetryOr, TypeOK

LEMMA CheckStepsKeep ==
    ASSUME MaxRetries \in Nat, IInv,
           RuleCheck \/ SaveWarnings \/ LlmCheck \/ Verdict
    PROVE  IInv'
<1> USE DEF row, aux, At
<1>t. TypeOK /\ {"to_normalizer", "to_llm_check"} \subseteq DOMAIN Entry
  BY DEF IInv, Entry
<1>1. CASE RuleCheck
  <2>1. CASE Vanished(1)
    BY <1>1, <2>1, FailuresKeep DEF RuleCheck, Steps
  <2>2. CASE /\ state # "GONE" /\ feedback' = caption.breaks
             /\ pc' = "save" /\ UNCHANGED <<attempt, val, recorded, move>>
    <3>1. TypeOK'
      BY <1>1, <2>2 DEF RuleCheck, IInv, TypeOK, Caption
    <3>2. Shape'
      BY <1>1, <2>2 DEF RuleCheck, IInv, Shape, Where, Pending, Checked, Consistent,
                        Cleared, ErrorIsCurrent
    <3> QED BY <3>1, <3>2 DEF IInv
  <2> QED BY <1>1, <2>1, <2>2 DEF RuleCheck
<1>2. CASE SaveWarnings
  <2>1. CASE Vanished(1) /\ UNCHANGED warnings
    BY <1>2, <2>1, FailuresKeep DEF SaveWarnings, Steps
  <2>2. CASE ~(Vanished(1) /\ UNCHANGED warnings)
    <3>0. /\ pc = "save" /\ state # "GONE" /\ warnings' = feedback
          /\ UNCHANGED <<state, caption, category, val, feedback, recorded, move,
                         decision, aux>>
          /\ move = NoMove
      BY <1>2, <2>2 DEF SaveWarnings
    <3>1. CASE feedback = {}
      <4>1. pc' = "to_llm_check" /\ attempt' = attempt
        BY <1>2, <2>2, <3>1 DEF SaveWarnings
      <4>2. TypeOK'
        BY <1>t, <3>0, <4>1 DEF IInv, TypeOK
      <4>3. Shape'
        BY <3>0, <3>1, <4>1 DEF IInv, Shape, Where, Pending, Checked, Consistent, Cleared,
                                ErrorIsCurrent, NoMove
      <4> QED BY <4>2, <4>3 DEF IInv
    <3>2. CASE feedback = {"MULTI_CHARACTER"}
      <4>1. pc' = "ok" /\ attempt' = attempt
        BY <1>2, <2>2, <3>2 DEF SaveWarnings
      <4>2. TypeOK'
        BY <3>0, <4>1 DEF IInv, TypeOK
      <4>3. Shape'
        BY <3>0, <3>2, <4>1 DEF IInv, Shape, Where, Pending, Checked, Consistent, Cleared,
                                ErrorIsCurrent, NoMove
      <4> QED BY <4>2, <4>3 DEF IInv
    <3>3. CASE feedback \notin {{}, {"MULTI_CHARACTER"}}
      <4>0. RetryOr("exhausted")
        BY <1>2, <2>2, <3>3 DEF SaveWarnings
      <4>1. attempt' \in {0} \cup 0..MaxRetries /\ pc' \in {"to_normalizer", "exhausted"}
        BY <1>t, <4>0, RetryOrTyped
      <4>2. TypeOK'
        BY <1>t, <3>0, <4>1 DEF IInv, TypeOK
      <4>3. Shape'
        BY <3>0, <4>1 DEF IInv, Shape, Where, Pending, Checked, Consistent, Cleared,
                          ErrorIsCurrent, NoMove
      <4> QED BY <4>2, <4>3 DEF IInv
    <3> QED BY <3>1, <3>2, <3>3
  <2> QED BY <2>1, <2>2
<1>3. CASE LlmCheck
  <2>1. CASE LlmFails(2)
    BY <1>3, <2>1, FailuresKeep DEF LlmCheck, Steps
  <2>2. CASE /\ state # "GONE" /\ warnings' \in {warnings, {"LLM"}}
             /\ Goto("verdict") /\ UNCHANGED <<state, caption, category>>
    <3>1. TypeOK'
      BY <1>3, <2>2 DEF LlmCheck, Goto, IInv, TypeOK, MAX_VALIDATION_RETRIES
    <3>2. Shape'
      BY <1>3, <2>2 DEF LlmCheck, Goto, IInv, Shape, Where, Pending, Checked, Consistent,
                        Cleared, ErrorIsCurrent, NoMove
    <3> QED BY <3>1, <3>2 DEF IInv
  <2> QED BY <1>3, <2>1, <2>2 DEF LlmCheck
<1>4. CASE Verdict
  <2>0. /\ pc = "verdict" /\ move = NoMove
        /\ UNCHANGED <<row, val, recorded, move, decision, aux>>
    BY <1>4 DEF Verdict
  <2>1. /\ pc' \in {"to_normalizer", "ok"} /\ attempt' \in {0} \cup 0..MaxRetries
        /\ feedback' \in {feedback, {"LLM"}}
    <3>1. CASE state # "GONE" /\ "LLM" \in warnings
      BY <1>t, <1>4, <3>1, RetryOrTyped DEF Verdict
    <3>2. CASE ~(state # "GONE" /\ "LLM" \in warnings)
      BY <1>t, <1>4, <3>2 DEF Verdict, TypeOK
    <3> QED BY <3>1, <3>2
  <2>2. TypeOK'
    BY <1>t, <2>0, <2>1 DEF IInv, TypeOK
  <2>3. Shape'
    BY <2>0, <2>1 DEF IInv, Shape, Where, Pending, Checked, Consistent, Cleared,
                      ErrorIsCurrent, NoMove
  <2> QED BY <2>2, <2>3 DEF IInv
<1> QED BY <1>1, <1>2, <1>3, <1>4

LEMMA LastStepsKeep ==
    ASSUME IInv, Exhausted \/ SoftClear \/ Finish \/ Clear
    PROVE  IInv'
<1> USE NoMoveIsNone DEF row, aux, At
<1>t. state \in ItemState \cup {"GONE"} /\ TypeOK
  BY DEF IInv, TypeOK
<1>1. CASE Exhausted
  <2>1. CASE feedback \subseteq {"SLOT_MISSING"}
    <3>0. /\ pc = "exhausted" /\ pc' = "to_soft" /\ val' = 0
          /\ warnings' = IF state = "GONE" THEN warnings ELSE feedback
          /\ move = NoMove
          /\ UNCHANGED <<state, caption, category, attempt, feedback, recorded, move,
                         decision, aux>>
      BY <1>1, <2>1 DEF Exhausted, Goto
    <3>2. TypeOK'
      BY <3>0 DEF IInv, TypeOK, Entry, MAX_VALIDATION_RETRIES
    <3>3. Where' /\ Pending' /\ Cleared' /\ ErrorIsCurrent'
      BY <3>0 DEF IInv, Shape, Where, Pending, Cleared, ErrorIsCurrent, NoMove
    <3>4. caption.by = "model" => /\ feedback = caption.breaks
                                  /\ feedback \in {{}, {"SLOT_MISSING"}}
      BY <2>1, <3>0 DEF IInv, Shape, Checked
    <3>5. Checked'
      BY <3>0, <3>4 DEF IInv, Shape, Where, Checked, Consistent, NoMove
    <3> QED BY <3>2, <3>3, <3>5 DEF IInv, Shape
  <2>2. CASE ~(feedback \subseteq {"SLOT_MISSING"})
    BY <1>1, <2>2, FailuresKeep DEF Exhausted, Steps
  <2> QED BY <2>1, <2>2
<1>2. CASE SoftClear
  <2>1. TypeOK'
    BY <1>2 DEF SoftClear, Goto, IInv, TypeOK, MAX_VALIDATION_RETRIES
  <2>2. Shape'
    BY <1>2 DEF SoftClear, Goto, IInv, Shape, Where, Pending, Checked, Consistent, Cleared,
                ErrorIsCurrent, NoMove
  <2> QED BY <2>1, <2>2 DEF IInv
<1>3. CASE Finish
  <2>0. /\ move' \in Move \cup {NoMove}
        /\ IF state \in {"RULE_CHECK", "LLM_PASS_CHECK", "SKIPPED"}
             THEN move' = [to |-> "AWAITING_REVIEW", category |-> "keep"]
             ELSE move' = NoMove
    BY <1>t, <1>3, Table, ValidMoves DEF Finish, ItemState
  <2>1. TypeOK'
    BY <1>3, <2>0 DEF Finish, IInv, TypeOK
  <2>2. Shape'
    BY <1>3, <2>0 DEF Finish, IInv, Shape, Where, Pending, Checked, Consistent, Cleared,
                      ErrorIsCurrent, NoMove
  <2> QED BY <2>1, <2>2 DEF IInv
<1>4. CASE Clear
  <2>1. TypeOK'
    BY <1>4 DEF Clear, End, IInv, Shape, Where, TypeOK, MAX_VALIDATION_RETRIES
  <2>2. Shape'
    BY <1>4 DEF Clear, End, IInv, Shape, Where, Pending, Checked, Consistent, Cleared,
                ErrorIsCurrent, NoMove
  <2> QED BY <2>1, <2>2 DEF IInv
<1> QED BY <1>1, <1>2, <1>3, <1>4

LEMMA UsersKeep ==
    ASSUME IInv, Users
    PROVE  IInv'
<1> USE DEF row, lane, aux
<1>0. ASSUME Request PROVE issued' \in 0..MaxRequests
  BY <1>0, BoundsAssumption DEF Request, IInv, TypeOK
<1>1. ASSUME NEW to \in {"APPROVED", "DROPPED", "SKIPPED", "QUEUED"}, Decide(to)
      PROVE  IInv'
  <2>1. decision' \in Decision
    BY <1>1 DEF Decide, Decision
  <2>2. TypeOK'
    BY <1>0, <1>1, <2>1 DEF Decide, IInv, TypeOK
  <2>3. Shape'
    BY <1>1 DEF Decide, IInv, Shape, Where, Pending, Checked, Consistent,
            Cleared, ErrorIsCurrent
  <2> QED BY <2>2, <2>3 DEF IInv
<1>2. CASE CommitDecision
  <2> DEFINE late == decision.clear = {"warnings"} /\ caption.by # "none"
  <2>0. /\ decision \in Decision /\ state # "GONE" /\ decision' = NoDecision
        /\ state' = IF decision.to = "KEEP" THEN state ELSE decision.to
        /\ caption' = IF "caption" \in decision.clear THEN NoCaption ELSE caption
        /\ warnings' = IF "warnings" \in decision.clear THEN {} ELSE warnings
        /\ UNCHANGED <<category, lane, cut, issued, runs>>
    BY <1>2 DEF CommitDecision, IInv, TypeOK
  <2>1. /\ decision.to \in {"KEEP", "APPROVED", "DROPPED", "SKIPPED", "QUEUED"}
        /\ decision.clear \subseteq {"caption", "warnings"}
    BY <2>0 DEF Decision
  <2>2. overtaken' \in BOOLEAN /\ (~overtaken' => ~overtaken /\ ~late)
    BY <1>2, Zenon DEF CommitDecision, IInv, TypeOK
  <2>3. NoCaption \in Caption /\ NoCaption.by = "none"
    BY DEF NoCaption, Caption, RuleCodes
  <2>4. TypeOK'
    BY <2>0, <2>1, <2>2, <2>3 DEF IInv, TypeOK, ItemState
  <2>5. Where' /\ Pending' /\ Cleared' /\ ErrorIsCurrent'
    BY <2>0, <2>1 DEF IInv, Shape, Where, Pending, Cleared, ErrorIsCurrent
  <2>6. Checked'
    <3>1. CASE "caption" \in decision.clear
      BY <2>0, <2>3, <3>1 DEF Checked
    <3>2. CASE decision.clear = {"warnings"}
      BY <2>0, <2>2, <3>2 DEF IInv, Shape, Checked
    <3>3. CASE decision.clear = {}
      BY <2>0, <2>1, <2>2, <3>3 DEF IInv, Shape, Checked, Consistent
    <3> QED BY <2>1, <3>1, <3>2, <3>3
  <2> QED BY <2>4, <2>5, <2>6 DEF IInv, Shape
<1>3. CASE RollBack
  <2>1. TypeOK'
    BY <1>3 DEF RollBack, IInv, TypeOK
  <2>2. Shape'
    BY <1>3 DEF RollBack, IInv, Shape, Where, Pending, Checked, Consistent,
            Cleared, ErrorIsCurrent
  <2> QED BY <2>1, <2>2 DEF IInv
<1>4. CASE SaveCaption
  <2>1. caption' \in Caption /\ caption'.by = "user"
    BY <1>4 DEF SaveCaption, Caption
  <2>2. TypeOK'
    BY <1>0, <1>4, <2>1 DEF SaveCaption, IInv, TypeOK
  <2>3. Shape'
    BY <1>4, <2>1 DEF SaveCaption, IInv, Shape, Where, Pending, Checked, Cleared,
            ErrorIsCurrent
  <2> QED BY <2>2, <2>3 DEF IInv
<1>5. CASE Delete
  <2>1. TypeOK'
    BY <1>0, <1>5 DEF Delete, IInv, TypeOK
  <2>2. Shape'
    BY <1>5 DEF Delete, IInv, Shape, Where, Pending, Checked, Consistent,
            Cleared, ErrorIsCurrent
  <2> QED BY <2>1, <2>2 DEF IInv
<1> QED BY <1>1, <1>2, <1>3, <1>4, <1>5 DEF Users

LEMMA NextInvariant == MaxRetries \in Nat /\ IInv /\ [Next]_vars => IInv'
<1> SUFFICES ASSUME MaxRetries \in Nat, IInv, [Next]_vars PROVE IInv'
  OBVIOUS
<1>1. CASE UNCHANGED vars
  <2>1. TypeOK'
    BY <1>1 DEF vars, row, lane, aux, IInv, TypeOK
  <2>2. Shape'
    BY <1>1 DEF vars, row, lane, aux, IInv, Shape, Where, Pending, Checked, Consistent,
            Cleared, ErrorIsCurrent
  <2> QED BY <2>1, <2>2 DEF IInv
<1> QED
  BY <1>1, TransitionsKeep, EarlyStepsKeep, CheckStepsKeep, LastStepsKeep, UsersKeep
     DEF Next, Pipeline

LEMMA InvariantHolds ==
    ASSUME MaxRetries \in Nat
    PROVE  Spec => []IInv
<1>1. IInv /\ [Next]_vars => IInv'
  BY NextInvariant
<1> QED BY <1>1, InitInvariant, PTL DEF Spec

-----------------------------------------------------------------------------
(* The row and the run keep their types, the loop counters their limits,   *)
(* and a run counts at most two failures (TypeOK).                         *)
THEOREM TypeCorrect ==
    ASSUME MaxRetries \in Nat
    PROVE  Spec => []TypeOK
<1>1. IInv => TypeOK
  BY DEF IInv
<1> QED BY <1>1, InvariantHolds, PTL

(* A generated caption under review has the warnings of its own check and  *)
(* breaks no rule a reviewer could not be asked to accept, for any number  *)
(* of attempts, runs and requests (ReviewedIsChecked).                     *)
THEOREM ReviewedWasChecked ==
    ASSUME MaxRetries \in Nat
    PROVE  Spec => []ReviewedIsChecked
<1>1. IInv => ReviewedIsChecked
  BY DEF IInv, Shape, Checked, Consistent, ReviewedIsChecked
<1> QED BY <1>1, InvariantHolds, PTL

(* The error shown with an item is the one of its last run                 *)
(* (ErrorIsCurrent).                                                       *)
THEOREM ErrorsAreCurrent ==
    ASSUME MaxRetries \in Nat
    PROVE  Spec => []ErrorIsCurrent
<1>1. IInv => ErrorIsCurrent
  BY DEF IInv, Shape
<1> QED BY <1>1, InvariantHolds, PTL

-----------------------------------------------------------------------------
(* The refinement of ItemRun.                                              *)
Mapped == [Contract!Next]_<<Seen(state), PhaseSeen, Seen(move.to)>>

LEMMA SeenStates ==
    ASSUME IInv
    PROVE  /\ Seen(state) = "IN_FLIGHT" <=>
                 state \in {"READING_CONTEXT", "ANALYZING", "NORMALIZING", "RULE_CHECK"}
           /\ Seen(state) = "DELETED" <=> state = "GONE"
           /\ Seen(state) # "UNBORN"
           /\ \A s \in {"QUEUED", "AWAITING_REVIEW", "SKIPPED"} :
                 Seen(state) = s <=> state = s
           /\ Seen(move.to) = "NONE" <=> move = NoMove
BY NoMoveIsNone
   DEF IInv, Shape, Where, TypeOK, Seen, ITEM_IN_FLIGHT, ItemState, Move, NoMove

\* A validated transition, seen as the contract does.
LEMMA SeenMove ==
    ASSUME NEW s \in {"READING_CONTEXT", "ANALYZING", "NORMALIZING", "RULE_CHECK",
                      "LLM_PASS_CHECK", "AWAITING_REVIEW", "QUEUED", "ERROR"},
           NEW c
    PROVE  /\ Seen(NoMove.to) = "NONE"
           /\ Seen([to |-> s, category |-> c].to) =
                 IF s \in {"AWAITING_REVIEW", "QUEUED", "ERROR"} THEN s ELSE "IN_FLIGHT"
BY DEF Seen, ITEM_IN_FLIGHT, NoMove

LEMMA TransitionsMap ==
    ASSUME IInv, \/ WriteMove \/ MoveLost \/ MoveRaises \/ Over \/ Interrupt
                 \/ Begin \/ Finish \/ \E from \in DOMAIN Entry : Enter(from)
    PROVE  Mapped
<1> USE SeenStates DEF Mapped
<1>t. TypeOK /\ Where /\ Pending /\ state \in ItemState \cup {"GONE"}
  BY DEF IInv, Shape, TypeOK
<1>n. Seen(NoMove.to) = "NONE"
  BY SeenMove
<1>1. CASE WriteMove
  <2>1. Contract!Write
    BY <1>1, <1>n DEF WriteMove, Contract!Write, PhaseSeen
  <2> QED BY <2>1 DEF Contract!Next
<1>2. CASE MoveLost
  <2>1. move.to = "ERROR" /\ Seen(move.to) = "ERROR"
    BY <1>2 DEF MoveLost, Seen, ITEM_IN_FLIGHT
  <2>2. Contract!Lost
    BY <1>2, <1>n, <2>1 DEF MoveLost, Contract!Lost, PhaseSeen, row
  <2> QED BY <2>2 DEF Contract!Next
<1>3. CASE MoveRaises \/ Interrupt
  <2>1. pc \notin {"idle", "selected"} /\ Stop /\ UNCHANGED state
    BY <1>t, <1>3 DEF MoveRaises, Interrupt, Pending, row
  <2>2. Contract!Interrupted
    BY <1>n, <2>1 DEF Contract!Interrupted, PhaseSeen, Stop
  <2> QED BY <2>2 DEF Contract!Next
<1>4. CASE Over
  <2>1. Contract!Return
    BY <1>4, <1>n DEF Over, At, Stop, Contract!Return, PhaseSeen, row
  <2> QED BY <2>1 DEF Contract!Next
<1>5. CASE Begin
  <2>1. IF state = "QUEUED" THEN move' = [to |-> "READING_CONTEXT", category |-> "keep"]
                            ELSE move' = NoMove
    BY <1>t, <1>5, Table DEF Begin, Valid
  <2>2. Seen(move'.to) = IF state = "QUEUED" THEN "IN_FLIGHT" ELSE "NONE"
    BY <2>1, SeenMove
  <2>3. Contract!Start
    BY <1>t, <1>5, <2>2
       DEF Begin, Contract!Start, Contract!Read, PhaseSeen, Pending, row
  <2> QED BY <2>3 DEF Contract!Next, Contract!Run
<1>6. CASE Finish
  <2>1. IF state \in {"RULE_CHECK", "LLM_PASS_CHECK", "SKIPPED"}
          THEN move' = [to |-> "AWAITING_REVIEW", category |-> "keep"] ELSE move' = NoMove
    BY <1>t, <1>6, Table DEF Finish, Valid
  <2>2. /\ pc \in {"ok", "soft_ok"} /\ pc' = "clear" /\ move = NoMove
        /\ state' = state
    BY <1>6 DEF Finish, At, row
  <2>3. Seen(move'.to) = IF state \in {"RULE_CHECK", "SKIPPED"} THEN "AWAITING_REVIEW"
                                                                ELSE "NONE"
    BY <1>t, <2>1, SeenMove DEF Where
  <2>4. Contract!Ok
    BY <1>t, <2>2, <2>3 DEF Contract!Ok, Contract!Read, PhaseSeen, Where
  <2> QED BY <2>4 DEF Contract!Next, Contract!Run
<1>7. ASSUME NEW from \in DOMAIN Entry, Enter(from) PROVE Mapped
  <2>1. /\ from \in {"to_analyst", "to_normalizer", "to_rule_check", "to_llm_check", "to_soft"}
        /\ move = NoMove /\ pc = from /\ pc' = Entry[from].step /\ state' = state
    BY <1>7 DEF Enter, At, row, Entry
  <2>2. CASE from = "to_soft"
    <3>1. IF state \in {"RULE_CHECK", "LLM_PASS_CHECK", "SKIPPED"}
            THEN move' = [to |-> "AWAITING_REVIEW", category |-> "keep"] ELSE move' = NoMove
      BY <1>t, <1>7, <2>2, Table DEF Enter, Valid, Entry
    <3>2. Seen(move'.to) = IF state \in {"RULE_CHECK", "SKIPPED"} THEN "AWAITING_REVIEW"
                                                                  ELSE "NONE"
      BY <1>t, <3>1, SeenMove DEF Where
    <3>3. Contract!SoftReview
      BY <1>t, <2>1, <2>2, <3>2 DEF Contract!SoftReview, Contract!Read, PhaseSeen, Where, Entry
    <3> QED BY <3>3 DEF Contract!Next, Contract!Run
  <2>3. CASE from # "to_soft"
    <3>1. /\ Entry[from].state \in {"ANALYZING", "NORMALIZING", "RULE_CHECK", "LLM_PASS_CHECK"}
          /\ PhaseSeen = "run" /\ PhaseSeen' = "run"
      BY <2>1, <2>3 DEF Entry, PhaseSeen
    <3>2. \/ move' = NoMove
          \/ move' = [to |-> Entry[from].state, category |-> "keep"]
             /\ Seen(state) = "IN_FLIGHT"
      BY <1>t, <1>7, <3>1, Table DEF Enter, Valid, Where
    <3>3. CASE move' = NoMove
      BY <2>1, <3>1, <3>3
    <3>4. CASE /\ move' = [to |-> Entry[from].state, category |-> "keep"]
               /\ Seen(state) = "IN_FLIGHT"
      <4>1. Seen(move'.to) = "IN_FLIGHT"
        BY <3>1, <3>4, SeenMove
      <4>2. Contract!Advance
        BY <2>1, <3>1, <3>4, <4>1 DEF Contract!Advance, Contract!Read
      <4> QED BY <4>2 DEF Contract!Next, Contract!Run
    <3> QED BY <3>2, <3>3, <3>4
  <2> QED BY <2>2, <2>3
<1> QED BY <1>1, <1>2, <1>3, <1>4, <1>5, <1>6, <1>7

LEMMA StepsMap ==
    ASSUME MaxRetries \in Nat, IInv,
           \/ Select \/ NotReached \/ ReadContext \/ Analyst \/ Normalize \/ RuleCheck
           \/ SaveWarnings \/ LlmCheck \/ Verdict \/ Exhausted \/ SoftClear \/ Clear
    PROVE  Mapped
<1> USE DEF Mapped, At
<1>t. TypeOK /\ Where /\ Pending /\ state \in ItemState \cup {"GONE"}
  BY DEF IInv, Shape, TypeOK
<1>n. Seen(NoMove.to) = "NONE"
  BY SeenMove
\* A step that leaves the run where it was, or moves it on.
<1>1. ASSUME UNCHANGED <<state, move, PhaseSeen>> PROVE Mapped
  BY <1>1
<1>2. ASSUME pc \in Steps \cup {"verdict"},
             pc' \in {"analyst", "to_analyst", "normalizer", "to_normalizer", "to_rule_check",
                      "save", "llm_check", "to_llm_check", "verdict", "ok", "exhausted",
                      "to_soft"},
             UNCHANGED <<state, move>>
      PROVE  Mapped
  <2>1. UNCHANGED PhaseSeen
    BY <1>2 DEF Steps, PhaseSeen
  <2> QED BY <1>1, <1>2, <2>1
\* How a run ends before its end.
<1>3. ASSUME pc \in Steps, pc' = "over", move = NoMove, state' = state,
             \/ Requeue \/ (\E c \in {"permanent", "validation", "policy"} : SetError(c))
             \/ state = "GONE" /\ move' = NoMove
      PROVE  Mapped
  <2>0. PhaseSeen = "run" /\ PhaseSeen' = "over" /\ Seen(move.to) = "NONE"
    BY <1>3, <1>n DEF Steps, PhaseSeen
  <2>1. CASE Requeue
    <3>1. Seen(move'.to) = IF Seen(state) = "IN_FLIGHT" THEN "QUEUED" ELSE "NONE"
      <4>1. move' = IF Seen(state) = "IN_FLIGHT" THEN [to |-> "QUEUED", category |-> "none"]
                                                 ELSE NoMove
        BY <1>t, <1>3, <2>1, Table, SeenStates
           DEF Requeue, Valid, Where, Steps, ITEM_IN_FLIGHT
      <4> QED BY <4>1, SeenMove
    <3>2. Contract!Transient
      BY <1>3, <2>0, <3>1 DEF Contract!Transient, Contract!Read
    <3> QED BY <3>2 DEF Contract!Next, Contract!Run
  <2>2. CASE (\E c \in {"permanent", "validation", "policy"} : SetError(c))
             \/ (state = "GONE" /\ move' = NoMove)
    <3>1. Seen(move'.to) = IF Seen(state) \in {"IN_FLIGHT", "QUEUED", "AWAITING_REVIEW"}
                             THEN "ERROR" ELSE "NONE"
      <4>1. \/ Seen(state) \in {"IN_FLIGHT", "QUEUED", "AWAITING_REVIEW"}
               /\ \E c : move' = [to |-> "ERROR", category |-> c]
            \/ Seen(state) \notin {"IN_FLIGHT", "QUEUED", "AWAITING_REVIEW"}
               /\ move' = NoMove
        BY <1>t, <1>3, <2>2, Table, SeenStates
           DEF SetError, Valid, Where, Steps, ITEM_IN_FLIGHT
      <4> QED BY <4>1, SeenMove
    <3>2. Contract!Permanent
      BY <1>3, <2>0, <3>1 DEF Contract!Permanent, Contract!Read
    <3> QED BY <3>2 DEF Contract!Next, Contract!Run
  <2> QED BY <1>3, <2>1, <2>2
<1>4. ASSUME NEW n, pc \in Steps, move = NoMove,
             LlmFails(n) \/ (Vanished(n) /\ UNCHANGED row)
      PROVE  Mapped
  <2>1. CASE LlmFails(n)
    <3>1. \/ UNCHANGED <<state, move, pc>>
          \/ /\ pc' = "over" /\ state' = state
             /\ \/ Requeue \/ (\E c \in {"permanent", "validation", "policy"} : SetError(c))
                \/ state = "GONE" /\ move' = NoMove
      BY <1>4, <2>1 DEF LlmFails, Vanished, End, row
    <3>2. CASE UNCHANGED <<state, move, pc>>
      BY <1>1, <3>2 DEF PhaseSeen
    <3> QED BY <1>3, <1>4, <3>1, <3>2
  <2>2. CASE Vanished(n) /\ UNCHANGED row
    BY <1>3, <1>4, <2>2 DEF Vanished, End, row
  <2> QED BY <1>4, <2>1, <2>2
<1>5. CASE Select \/ NotReached
  <2>1. UNCHANGED <<state, move, PhaseSeen>>
    BY <1>t, <1>5 DEF Select, NotReached, Stop, Pending, PhaseSeen, row
  <2> QED BY <1>1, <2>1
<1>6. CASE ReadContext
  <2>1. CASE NonLlmFails
    <3>1. /\ pc \in Steps /\ pc' = "over" /\ move = NoMove /\ state' = state
          /\ SetError("permanent") \/ (state = "GONE" /\ move' = NoMove)
      BY <1>6, <2>1 DEF ReadContext, NonLlmFails, Vanished, End, Steps, row
    <3> QED BY <1>3, <3>1
  <2>2. CASE ~NonLlmFails
    BY <1>2, <1>6, <2>2 DEF ReadContext, Goto, Steps, row
  <2> QED BY <2>1, <2>2
<1>7. CASE Analyst \/ Normalize \/ RuleCheck
  <2>1. CASE LlmFails(1) \/ (Vanished(1) /\ UNCHANGED row)
    BY <1>4, <1>7, <2>1 DEF Analyst, Normalize, RuleCheck, Steps
  <2>2. CASE ~(LlmFails(1) \/ (Vanished(1) /\ UNCHANGED row))
    BY <1>2, <1>7, <2>2 DEF Analyst, Normalize, RuleCheck, Goto, Steps, row
  <2> QED BY <2>1, <2>2
<1>8. CASE SaveWarnings
  <2>1. CASE Vanished(1) /\ UNCHANGED warnings
    BY <1>4, <1>8, <2>1 DEF SaveWarnings, Steps, row
  <2>2. CASE ~(Vanished(1) /\ UNCHANGED warnings)
    BY <1>2, <1>8, <2>2 DEF SaveWarnings, RetryOr, Steps
  <2> QED BY <2>1, <2>2
<1>9. CASE LlmCheck
  <2>1. CASE LlmFails(2)
    BY <1>4, <1>9, <2>1 DEF LlmCheck, Steps
  <2>2. CASE ~LlmFails(2)
    BY <1>2, <1>9, <2>2 DEF LlmCheck, Goto, Steps
  <2> QED BY <2>1, <2>2
<1>10. CASE Verdict
  BY <1>2, <1>10 DEF Verdict, RetryOr, row
<1>11. CASE Exhausted
  <2>1. CASE feedback \subseteq {"SLOT_MISSING"}
    BY <1>2, <1>11, <2>1 DEF Exhausted, Goto, Steps
  <2>2. CASE ~(feedback \subseteq {"SLOT_MISSING"})
    BY <1>3, <1>11, <2>2 DEF Exhausted, End, Steps
  <2> QED BY <2>1, <2>2
<1>12. CASE SoftClear \/ Clear
  BY <1>1, <1>12 DEF SoftClear, Clear, Goto, End, PhaseSeen
<1> QED BY <1>5, <1>6, <1>7, <1>8, <1>9, <1>10, <1>11, <1>12

LEMMA UsersMap ==
    ASSUME IInv, Users
    PROVE  Mapped
<1> USE DEF Mapped, row, lane, aux
<1>t. state \in ItemState \cup {"GONE"} /\ decision \in Decision \cup {NoDecision}
  BY DEF IInv, TypeOK
<1>1. ASSUME UNCHANGED <<state, lane>> PROVE Mapped
  BY <1>1 DEF PhaseSeen
<1>2. ASSUME UNCHANGED lane, state # "GONE",
             state' \in {"APPROVED", "DROPPED", "SKIPPED", "QUEUED", "GONE"}
      PROVE  Mapped
  <2>1. /\ Seen(state) \notin {"UNBORN", "DELETED"}
        /\ Seen(state') \in {"APPROVED", "DROPPED", "SKIPPED", "QUEUED", "DELETED"}
        /\ UNCHANGED <<PhaseSeen, move>>
    BY <1>t, <1>2 DEF Seen, ItemState, ITEM_IN_FLIGHT, PhaseSeen
  <2>2. Contract!Request
    BY <2>1 DEF Contract!Request
  <2> QED BY <2>2 DEF Contract!Next
<1>3. ASSUME NEW to, Decide(to) PROVE Mapped
  BY <1>1, <1>3 DEF Decide
<1>4. CASE RollBack \/ SaveCaption
  BY <1>1, <1>4 DEF RollBack, SaveCaption
<1>5. CASE CommitDecision
  <2>1. CASE decision.to = "KEEP"
    BY <1>1, <1>5, <2>1 DEF CommitDecision
  <2>2. CASE decision.to # "KEEP"
    BY <1>t, <1>2, <1>5, <2>2 DEF CommitDecision, Decision
  <2> QED BY <2>1, <2>2
<1>6. CASE Delete
  BY <1>2, <1>6 DEF Delete
<1> QED BY <1>3, <1>4, <1>5, <1>6 DEF Users

(* The run of an item, with all its retries, is the contract the lane      *)
(* relies on (ImplementsItemRun).                                          *)
THEOREM ItemRunImplemented ==
    ASSUME MaxRetries \in Nat
    PROVE  Spec => ImplementsItemRun
<1>1. Init => Contract!Init
  BY DEF Init, Contract!Init, Seen, PhaseSeen, ITEM_IN_FLIGHT, NoMove
<1>2. IInv /\ [Next]_vars => [Contract!Next]_(Contract!vars)
  <2>1. CASE UNCHANGED vars
    BY <2>1 DEF Contract!vars, PhaseSeen, vars, row, lane
  <2> QED BY <2>1, TransitionsMap, StepsMap, UsersMap DEF Next, Pipeline, Mapped, Contract!vars
<1> QED
  BY <1>1, <1>2, InvariantHolds, PTL DEF Spec, ImplementsItemRun, Contract!Spec

=============================================================================
