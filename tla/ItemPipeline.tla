---------------------------- MODULE ItemPipeline ----------------------------
(***************************************************************************)
(* One image item in the pipeline: batch_processor._process_item and the   *)
(* normalizer loop it ends in, step by step, while requests decide, edit   *)
(* or delete the same row and the run may be cut short anywhere.           *)
(*                                                                         *)
(* Grain.  A step of the pipeline opens a session of its own, and between  *)
(* two sessions anything may happen to the row.  A lifecycle transition is *)
(* two steps here: it validates the state it reads and then writes over    *)
(* whatever is there.  An LLM step loads the row, waits for the endpoint   *)
(* and writes only its own column, so it is the write that counts.  A      *)
(* decision, too, is read and committed in two steps and writes the        *)
(* columns it found different.                                             *)
(***************************************************************************)
EXTENDS Lifecycle, Integers, FiniteSets

CONSTANTS MaxRetries,   \* retry_cfg.normalizer_max_self_retries, any integer
          MaxRequests,  \* bound: requests issued in a behaviour
          MaxRuns       \* bound: runs of the item in a behaviour

ASSUME RetriesAssumption == MaxRetries \in Int
ASSUME BoundsAssumption == {MaxRequests, MaxRuns} \subseteq Nat

VARIABLES
    \* The image_items row.
    state,      \* state, or GONE
    caption,    \* normalized_caption
    warnings,   \* codes of the warnings column
    category,   \* last_error_category
    \* The run of the item: lost when it is cut short.
    pc,         \* the step to be taken next
    attempt,    \* the normalizer attempt of the loop
    val,        \* validation tries the current LLM step has used up
    feedback,   \* codes the last check has found
    recorded,   \* _record_batch_failure calls this run makes
    move,       \* what a transition has validated and not yet written
    \* A decision read and not yet committed.
    decision,
    \* Auxiliary.
    cut,        \* the last run of the item was cut short
    overtaken,  \* a REGENERATE has cleared warnings of a caption it never saw
    issued, runs

row == <<state, caption, warnings, category>>
lane == <<pc, attempt, val, feedback, recorded, move>>
aux == <<cut, overtaken, issued, runs>>
vars == <<row, lane, decision, aux>>

-----------------------------------------------------------------------------
(* Data.  Of a caption only who wrote it and what rule_checker.check finds *)
(* in it matter.  OTHER stands for every code not listed here; LLM for a   *)
(* warning whose source is llm_pass_checker.                               *)
RuleCodes == {"SLOT_MISSING", "MULTI_CHARACTER", "OTHER"}
Caption == [by : {"none", "model", "user"}, breaks : SUBSET RuleCodes]

\* An empty caption lacks at least the trigger token.
NoCaption == [by |-> "none", breaks |-> {"OTHER"}]

MAX_VALIDATION_RETRIES == 3

\* The columns a decision will write.
Decision == [to : {"KEEP", "APPROVED", "DROPPED", "SKIPPED", "QUEUED"},
             clear : SUBSET {"caption", "warnings"}]
NoDecision == [to |-> "NONE", clear |-> {}]

\* The columns a transition will write: a category of "keep" is not written.
Move == [to : ItemState, category : {"keep", "none", "permanent", "policy", "validation"}]
NoMove == [to |-> "NONE", category |-> "keep"]

\* The transitions a step begins with: the step, and its state.
Entry == [to_analyst    |-> [step |-> "analyst", state |-> "ANALYZING"],
          to_normalizer |-> [step |-> "normalizer", state |-> "NORMALIZING"],
          to_rule_check |-> [step |-> "rule_check", state |-> "RULE_CHECK"],
          to_llm_check  |-> [step |-> "llm_check", state |-> "LLM_PASS_CHECK"],
          to_soft       |-> [step |-> "soft", state |-> "AWAITING_REVIEW"]]

TypeOK ==
    /\ state \in ItemState \cup {"GONE"}
    /\ caption \in Caption
    /\ warnings \subseteq RuleCodes \cup {"LLM"}
    /\ category \in {"none", "permanent", "policy", "validation"}
    /\ pc \in {"idle", "selected", "context", "analyst", "normalizer",
               "rule_check", "save", "llm_check", "verdict", "exhausted",
               "soft", "soft_ok", "ok", "clear", "over"} \cup DOMAIN Entry
    /\ attempt \in {0} \cup 0..MaxRetries
    /\ val \in 0..(MAX_VALIDATION_RETRIES - 1)
    /\ feedback \subseteq RuleCodes \cup {"LLM"}
    /\ recorded \in 0..2
    /\ move \in Move \cup {NoMove}
    /\ decision \in Decision \cup {NoDecision}
    /\ cut \in BOOLEAN /\ overtaken \in BOOLEAN
    /\ issued \in 0..MaxRequests /\ runs \in 0..MaxRuns

Init ==
    /\ state = "QUEUED" /\ caption = NoCaption /\ warnings = {} /\ category = "none"
    /\ pc = "idle" /\ attempt = 0 /\ val = 0 /\ feedback = {} /\ recorded = 0
    /\ move = NoMove /\ decision = NoDecision
    /\ cut = FALSE /\ overtaken = FALSE /\ issued = 0 /\ runs = 0

-----------------------------------------------------------------------------
(* Transitions.                                                            *)

\* The step is due, and the transition before it is done with.
At(step) == pc = step /\ move = NoMove

\* Bug: the transition table is not asked.
Bug_Valid(s, c) == move' = [to |-> s, category |-> c]

\* _transition_item, _requeue_item and _set_item_error up to the write.
Valid(s, c) ==
    move' = IF is_valid_item_transition(state, s) THEN [to |-> s, category |-> c] ELSE NoMove

SetError(c) == Valid("ERROR", c)
Requeue == Valid("QUEUED", "none")

\* The UPDATE asks nothing of the row but that it exists.
WriteMove ==
    /\ move # NoMove /\ state # "GONE"
    /\ state' = move.to /\ move' = NoMove
    /\ category' = IF move.category = "keep" THEN category ELSE move.category
    /\ UNCHANGED <<caption, warnings, pc, attempt, val, feedback, recorded, decision, aux>>

\* The row is gone.  _set_item_error takes that; from the others the
\* exception leaves run_batch.
MoveLost ==
    /\ move.to = "ERROR" /\ state = "GONE" /\ move' = NoMove
    /\ UNCHANGED <<row, pc, attempt, val, feedback, recorded, decision, aux>>

Stop ==
    /\ pc' = "idle" /\ attempt' = 0 /\ val' = 0 /\ feedback' = {} /\ move' = NoMove
    /\ UNCHANGED recorded

MoveRaises ==
    /\ move # NoMove /\ move.to # "ERROR" /\ state = "GONE"
    /\ Stop /\ cut' = TRUE
    /\ UNCHANGED <<row, decision, overtaken, issued, runs>>

\* _process_item has its result; n failures are recorded for the batch.
End(n) ==
    /\ pc' = "over" /\ attempt' = 0 /\ val' = 0 /\ feedback' = {}
    /\ recorded' = recorded + n

Over ==
    /\ At("over") /\ Stop
    /\ UNCHANGED <<row, decision, aux>>

Goto(step) ==
    pc' = step /\ val' = 0 /\ UNCHANGED <<attempt, feedback, recorded, move>>

\* The row is gone: the step gives up on the item and reports PERMANENT.
Vanished(n) == state = "GONE" /\ End(n) /\ UNCHANGED move

Enter(from) ==
    /\ At(from)
    /\ Valid(Entry[from].state, "keep") /\ pc' = Entry[from].step
    /\ UNCHANGED <<row, attempt, val, feedback, recorded, decision, aux>>

-----------------------------------------------------------------------------
(* run_batch and the steps before the normalizer.                          *)

\* run_batch collects the item.
Select ==
    /\ pc = "idle" /\ runs < MaxRuns
    /\ state \in ITEM_IN_FLIGHT \cup {"QUEUED"}
    /\ pc' = "selected" /\ runs' = runs + 1
    /\ UNCHANGED <<row, attempt, val, feedback, recorded, move, decision, cut, overtaken, issued>>

\* The run of the batch ends before its turn comes.
NotReached ==
    /\ pc = "selected" /\ Stop
    /\ UNCHANGED <<row, decision, aux>>

Begin ==
    /\ pc = "selected"
    /\ Valid("READING_CONTEXT", "keep")
    /\ pc' = "context" /\ recorded' = 0
    /\ cut' = FALSE /\ overtaken' = FALSE
    /\ UNCHANGED <<row, attempt, val, feedback, decision, issued, runs>>

\* Its failures are not recorded for the batch.
NonLlmFails ==
    \/ SetError("permanent") /\ End(0)
    \/ Vanished(0)

\* What context_reader.run finds in the sidecar or the image, which may be
\* nothing, it stores in columns no later step decides on.  A file it cannot
\* decode makes it fail.
ReadContext ==
    /\ At("context")
    /\ \/ state # "GONE" /\ Goto("to_analyst")
       \/ NonLlmFails
    /\ UNCHANGED <<row, decision, aux>>

\* How an LLM step fails: n failures are recorded unless the item goes back
\* to the queue.  A malformed answer is tried again, with a higher
\* temperature, until the tries are used up.
LlmFails(n) ==
    /\ \/ SetError("permanent") /\ End(n)
       \/ Requeue /\ End(0)
       \/ /\ val + 1 < MAX_VALIDATION_RETRIES
          /\ val' = val + 1 /\ UNCHANGED <<pc, attempt, feedback, recorded, move>>
       \/ val + 1 = MAX_VALIDATION_RETRIES /\ SetError("validation") /\ End(n)
       \/ Vanished(n)
    /\ UNCHANGED row

\* The loop is entered for an item that it will attempt at all.
Analyst ==
    /\ At("analyst")
    /\ \/ /\ state # "GONE" /\ UNCHANGED row
          /\ Goto(IF MaxRetries >= 0 THEN "to_normalizer" ELSE "exhausted")
       \/ LlmFails(1)
    /\ UNCHANGED <<decision, aux>>

-----------------------------------------------------------------------------
(* _run_normalizer_loop.                                                   *)

\* normalizer.run: the answer, if it can be a caption at all, replaces the
\* caption, whatever rules it breaks.  One equal to the caption the session
\* has loaded is not written: what was saved or cleared since then stays.
WriteCaption ==
    \/ \E b \in SUBSET RuleCodes : caption' = [by |-> "model", breaks |-> b]
    \/ issued > 0 /\ UNCHANGED caption

Normalize ==
    /\ At("normalizer")
    /\ \/ /\ state # "GONE"
          /\ WriteCaption
          /\ Goto("to_rule_check")
          /\ UNCHANGED <<state, warnings, category>>
       \/ LlmFails(1)
    /\ UNCHANGED <<decision, aux>>

\* One session reads the caption that is checked, another saves the result.
RuleCheck ==
    /\ At("rule_check")
    /\ \/ /\ state # "GONE"
          /\ feedback' = caption.breaks
          /\ pc' = "save" /\ UNCHANGED <<attempt, val, recorded, move>>
       \/ Vanished(1)
    /\ UNCHANGED <<row, decision, aux>>

\* Bug: one attempt too many.
Bug_RetryOr(step) ==
    IF attempt <= MaxRetries THEN pc' = "to_normalizer" /\ attempt' = attempt + 1
                             ELSE pc' = step /\ UNCHANGED attempt

\* Bug: the attempts are not counted.
Bug_RetryForEver(step) == pc' = "to_normalizer" /\ UNCHANGED attempt

\* Violations remain: the normalizer is given another attempt, or there is
\* none left.
RetryOr(step) ==
    IF attempt < MaxRetries THEN pc' = "to_normalizer" /\ attempt' = attempt + 1
                            ELSE pc' = step /\ UNCHANGED attempt

SaveWarnings ==
    /\ At("save")
    /\ \/ /\ state # "GONE"
          /\ warnings' = feedback
          /\ CASE feedback = {} -> pc' = "to_llm_check" /\ UNCHANGED attempt
               [] feedback = {"MULTI_CHARACTER"} -> pc' = "ok" /\ UNCHANGED attempt
               [] OTHER -> RetryOr("exhausted")
          /\ UNCHANGED <<val, feedback, recorded, move>>
       \/ Vanished(1) /\ UNCHANGED warnings
    /\ UNCHANGED <<state, caption, category, decision, aux>>

\* llm_pass_checker.run merges what it finds into the row.  Its failures are
\* recorded by the loop and once more by _process_item.
LlmCheck ==
    /\ At("llm_check")
    /\ \/ /\ state # "GONE"
          /\ warnings' \in {warnings, {"LLM"}}
          /\ Goto("verdict") /\ UNCHANGED <<state, caption, category>>
       \/ LlmFails(2)
    /\ UNCHANGED <<decision, aux>>

\* The loop reads back the warnings of the checker.  On the last attempt
\* they are left to the reviewer.
Verdict ==
    /\ At("verdict")
    /\ IF state # "GONE" /\ "LLM" \in warnings
         THEN feedback' = {"LLM"} /\ RetryOr("ok")
         ELSE pc' = "ok" /\ UNCHANGED <<attempt, feedback>>
    /\ UNCHANGED <<row, val, recorded, move, decision, aux>>

\* Bug: whatever is left is shown to the reviewer.
Bug_Exhausted ==
    /\ At("exhausted")
    /\ warnings' = IF state = "GONE" THEN warnings ELSE feedback
    /\ Goto("to_soft")
    /\ UNCHANGED <<state, caption, category, decision, aux>>

\* No attempt is left: a caption that only lacks a slot goes to the
\* reviewer.
Exhausted ==
    /\ At("exhausted")
    /\ IF feedback \subseteq {"SLOT_MISSING"}
         THEN /\ warnings' = IF state = "GONE" THEN warnings ELSE feedback
              /\ Goto("to_soft")
         ELSE SetError("policy") /\ End(1) /\ UNCHANGED warnings
    /\ UNCHANGED <<state, caption, category, decision, aux>>

\* The end of _process_item.
SoftClear ==
    /\ At("soft") /\ Goto("soft_ok")
    /\ category' = "none"
    /\ UNCHANGED <<state, caption, warnings, decision, aux>>

Finish ==
    /\ At("ok") \/ At("soft_ok")
    /\ Valid("AWAITING_REVIEW", "keep") /\ pc' = "clear"
    /\ UNCHANGED <<row, attempt, val, feedback, recorded, decision, aux>>

\* Bug: the error of an earlier run stays.
Bug_Clear ==
    /\ At("clear") /\ End(0)
    /\ UNCHANGED <<row, move, decision, aux>>

\* _clear_item_error, and run_batch resets the batch's counter.
Clear ==
    /\ At("clear") /\ End(0)
    /\ category' = "none"
    /\ UNCHANGED <<state, caption, warnings, move, decision, aux>>

Pipeline ==
    \/ NotReached \/ Begin \/ ReadContext \/ Analyst \/ Normalize
    \/ RuleCheck \/ SaveWarnings \/ LlmCheck \/ Verdict
    \/ Exhausted \/ SoftClear \/ Finish \/ Clear \/ Over
    \/ (\E from \in DOMAIN Entry : Enter(from))
    \/ WriteMove \/ MoveLost \/ MoveRaises

\* An exception that no step handles, or the process dies.
Interrupt ==
    /\ pc \notin {"idle", "selected"} /\ Stop
    /\ cut' = TRUE
    /\ UNCHANGED <<row, decision, overtaken, issued, runs>>

-----------------------------------------------------------------------------
(* Requests.                                                               *)

Request == issued < MaxRequests /\ issued' = issued + 1

\* decide_item and mass_decide: a state_filter reaches items in any state.
Decide(to) ==
    /\ state # "GONE" /\ decision = NoDecision /\ Request
    /\ decision' = [to |-> IF state = to THEN "KEEP" ELSE to,
                    clear |-> {col \in {"caption", "warnings"} :
                                 /\ to = "QUEUED"
                                 /\ col = "caption" => caption.by # "none"
                                 /\ col = "warnings" => warnings # {}}]
    /\ UNCHANGED <<row, lane, cut, overtaken, runs>>

CommitDecision ==
    /\ decision # NoDecision /\ state # "GONE"
    /\ state' = IF decision.to = "KEEP" THEN state ELSE decision.to
    /\ caption' = IF "caption" \in decision.clear THEN NoCaption ELSE caption
    /\ warnings' = IF "warnings" \in decision.clear THEN {} ELSE warnings
    /\ decision' = NoDecision
    /\ overtaken' = (overtaken \/ (/\ decision.clear = {"warnings"}
                                  /\ caption.by # "none"))
    /\ UNCHANGED <<category, lane, cut, issued, runs>>

RollBack ==
    /\ decision # NoDecision /\ decision' = NoDecision
    /\ UNCHANGED <<row, lane, aux>>

SaveCaption ==
    /\ state # "GONE" /\ Request
    /\ \E b \in SUBSET RuleCodes : caption' = [by |-> "user", breaks |-> b]
    /\ UNCHANGED <<state, warnings, category, lane, decision, cut, overtaken, runs>>

\* delete_batch, or scan_batch finds the file missing.
Delete ==
    /\ state # "GONE" /\ Request
    /\ state' = "GONE"
    /\ UNCHANGED <<caption, warnings, category, lane, decision, cut, overtaken, runs>>

Users ==
    \/ \E to \in {"APPROVED", "DROPPED", "SKIPPED", "QUEUED"} : Decide(to)
    \/ CommitDecision \/ RollBack \/ SaveCaption \/ Delete

Next == Select \/ Pipeline \/ Interrupt \/ Users

\* Every step of the pipeline is bounded by timeouts and retry limits.
Spec == Init /\ [][Next]_vars /\ WF_vars(Pipeline)

-----------------------------------------------------------------------------
(* Properties.                                                             *)

(* What the reviewer is shown is what the checks found: the rule warnings  *)
(* on a generated caption under review are those of that very caption, and *)
(* it breaks no rule worse than a missing slot, except that it may be      *)
(* about several characters - across retries, retried runs, crashes and    *)
(* decisions made in between (_run_normalizer_loop).  Only a REGENERATE    *)
(* that read the item before it had a caption, and commits when it has     *)
(* one, can clear the warnings and leave the caption.                      *)
ReviewedIsChecked ==
    state = "AWAITING_REVIEW" /\ caption.by = "model" /\ ~overtaken =>
        /\ warnings \ {"LLM"} = caption.breaks
        /\ caption.breaks \in {{}, {"SLOT_MISSING"}, {"MULTI_CHARACTER"}}

(* An item in ERROR says why, and one that is under review no longer shows *)
(* the error of an earlier run, unless its last run was cut short          *)
(* (_set_item_error, _clear_item_error: the state and the error fields are *)
(* written in different sessions).                                         *)
ErrorIsCurrent ==
    /\ state = "ERROR" => category # "none"
    /\ state = "AWAITING_REVIEW" /\ pc = "idle" /\ ~cut => category = "none"

(* Every run of an item ends: the three nested retry loops use up their    *)
(* limits whatever the endpoints answer and the user does.                 *)
ItemRunEnds == pc # "idle" ~> pc = "idle"

(* The run of an item is the contract run_batch relies on.                 *)
Seen(s) == IF s = "GONE" THEN "DELETED"
           ELSE IF s \in ITEM_IN_FLIGHT THEN "IN_FLIGHT" ELSE s
PhaseSeen == IF pc \in {"idle", "selected"} THEN "idle"
             ELSE IF pc \in {"soft", "soft_ok"} THEN "soft"
             ELSE IF pc \in {"clear", "over"} THEN "over" ELSE "run"
Contract == INSTANCE ItemRun
                WITH item <- Seen(state), phase <- PhaseSeen, move <- Seen(move.to)
ImplementsItemRun == Contract!Spec

=============================================================================
