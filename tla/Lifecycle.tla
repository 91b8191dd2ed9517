----------------------------- MODULE Lifecycle -----------------------------
(***************************************************************************)
(* The two state machines of the application, as the tables                *)
(* lifecycle/batch_states.py and lifecycle/item_states.py build them at    *)
(* import: sets of (from, to) pairs that the processor and the batch       *)
(* endpoints consult before they write a state.                            *)
(***************************************************************************)

(***************************************************************************)
(* Batches.                                                                *)
(***************************************************************************)
BatchState == {"SCHEDULED", "QUEUED", "SCANNING", "PROCESSING",
               "AWAITING_REVIEW", "EXPORTING", "DONE", "PAUSED", "ERROR"}

BATCH_ACTIVE_STATES == {"SCHEDULED", "QUEUED", "SCANNING", "PROCESSING",
                        "AWAITING_REVIEW", "EXPORTING"}

BATCH_TERMINAL_STATES == {"DONE"}

BATCH_TRANSITIONS ==
    {<<"SCHEDULED", "QUEUED">>, <<"QUEUED", "SCANNING">>,
     <<"SCANNING", "PROCESSING">>, <<"QUEUED", "PROCESSING">>,
     <<"PROCESSING", "AWAITING_REVIEW">>, <<"AWAITING_REVIEW", "EXPORTING">>,
     <<"EXPORTING", "DONE">>,
     <<"AWAITING_REVIEW", "PROCESSING">>, <<"AWAITING_REVIEW", "QUEUED">>,
     <<"PROCESSING", "QUEUED">>, <<"ERROR", "QUEUED">>, <<"PAUSED", "ERROR">>}
    \cup (BATCH_ACTIVE_STATES \X {"PAUSED", "ERROR"})
    \cup ({"PAUSED"} \X BATCH_ACTIVE_STATES)

is_valid_batch_transition(from, to) == <<from, to>> \in BATCH_TRANSITIONS

(***************************************************************************)
(* Image items.                                                            *)
(***************************************************************************)
ItemState == {"QUEUED", "READING_CONTEXT", "ANALYZING", "NORMALIZING",
              "GAP_FILLING", "RULE_CHECK", "LLM_PASS_CHECK",
              "AWAITING_REVIEW", "APPROVED", "REGENERATING", "DROPPED",
              "SKIPPED", "EXPORTING", "DONE", "ERROR"}

ITEM_TERMINAL_STATES == {"DONE", "DROPPED"}

(* States in which an item is held by the pipeline, and from which a crash *)
(* may be recovered by sending the item back to QUEUED.                    *)
ITEM_IN_FLIGHT == {"READING_CONTEXT", "ANALYZING", "NORMALIZING",
                   "GAP_FILLING", "RULE_CHECK", "LLM_PASS_CHECK",
                   "REGENERATING"}

ITEM_TRANSITIONS ==
    {<<"QUEUED", "READING_CONTEXT">>, <<"READING_CONTEXT", "ANALYZING">>,
     <<"ANALYZING", "NORMALIZING">>, <<"NORMALIZING", "RULE_CHECK">>,
     <<"RULE_CHECK", "GAP_FILLING">>, <<"GAP_FILLING", "LLM_PASS_CHECK">>,
     <<"RULE_CHECK", "AWAITING_REVIEW">>,
     <<"LLM_PASS_CHECK", "AWAITING_REVIEW">>,
     <<"RULE_CHECK", "NORMALIZING">>, <<"LLM_PASS_CHECK", "NORMALIZING">>,
     <<"SKIPPED", "AWAITING_REVIEW">>, <<"REGENERATING", "NORMALIZING">>,
     <<"APPROVED", "EXPORTING">>, <<"EXPORTING", "DONE">>,
     <<"ERROR", "QUEUED">>, <<"ERROR", "DROPPED">>}
    \cup ({"AWAITING_REVIEW"}
            \X {"APPROVED", "REGENERATING", "DROPPED", "SKIPPED"})
    \cup ((ITEM_IN_FLIGHT \cup {"QUEUED", "AWAITING_REVIEW", "EXPORTING"})
            \X {"ERROR"})
    \cup ((ITEM_IN_FLIGHT \cup {"EXPORTING"}) \X {"QUEUED"})

is_valid_item_transition(from, to) == <<from, to>> \in ITEM_TRANSITIONS

=============================================================================
