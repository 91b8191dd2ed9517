------------------------------ MODULE LLMStep ------------------------------
(***************************************************************************)
(* One LLM step of an item, the analyst's: batch_processor._run_llm_step   *)
(* trying the step again when the answer is malformed, around              *)
(* LLMClient._post_with_retry, which asks the endpoint again on its own.   *)
(* ItemPipeline takes the whole step in one action per try; this module is *)
(* shown to implement it.                                                  *)
(*                                                                         *)
(* Of an answer only what the code does with it is kept.  The row can be   *)
(* deleted at any time; decisions are left to ItemPipeline.                *)
(***************************************************************************)
EXTENDS Lifecycle, Integers

CONSTANT MaxClientRetries   \* LLMConfig.max_retries: any integer is accepted
ASSUME ClientRetriesAssumption == MaxClientRetries \in Int

VARIABLES
    item,       \* state of the row, or GONE
    category,   \* last_error_category
    pc,         \* where the step stands
    val,        \* tries used up by malformed answers
    attempt,    \* requests repeated by the client in this try
    exc,        \* the exception on its way up
    outcome,    \* the _StepResult, or RAISED
    move,       \* what a transition has validated and not yet written
    \* History.
    asked,      \* requests sent
    last        \* the answer to the last one

vars == <<item, category, pc, val, attempt, exc, outcome, move, asked, last>>

-----------------------------------------------------------------------------
(* Answers and exceptions.                                                 *)

MAX_VALIDATION_RETRIES == 3

\* transient: no response, 429 or 5xx; permanent: another 4xx, or content
\* null; malformed: not the shape of a chat completion, or nothing but
\* thinking; unusable: a text the step's parser rejects.
Answer == {"usable", "unusable", "malformed", "transient", "permanent"}

Raised == [transient |-> "LLMTransientError", permanent |-> "LLMPermanentError",
           malformed |-> "LLMValidationError"]

Move == [to : {"QUEUED", "ERROR"}, category : {"none", "permanent", "validation"}]
NoMove == [to |-> "NONE", category |-> "keep"]

\* Bug: the client repeats what the endpoint refused.
Bug_LLMTransientError == {"LLMTransientError", "LLMValidationError", "LLMPermanentError"}

\* What "except LLMTransientError" catches: the class has a subclass.
LLMTransientError == {"LLMTransientError", "LLMValidationError"}

TypeOK ==
    /\ item \in {"ANALYZING", "QUEUED", "ERROR", "GONE"}
    /\ category \in {"none", "permanent", "validation"}
    /\ pc \in {"call", "post", "sleep", "write", "raised", "done"}
    /\ val \in 0..(MAX_VALIDATION_RETRIES - 1)
    /\ attempt \in Nat /\ (attempt = 0 \/ attempt <= MaxClientRetries)
    /\ exc \in {"none", "LLMTransientError", "LLMValidationError",
                "LLMPermanentError", "Exception"}
    /\ outcome \in {"none", "OK", "PERMANENT", "TRANSIENT", "RAISED"}
    /\ move \in Move \cup {NoMove}
    /\ asked \in Nat
    /\ last \in Answer \cup {"none"}

Init ==
    /\ item = "ANALYZING" /\ category = "none"
    /\ pc = "call" /\ val = 0 /\ attempt = 0 /\ exc = "none" /\ outcome = "none"
    /\ move = NoMove
    /\ asked = 0 /\ last = "none"

-----------------------------------------------------------------------------
(* The step.                                                               *)

Raise(e) == pc' = "raised" /\ exc' = e
Settle(result) == pc' = "done" /\ outcome' = result /\ exc' = "none"

\* _set_item_error and _requeue_item up to the write.
Valid(s, c) ==
    move' = IF is_valid_item_transition(item, s) THEN [to |-> s, category |-> c] ELSE NoMove

\* A try: the row is loaded, the client called.  With a negative number of
\* retries the client's loop is empty and it raises None, a TypeError.
Call ==
    /\ pc = "call"
    /\ IF item = "GONE"
         THEN Settle("PERMANENT") /\ UNCHANGED attempt
         ELSE /\ attempt' = 0 /\ UNCHANGED outcome
              /\ IF MaxClientRetries >= 0 THEN pc' = "post" /\ UNCHANGED exc
                                          ELSE Raise("Exception")
    /\ UNCHANGED <<item, category, val, move, asked, last>>

\* The image is missing or of a format the client does not know
\* (LLMPermanentError), or cannot be read.
ImageRefused ==
    /\ pc = "call" /\ item # "GONE"
    /\ \E e \in {"LLMPermanentError", "Exception"} : Raise(e)
    /\ UNCHANGED <<item, category, val, attempt, outcome, move, asked, last>>

\* Bug: one request too many.
Bug_Repeats(a) == a \in DOMAIN Raised /\ Raised[a] \in LLMTransientError
                  /\ attempt <= MaxClientRetries

\* The client asks again.
Repeats(a) == a \in DOMAIN Raised /\ Raised[a] \in LLMTransientError
              /\ attempt < MaxClientRetries

Post(a) ==
    /\ pc = "post"
    /\ asked' = asked + 1 /\ last' = a
    /\ IF a = "usable" THEN pc' = "write" /\ UNCHANGED exc
       ELSE IF Repeats(a) THEN pc' = "sleep" /\ UNCHANGED exc
       ELSE Raise(IF a = "unusable" THEN "LLMValidationError" ELSE Raised[a])
    /\ UNCHANGED <<item, category, val, attempt, outcome, move>>

\* The request cannot even be made (a base_url that is none), or the
\* response breaks the client itself.
PostBreaks ==
    /\ pc = "post" /\ Raise("Exception")
    /\ UNCHANGED <<item, category, val, attempt, outcome, move, asked, last>>

BackOff ==
    /\ pc = "sleep" /\ pc' = "post" /\ attempt' = attempt + 1
    /\ UNCHANGED <<item, category, val, exc, outcome, move, asked, last>>

\* The session of the step commits; an UPDATE of a row that is gone is a
\* StaleDataError, and the database may refuse.
Write ==
    /\ pc = "write"
    /\ \/ Settle(IF item = "GONE" THEN "PERMANENT" ELSE "OK")
       \/ Raise("Exception") /\ UNCHANGED outcome
    /\ UNCHANGED <<item, category, val, attempt, move, asked, last>>

-----------------------------------------------------------------------------
(* The except clauses of _run_llm_step, the first that fits.               *)

SetError(c) == Valid("ERROR", c) /\ Settle("PERMANENT")

\* Bug: a fourth try.
Bug_CatchValidation ==
    /\ pc = "raised" /\ exc = "LLMValidationError"
    /\ IF val < MAX_VALIDATION_RETRIES
         THEN /\ val' = val + 1 /\ pc' = "call" /\ exc' = "none"
              /\ UNCHANGED <<outcome, move>>
         ELSE SetError("validation") /\ UNCHANGED val
    /\ UNCHANGED <<item, category, attempt, asked, last>>

CatchValidation ==
    /\ pc = "raised" /\ exc = "LLMValidationError"
    /\ IF val + 1 < MAX_VALIDATION_RETRIES
         THEN /\ val' = val + 1 /\ pc' = "call" /\ exc' = "none"
              /\ UNCHANGED <<outcome, move>>
         ELSE SetError("validation") /\ UNCHANGED val
    /\ UNCHANGED <<item, category, attempt, asked, last>>

\* Bug: only the exceptions of the client have a clause.
Bug_CatchPermanent ==
    /\ pc = "raised" /\ exc = "LLMPermanentError"
    /\ SetError("permanent")
    /\ UNCHANGED <<item, category, val, attempt, asked, last>>

\* LLMPermanentError, and every exception that has no clause of its own.
CatchPermanent ==
    /\ pc = "raised" /\ exc \in {"LLMPermanentError", "Exception"}
    /\ SetError("permanent")
    /\ UNCHANGED <<item, category, val, attempt, asked, last>>

\* Bug: the clause comes before that of the subclass.
Bug_CatchTransient ==
    /\ pc = "raised" /\ exc \in LLMTransientError
    /\ Valid("QUEUED", "none") /\ Settle("TRANSIENT")
    /\ UNCHANGED <<item, category, val, attempt, asked, last>>

CatchTransient ==
    /\ pc = "raised" /\ exc \in LLMTransientError \ {"LLMValidationError"}
    /\ Valid("QUEUED", "none") /\ Settle("TRANSIENT")
    /\ UNCHANGED <<item, category, val, attempt, asked, last>>

WriteMove ==
    /\ move # NoMove /\ item # "GONE"
    /\ item' = move.to /\ category' = move.category /\ move' = NoMove
    /\ UNCHANGED <<pc, val, attempt, exc, outcome, asked, last>>

\* The row is gone.  _set_item_error takes that; from _requeue_item the
\* exception leaves the step.
MoveFails ==
    /\ move # NoMove /\ item = "GONE" /\ move' = NoMove
    /\ outcome' = IF move.to = "ERROR" THEN outcome ELSE "RAISED"
    /\ UNCHANGED <<item, category, pc, val, attempt, exc, asked, last>>

Step ==
    \/ Call \/ ImageRefused \/ (\E a \in Answer : Post(a)) \/ PostBreaks
    \/ BackOff \/ Write \/ CatchValidation \/ CatchPermanent \/ CatchTransient
    \/ WriteMove \/ MoveFails

\* delete_batch, or scan_batch finds the file missing.
Delete ==
    /\ item # "GONE" /\ item' = "GONE"
    /\ UNCHANGED <<category, pc, val, attempt, exc, outcome, move, asked, last>>

Next == Step \/ Delete

\* Every request has a timeout (request_timeout) and every sleep ends.
Spec == Init /\ [][Next]_vars /\ WF_vars(Step)

-----------------------------------------------------------------------------
(* Properties.                                                             *)

(* Whatever the endpoint answers, a step costs at most one request per     *)
(* retry of the client and per try of the step: the two loops multiply,    *)
(* and neither starts over (_run_llm_step, _post_with_retry).              *)
Budget == asked <= MAX_VALIDATION_RETRIES
                     * (IF MaxClientRetries >= 0 THEN MaxClientRetries + 1 ELSE 0)

(* The result says what became of the requests.  An item goes back to the  *)
(* queue, where it does not count as failed, only for a transport failure  *)
(* that all retries of the client have met; it is given up as invalid only *)
(* after the third try, for an answer that was malformed to the end        *)
(* (LLMValidationError is a subclass of LLMTransientError: the order of    *)
(* the clauses decides, batch_processor.py:463-482).                       *)
ResultFitsAnswers ==
    /\ outcome = "OK" => last = "usable"
    /\ outcome = "TRANSIENT" => last = "transient" /\ attempt = MaxClientRetries
    /\ category = "validation" =>
          /\ val = MAX_VALIDATION_RETRIES - 1
          /\ \/ last = "unusable"
             \/ last = "malformed" /\ attempt = MaxClientRetries

(* What the endpoint refuses is not asked again.                           *)
RefusalIsFinal == [][last = "permanent" => asked' = asked]_vars

(* The step is a step of the pipeline: every transition here is invisible  *)
(* there, or the action that ItemPipeline has for the analyst.             *)
Pipeline == INSTANCE ItemPipeline WITH
    MaxRetries <- 0, MaxRequests <- 1, MaxRuns <- 1,
    state <- item, category <- category,
    caption <- [by |-> "none", breaks |-> {"OTHER"}], warnings <- {},
    pc <- CASE outcome = "none" -> "analyst"
            [] outcome = "OK" -> "to_normalizer"
            [] outcome = "RAISED" -> "idle"
            [] OTHER -> "over",
    attempt <- 0, val <- IF outcome = "none" THEN val ELSE 0, feedback <- {},
    recorded <- IF outcome = "PERMANENT" THEN 1 ELSE 0, move <- move,
    decision <- [to |-> "NONE", clear |-> {}],
    cut <- outcome = "RAISED", overtaken <- FALSE,
    issued <- IF item = "GONE" THEN 1 ELSE 0, runs <- 1
ImplementsAnalyst ==
    [][\/ Pipeline!Analyst \/ Pipeline!WriteMove
       \/ Pipeline!MoveLost \/ Pipeline!MoveRaises \/ Pipeline!Delete]_(Pipeline!vars)

(* Every step comes to a result, and the item's transition is settled.     *)
StepEnds == <>(outcome # "none" /\ move = NoMove)

=============================================================================
