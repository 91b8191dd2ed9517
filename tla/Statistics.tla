----------------------------- MODULE Statistics -----------------------------
(***************************************************************************)
(* What the server counts over the rows of ReviewExport: the figures of a  *)
(* batch and of its project on the pages (api/stats.py) and the statistics *)
(* of the data set (analysis/dataset_stats.py).  Batches are those of one  *)
(* project.                                                                *)
(*                                                                         *)
(* Grain.  Each function is one expression over a single state.  The code  *)
(* issues a query per batch, and one for its items, so figures of          *)
(* different batches may be of different moments; those of one batch come  *)
(* from one query.  Of a field of raw_analyst_output only the value        *)
(* matters, and the analyst is taken to see the same each time.            *)
(***************************************************************************)
EXTENDS ReviewExport

CONSTANTS Seen,         \* what the analyst reports of item i in a field
          Classified    \* _clothing_text_to_state of a text

ASSUME FiniteAssumption == IsFiniteSet(Items) /\ IsFiniteSet(Batches)

InState(b, S) == Cardinality({i \in ItemsOf(b) : row[i].state \in S})

-----------------------------------------------------------------------------
(* api/stats.py.                                                           *)

\* Bug: a failed item never finishes.
Bug_Finished == {"APPROVED", "DROPPED", "SKIPPED", "DONE", "AWAITING_REVIEW"}

Finished == {"APPROVED", "DROPPED", "SKIPPED", "DONE", "AWAITING_REVIEW", "ERROR"}

Total(b) == Cardinality(ItemsOf(b))

progress_pct(b) ==
    IF Total(b) = 0 THEN 0 ELSE (InState(b, Finished) * 100) \div Total(b)

Running == {"READING_CONTEXT", "ANALYZING", "NORMALIZING", "RULE_CHECK",
            "LLM_PASS_CHECK", "REGENERATING"}

\* The figures of build_batch_out, each with the item states it adds up;
\* build_batch_card shows some of them.
Figures == [queued |-> {"QUEUED"}, processing |-> Running,
            awaiting_review |-> {"AWAITING_REVIEW"}, approved |-> {"APPROVED"},
            error |-> {"ERROR"}, done |-> {"DONE"}, skipped |-> {"SKIPPED"},
            dropped |-> {"DROPPED"}]

\* Bug: the state of an item the normalizer is at work on is in no figure.
Bug_batch_out(b) ==
    [f \in DOMAIN Figures |-> InState(b, Figures[f] \ {"NORMALIZING"})]

batch_out(b) == [f \in DOMAIN Figures |-> InState(b, Figures[f])]

ACTIVE_STATES == {"PROCESSING", "QUEUED", "SCANNING"}

batch_status_category(s) ==
    CASE s = "ERROR" -> "error"
      [] s = "AWAITING_REVIEW" -> "review"
      [] s = "SCANNING" -> "scanning"
      [] s \in ACTIVE_STATES \ {"SCANNING"} -> "active"
      [] s = "SCHEDULED" -> "scheduled"
      [] OTHER -> "idle"

BatchesIn(S) == Cardinality({b \in Batches : bstate[b] \in S})

project_out ==
    [total_batches |-> Cardinality(Batches),
     active_batches |-> BatchesIn(ACTIVE_STATES),
     error_batches |-> BatchesIn({"ERROR"}),
     awaiting_review_batches |-> BatchesIn({"AWAITING_REVIEW"}),
     awaiting_review_items |->
        Cardinality({i \in Items : row[i].state = "AWAITING_REVIEW"})]

\* Bug: what waits for a review hides a failure.
Bug_project_status_category ==
    LET some(S) == \E b \in Batches : bstate[b] \in S IN
    IF some(ACTIVE_STATES) THEN "active"
    ELSE IF some({"ERROR"}) THEN "error"
    ELSE IF some({"AWAITING_REVIEW"}) THEN "review" ELSE "idle"

project_status_category ==
    LET some(S) == \E b \in Batches : bstate[b] \in S IN
    IF some({"ERROR"}) THEN "error"
    ELSE IF some({"AWAITING_REVIEW"}) THEN "review"
    ELSE IF some(ACTIVE_STATES) THEN "active" ELSE "idle"

-----------------------------------------------------------------------------
(* analysis/dataset_stats.py.                                              *)

INCLUDE_STATES == {"APPROVED", "AWAITING_REVIEW"}
Included(b) == {i \in ItemsOf(b) : row[i].state \in INCLUDE_STATES}

\* Batches without such items are left out.
PerBatch == {b \in Batches : Included(b) # {}}
AllItems == UNION {Included(b) : b \in PerBatch}

\* The bucket of each item in a field of the analyst's output.
FieldKey == [i \in Items |-> IF row[i].analysed THEN Seen[i] ELSE "unknown"]

\* Of a character's clothing: the caption stands in for an analysis that is
\* not there.
ClothingKey ==
    [i \in Items |->
        LET caption == IF row[i].final # None THEN row[i].final ELSE row[i].normalized
        IN CASE row[i].analysed -> Classified[Seen[i]]
             [] ~row[i].analysed /\ caption # None -> Classified[caption]
             [] OTHER -> "unknown"]

\* Bug: items without an analysis are passed over.
Bug_distribution(key, S) ==
    [k \in {key[i] : i \in S} \ {"unknown"} |-> Cardinality({i \in S : key[i] = k})]

\* _extract_distributions, of one field.
distribution(key, S) ==
    [k \in {key[i] : i \in S} |-> Cardinality({i \in S : key[i] = k})]

project_stats ==
    [total |-> Cardinality(AllItems),
     approved |-> Cardinality({i \in AllItems : row[i].state = "APPROVED"}),
     fields |-> distribution(FieldKey, AllItems),
     clothing |-> distribution(ClothingKey, AllItems),
     per_batch |-> [b \in PerBatch |-> Cardinality(Included(b))]]

\* What a function to numbers adds up to.
Sum(f) == Cardinality(UNION {{k} \X (1..f[k]) : k \in DOMAIN f})

-----------------------------------------------------------------------------
(* Properties.                                                             *)

(* Every item of a batch is in exactly one of the figures its page shows,  *)
(* in whatever state the lane, a decision or a race has left it: the list  *)
(* of build_batch_out has every state the program puts an item in.         *)
FiguresAddUp == \A b \in Batches : Sum(batch_out(b)) = Total(b)

(* Two lists of item states kept in two files agree: a batch shows 100 per *)
(* cent and nothing awaiting review (stats._progress_pct, build_batch_out) *)
(* exactly when the export has no pending item to refuse it for            *)
(* (batches._PENDING_EXPORT_STATES).                                       *)
CardTellsExportable ==
    \A b \in Batches : Total(b) > 0 =>
        ((progress_pct(b) = 100 /\ batch_out(b).awaiting_review = 0)
            <=> Pending(b) = {})

(* The card of a project asks for the user exactly when one of its         *)
(* batches does: review is shown if a batch is up for review, and only     *)
(* then, and active only when nothing waits (stats._project_status_        *)
(* category against _batch_status_category and build_project_out).         *)
ProjectCardAgrees ==
    LET shown == {batch_status_category(bstate[b]) : b \in Batches} IN
    /\ (project_status_category = "review") <=> ("review" \in shown /\ "error" \notin shown)
    /\ project_status_category = "active" =>
          project_out.active_batches > 0 /\ project_out.awaiting_review_batches = 0

(* The statistics of a data set count each image once in every field,      *)
(* analysed or not and whichever batches are left out, and after an export *)
(* every caption written is that of an item counted as approved            *)
(* (dataset_stats.compute_project_stats, exporter.export_batch).           *)
DatasetAddsUp ==
    LET s == project_stats IN
    /\ Sum(s.fields) = s.total /\ Sum(s.clothing) = s.total
    /\ Sum(s.per_batch) = s.total
    /\ s.approved >= Cardinality(UNION {Exportable(b) : b \in Batches})

=============================================================================
