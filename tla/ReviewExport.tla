---------------------------- MODULE ReviewExport ----------------------------
(***************************************************************************)
(* From review to the caption files: what decisions, edits and the lane    *)
(* write into the columns of the items of a batch (api/items.py), and what *)
(* the export makes of them in the folder of the images (api/batches.py    *)
(* export_batch_endpoint, pipeline/exporter.py).                           *)
(*                                                                         *)
(* Grain.  A request reads its rows in one step and commits in another,    *)
(* writing the columns it has changed of what it read and no others; so    *)
(* does the lane where it moves a batch or an item.  An export checks in   *)
(* one step and does the rest in another: from its flush on it holds the   *)
(* write lock of SQLite, so that nobody commits between its query and its  *)
(* own commit.  Pausing, failing and deleting batches is Orchestrator's    *)
(* subject, and so are crashes; the retries within an item's steps are     *)
(* ItemPipeline's.                                                         *)
(***************************************************************************)
EXTENDS Lifecycle, Naturals, FiniteSets

CONSTANTS Batches,
          Items,
          Owner,        \* the batch of an item
          Path,         \* _sidecar_path of an item: image_path.with_suffix(".txt")
          Drafts,       \* texts the normalizer writes
          Edits,        \* texts the users write, the empty one excepted
          None,         \* no text, or the empty one
          Torn,         \* what a failed write leaves in a file
          Clients,      \* concurrent HTTP requests
          MaxRequests   \* bound: requests issued in a behaviour

ASSUME OwnerAssumption == Owner \in [Items -> Batches]
ASSUME TextAssumption == None \notin Drafts \cup Edits \cup {Torn} /\ Torn \notin Drafts \cup Edits
ASSUME BoundAssumption == MaxRequests \in Nat

VARIABLES
    \* The database.
    bstate,     \* bstate[b]: the state column of batch b
    row,        \* row[i]: the columns of item i that matter here
    \* The folder.
    file,       \* file[p]: content of the caption file p
    \* The server.
    entries,    \* entries[b]: how often b is in the BatchQueue
    pc, cur, at,\* the lane: its step, its batch, its item
    move,       \* the state the lane has found the item may take
    todo,       \* the items run_batch has still to visit
    req,        \* req[c]: the request c has in flight
    \* History.
    accepted,   \* accepted[i]: the texts ACCEPTed for item i
    locked,     \* locked[i]: the text of the last ACCEPT of item i
    raced,      \* items a decision was written to in part (LosesColumn)
    touched,    \* items written since the last export of their batch
    issued

lane == <<pc, cur, at, move, todo>>
history == <<accepted, locked, raced, touched, issued>>
vars == <<bstate, row, file, entries, lane, req, history>>

-----------------------------------------------------------------------------
Paths == {Path[i] : i \in Items}
Captions == Drafts \cup Edits
Text == Captions \cup {None}
ItemsOf(b) == {i \in Items : Owner[i] = b}

\* What the program puts an item in; the other states are in its tables only.
WrittenState == ItemState \ {"GAP_FILLING", "REGENERATING", "EXPORTING", "DONE"}

\* state, normalized_caption, final_caption; whether raw_analyst_output is set.
Row == [state : WrittenState, normalized : Text, final : Text, analysed : BOOLEAN]

NewRow == [state |-> "QUEUED", normalized |-> None, final |-> None,
           analysed |-> FALSE]

DECIDABLE_STATES == {"AWAITING_REVIEW", "APPROVED", "DROPPED", "SKIPPED", "ERROR"}

PENDING_EXPORT_STATES ==
    {"QUEUED", "READING_CONTEXT", "ANALYZING", "NORMALIZING", "RULE_CHECK",
     "LLM_PASS_CHECK", "REGENERATING", "AWAITING_REVIEW"}

Pending(b) == {i \in ItemsOf(b) : row[i].state \in PENDING_EXPORT_STATES}

-----------------------------------------------------------------------------
(* Requests in flight: a review has the rows as read and as they are to be.*)
IsRequest(r) ==
    /\ r.batch \in Batches
    /\ \/ r.op = "export"
       \/ /\ r.op = "review"
          /\ r.requeue \in BOOLEAN /\ r.items \subseteq Items
          /\ r.read \in [r.items -> Row] /\ r.new \in [r.items -> Row]
          /\ r.accept \in BOOLEAN /\ r.text \in [r.items -> Text]

NoReq == [op |-> "none"]

\* The steps of a run that are about its item; those of run_batch itself.
ItemSteps == {"context", "analyst", "analysed", "normalizer", "normalized", "check"}
BatchSteps == {"queued", "scanning", "scanned", "entering", "select", "items", "leaving"}

Moves == {"READING_CONTEXT", "ANALYZING", "NORMALIZING", "RULE_CHECK",
          "AWAITING_REVIEW", "ERROR", "QUEUED"}
NoMove == "NONE"

TypeOK ==
    /\ bstate \in [Batches -> {"QUEUED", "SCANNING", "PROCESSING", "AWAITING_REVIEW", "DONE"}]
    /\ row \in [Items -> Row]
    /\ file \in [Paths -> Text \cup {Torn}]
    /\ entries \in [Batches -> Nat]
    /\ pc \in {"idle"} \cup BatchSteps \cup ItemSteps
    /\ pc # "idle" => cur \in Batches
    /\ move \in Moves \cup {NoMove}
    /\ pc \in ItemSteps \/ move # NoMove => at \in Items
    /\ move # NoMove => pc \in ItemSteps \cup {"items"}
    /\ todo \subseteq Items
    /\ req = [c \in Clients |-> req[c]]
    /\ \A c \in Clients : req[c] = NoReq \/ IsRequest(req[c])
    /\ accepted \in [Items -> SUBSET Text] /\ locked \in [Items -> Text]
    /\ raced \subseteq Items /\ touched \subseteq Items
    /\ issued \in Nat

Init ==
    /\ bstate = [b \in Batches |-> "QUEUED"]
    /\ row = [i \in Items |-> NewRow]
    /\ file = [p \in Paths |-> None]
    /\ entries = [b \in Batches |-> 1]
    /\ pc = "idle" /\ cur = 0 /\ at = 0 /\ move = NoMove /\ todo = {}
    /\ req = [c \in Clients |-> NoReq]
    /\ accepted = [i \in Items |-> {}] /\ locked = [i \in Items |-> None]
    /\ raced = {} /\ touched = {} /\ issued = 0

-----------------------------------------------------------------------------
(* The lane, as far as it touches what is exported.                        *)

At(step) == pc = step /\ move = NoMove

EndRun == pc' = "idle" /\ cur' = 0 /\ at' = 0 /\ todo' = {} /\ UNCHANGED move

\* _transition_batch reads the row and validates the move ...
ReadBatch(from, to, state) ==
    /\ At(from)
    /\ IF is_valid_batch_transition(bstate[cur], state)
         THEN pc' = to /\ UNCHANGED <<cur, at, move, todo>>
         ELSE EndRun
    /\ UNCHANGED <<bstate, row, file, entries, req, history>>

\* ... and commits an UPDATE that asks nothing.
WriteBatch(from, to, state) ==
    /\ pc = from
    /\ bstate' = [bstate EXCEPT ![cur] = state]
    /\ pc' = to
    /\ UNCHANGED <<row, file, entries, cur, at, move, todo, req, history>>

\* The batch is taken from the queue; only one found QUEUED is scanned.
Dequeue(b) ==
    /\ pc = "idle" /\ entries[b] > 0
    /\ entries' = [entries EXCEPT ![b] = @ - 1]
    /\ pc' = IF bstate[b] = "QUEUED" THEN "queued" ELSE "scanned"
    /\ cur' = b
    /\ UNCHANGED <<bstate, row, file, at, move, todo, req, history>>

Scan == ReadBatch("queued", "scanning", "SCANNING") \/ WriteBatch("scanning", "scanned", "SCANNING")

Enter == ReadBatch("scanned", "entering", "PROCESSING") \/ WriteBatch("entering", "select", "PROCESSING")

SelectItems ==
    /\ pc = "select"
    /\ todo' = {i \in ItemsOf(cur) : row[i].state \in ITEM_IN_FLIGHT \cup {"QUEUED"}}
    /\ pc' = "items"
    /\ UNCHANGED <<bstate, row, file, entries, cur, at, move, req, history>>

\* Once the loop is through.
Leave ==
    \/ todo = {} /\ ReadBatch("items", "leaving", "AWAITING_REVIEW")
    \/ /\ pc = "leaving"
       /\ bstate' = [bstate EXCEPT ![cur] = "AWAITING_REVIEW"]
       /\ EndRun
       /\ UNCHANGED <<row, file, entries, req, history>>

\* The item's row is read and the move validated; a move the table does not
\* have leaves the state as it is, and the run goes on.
Valid(i, state) ==
    /\ move' = IF is_valid_item_transition(row[i].state, state) THEN state ELSE NoMove
    /\ UNCHANGED <<bstate, row, file, entries, cur, req, history>>

\* The lane writes row i.
Write(i, r) ==
    /\ row' = [row EXCEPT ![i] = r]
    /\ touched' = IF r = row[i] THEN touched ELSE touched \cup {i}
    /\ UNCHANGED <<bstate, file, entries, cur, at, todo, req, accepted, locked, raced, issued>>

\* The UPDATE: the state column, whatever is in it by now.
WriteMove ==
    /\ move # NoMove
    /\ Write(at, [row[at] EXCEPT !.state = move])
    /\ move' = NoMove
    /\ UNCHANGED pc

\* An item selected is run whatever has been decided about it since.
StartItem(i) ==
    /\ At("items") /\ i \in todo
    /\ Valid(i, "READING_CONTEXT")
    /\ pc' = "context" /\ at' = i /\ todo' = todo \ {i}

EnterStep(from, to, state) ==
    /\ At(from)
    /\ Valid(at, state)
    /\ pc' = to /\ UNCHANGED <<at, todo>>

Analyse ==
    /\ At("analyst")
    /\ Write(at, [row[at] EXCEPT !.analysed = TRUE])
    /\ pc' = "analysed" /\ UNCHANGED move

Normalize ==
    /\ At("normalizer")
    /\ \E t \in Drafts : Write(at, [row[at] EXCEPT !.normalized = t])
    /\ pc' = "normalized" /\ UNCHANGED move

\* The normalizer is given another attempt, or the item comes up for review.
\* LLM_PASS_CHECK is left out: no move of the table leads to it from here.
CheckItem ==
    \/ EnterStep("check", "normalizer", "NORMALIZING")
    \/ EnterStep("check", "items", "AWAITING_REVIEW")

\* A step fails for good, or the network does and the item goes back.
ItemFails ==
    \E step \in {"context", "analyst", "normalizer", "check"} :
        \E state \in IF step = "context" THEN {"ERROR"} ELSE {"ERROR", "QUEUED"} :
            EnterStep(step, "items", state)

RunItem ==
    \/ \E i \in Items : StartItem(i)
    \/ EnterStep("context", "analyst", "ANALYZING") \/ Analyse
    \/ EnterStep("analysed", "normalizer", "NORMALIZING") \/ Normalize
    \/ EnterStep("normalized", "check", "RULE_CHECK") \/ CheckItem
    \/ ItemFails \/ WriteMove

Lane == (\E b \in Batches : Dequeue(b)) \/ Scan \/ Enter \/ SelectItems \/ RunItem \/ Leave

-----------------------------------------------------------------------------
(* Decisions and edits.  A request may bring an empty caption, which does  *)
(* what no caption does; it is left out.                                   *)

\* Bug: the state the table has for it, which no run picks up for itself.
Bug_DecisionToState == [ACCEPT |-> "APPROVED", DROP |-> "DROPPED",
                        SKIP |-> "SKIPPED", REGENERATE |-> "REGENERATING"]

DecisionToState == [ACCEPT |-> "APPROVED", DROP |-> "DROPPED",
                    SKIP |-> "SKIPPED", REGENERATE |-> "QUEUED"]

\* Bug: an item accepted before keeps the caption of then.
Bug_Decided(r, d, t) ==
    LET s == [r EXCEPT !.state = DecisionToState[d]] IN
    CASE d = "ACCEPT" -> [s EXCEPT !.final = IF @ = None THEN t ELSE @]
      [] d = "REGENERATE" -> [s EXCEPT !.normalized = None, !.final = None,
                                       !.analysed = FALSE]
      [] OTHER -> s

\* t: the caption an ACCEPT locks in.
Decided(r, d, t) ==
    LET s == [r EXCEPT !.state = DecisionToState[d]] IN
    CASE d = "ACCEPT" -> [s EXCEPT !.final = t]
      [] d = "REGENERATE" -> [s EXCEPT !.normalized = None, !.final = None,
                                       !.analysed = FALSE]
      [] OTHER -> s

\* _requeue_batch_if_idle.
Requeues(b, d) ==
    /\ d = "REGENERATE"
    /\ bstate[b] \notin {"QUEUED", "PROCESSING"}
    /\ is_valid_batch_transition(bstate[b], "QUEUED")

Free(c) == req[c] = NoReq /\ issued < MaxRequests

Begin(c, r) ==
    /\ Free(c)
    /\ issued' = issued + 1
    /\ req' = [req EXCEPT ![c] = r]
    /\ UNCHANGED <<bstate, row, file, lane, accepted, locked, raced, touched>>

\* The items of S get the decision d, t[i] being the caption of an ACCEPT.
BeginReview(c, b, S, d, t) ==
    /\ S # {}
    /\ Begin(c, [op |-> "review", batch |-> b, requeue |-> Requeues(b, d),
                 items |-> S, read |-> [i \in S |-> row[i]],
                 new |-> [i \in S |-> Decided(row[i], d, t[i])],
                 accept |-> d = "ACCEPT", text |-> t])
    /\ entries' = IF Requeues(b, d) THEN [entries EXCEPT ![b] = @ + 1] ELSE entries

\* decide_item: the request may bring a caption, which may be empty.
DecideItem(c, i, d) ==
    /\ row[i].state \in DECIDABLE_STATES
    /\ \E t \in (IF d = "ACCEPT" THEN Edits \cup {row[i].normalized} ELSE {None}) :
          BeginReview(c, Owner[i], {i}, d, [j \in {i} |-> t])

\* mass_decide: the decidable items of a list, or those in one state,
\* whichever it is.
Selections(b) ==
    (SUBSET {i \in ItemsOf(b) : row[i].state \in DECIDABLE_STATES})
    \cup {{i \in ItemsOf(b) : row[i].state = row[j].state} : j \in ItemsOf(b)}

\* An ACCEPT leaves out the items with warnings unless told otherwise, so
\* that any of those selected can remain.
MassDecide(c, b, d) ==
    \E S \in Selections(b) :
        \E taken \in (IF d = "ACCEPT" THEN SUBSET S ELSE {S}) :
            BeginReview(c, b, taken, d, [i \in taken |-> IF d = "ACCEPT" THEN row[i].normalized ELSE None])

\* Bug: an edit of an approved item goes into the export.
Bug_SaveCaption(c, i, t) ==
    /\ Begin(c, [op |-> "review", batch |-> Owner[i], requeue |-> FALSE,
                 items |-> {i}, read |-> [j \in {i} |-> row[i]],
                 new |-> [j \in {i} |-> [row[i] EXCEPT !.normalized = t, !.final = t]],
                 accept |-> FALSE, text |-> [j \in {i} |-> None]])
    /\ UNCHANGED entries

\* save_caption: in any state, and never the caption that is exported.
SaveCaption(c, i, t) ==
    /\ Begin(c, [op |-> "review", batch |-> Owner[i], requeue |-> FALSE,
                 items |-> {i}, read |-> [j \in {i} |-> row[i]],
                 new |-> [j \in {i} |-> [row[i] EXCEPT !.normalized = t]],
                 accept |-> FALSE, text |-> [j \in {i} |-> None]])
    /\ UNCHANGED entries

\* The ORM writes the columns that differ from what was read.
Merge(now, read, new) ==
    [state |-> IF new.state = read.state THEN now.state ELSE new.state,
     normalized |-> IF new.normalized = read.normalized THEN now.normalized
                                                        ELSE new.normalized,
     final |-> IF new.final = read.final THEN now.final ELSE new.final,
     analysed |-> IF new.analysed = read.analysed THEN now.analysed
                                                  ELSE new.analysed]

\* A decision finds that a column is as it would set it, another request
\* sets the column, and Merge leaves it at that.  The columns that matter are
\* the caption of an ACCEPT, and the state of a REGENERATE that clears one.
LosesColumn(r, i) ==
    IF r.accept
      THEN r.new[i].final = r.read[i].final /\ row[i].final # r.read[i].final
      ELSE /\ r.new[i].final # r.read[i].final
           /\ r.new[i].state = r.read[i].state /\ row[i].state # r.read[i].state

CommitReview(c) ==
    LET r == req[c] IN
    /\ r.op = "review"
    /\ bstate' = IF r.requeue THEN [bstate EXCEPT ![r.batch] = "QUEUED"] ELSE bstate
    /\ row' = [i \in Items |-> IF i \in r.items
                                 THEN Merge(row[i], r.read[i], r.new[i]) ELSE row[i]]
    /\ accepted' = [i \in Items |-> IF i \in r.items /\ r.accept
                                      THEN accepted[i] \cup {r.text[i]}
                                      ELSE accepted[i]]
    /\ locked' = [i \in Items |-> IF i \in r.items /\ r.accept THEN r.text[i]
                                                              ELSE locked[i]]
    /\ raced' = raced \cup {i \in r.items : LosesColumn(r, i)}
    /\ touched' = touched \cup {i \in r.items : row'[i] # row[i]}
    /\ req' = [req EXCEPT ![c] = NoReq]
    /\ UNCHANGED <<file, entries, lane, issued>>

-----------------------------------------------------------------------------
(* The export.                                                             *)

\* export_batch_endpoint up to its flush: nothing of what is checked here is
\* read again.
BeginExport(c, b) ==
    /\ bstate[b] \in {"AWAITING_REVIEW", "DONE"}
    /\ Pending(b) = {}
    /\ is_valid_batch_transition(bstate[b], "EXPORTING")
    /\ Begin(c, [op |-> "export", batch |-> b])
    /\ UNCHANGED entries

Exportable(b) == {i \in ItemsOf(b) : row[i].state = "APPROVED" /\ row[i].final # None}

\* Bug: an approved item without a final caption gets the generated one.
Bug_ExportText(i) == row[i].normalized

ExportText(i) == row[i].final

\* export_batch has written the items of S, in an order nobody states: of
\* those with the same file one comes last.
Written(S, f) ==
    \A p \in Paths :
        LET last == {i \in S : Path[i] = p} IN
        IF last = {} THEN f[p] = file[p]
                     ELSE \E i \in last : f[p] = ExportText(i)

Contents == [Paths -> Text \cup {Torn}]

Export(c) ==
    LET b == req[c].batch IN
    /\ req[c].op = "export"
    /\ \E f \in Contents : Written(Exportable(b), f) /\ file' = f
    /\ bstate' = [bstate EXCEPT ![b] = "DONE"]
    /\ touched' = touched \ ItemsOf(b)
    /\ req' = [req EXCEPT ![c] = NoReq]
    /\ UNCHANGED <<row, entries, lane, accepted, locked, raced, issued>>

\* A file cannot be written: the ones before it have been, itself may be
\* left in pieces.  Or all are there and the commit fails.  In either case
\* the session is rolled back.
ExportFails(c) ==
    LET b == req[c].batch IN
    /\ req[c].op = "export"
    /\ \E S \in SUBSET Exportable(b), f \in Contents :
          /\ Written(S, f)
          /\ file' \in {f} \cup {[f EXCEPT ![Path[i]] = Torn] : i \in Exportable(b) \ S}
    /\ req' = [req EXCEPT ![c] = NoReq]
    /\ UNCHANGED <<bstate, row, entries, lane, history>>

\* A session that cannot commit: an entry it has queued stays.
RollBack(c) ==
    /\ req[c].op # "none"
    /\ req' = [req EXCEPT ![c] = NoReq]
    /\ UNCHANGED <<bstate, row, file, entries, lane, history>>

Arrives(c) ==
    /\ Free(c)
    /\ \/ \E i \in Items :
             \/ \E d \in DOMAIN DecisionToState : DecideItem(c, i, d)
             \/ \E t \in Edits : SaveCaption(c, i, t)
       \/ \E b \in Batches :
             \/ \E d \in DOMAIN DecisionToState : MassDecide(c, b, d)
             \/ BeginExport(c, b)

Handler(c) ==
    \/ Arrives(c)
    \/ CommitReview(c) \/ Export(c) \/ ExportFails(c) \/ RollBack(c)

Next == Lane \/ \E c \in Clients : Handler(c)

Spec == Init /\ [][Next]_vars

-----------------------------------------------------------------------------
(* Properties.                                                             *)

(* Whatever stands in a caption file was accepted, by the user, for an     *)
(* item the file belongs to (docs/help/en/what_is.md:25, "Only after your  *)
(* approval are captions exported") - through retried runs, edits, exports *)
(* that fail half-way and exports of other batches over the same folder.   *)
ExportedWasAccepted ==
    \A p \in Paths : file[p] \in Captions =>
        \E i \in Items : Path[i] = p /\ file[p] \in accepted[i]

(* The files of a finished batch are those of its rows: as long as nobody  *)
(* has written the item since, an approved item whose file is its own has  *)
(* its final caption in it, unless a second export, begun before the first *)
(* one committed, has failed on it.                                        *)
DoneFilesCurrent ==
    \A i \in Items :
        /\ bstate[Owner[i]] = "DONE" /\ i \notin touched
        /\ row[i].state = "APPROVED" /\ row[i].final # None
        /\ \A j \in Items : Path[j] = Path[i] => j = i
        => file[Path[i]] \in {row[i].final, Torn}

(* A batch is not finished with items pending (api/batches.py:385, "Refuse *)
(* to finalize while items are still pending review or in-flight -         *)
(* otherwise the batch would move to DONE with un-reviewed items left      *)
(* behind").                                                               *)
FinishedIsReviewed ==
    [][\A b \in Batches : bstate[b] # "DONE" /\ bstate'[b] = "DONE" => Pending(b)' = {}]_vars

(* The caption an item is exported with is the one its last approval       *)
(* locked in, and only an item accepted without a caption is exported      *)
(* without one, whatever the lane, edits and earlier decisions have        *)
(* written (api/items.py:105, "On accept: lock the final caption") - but   *)
(* for items a decision was written to in part, another having come        *)
(* between what it read and its commit.                                    *)
ApprovalLocksCaption ==
    \A i \in Items \ raced : row[i].state = "APPROVED" => row[i].final = locked[i]

=============================================================================
