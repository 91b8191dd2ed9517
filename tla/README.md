# caption_agent: specification, model checking and proofs

caption_agent is a server that turns folders of images into training captions:
a *project* has *batches*, a batch has *image items*, and each item is taken
through a pipeline of LLM calls and rule checks until a person reviews it and
the accepted captions are written next to the images. This directory holds TLA+
modules translated from the source, configurations that check them on small
instances with TLC, and proofs checked by TLAPS. `PROJECT.json` records, for
every definition, the lines it stands for.

## 1. The system

| Part (`src/caption_agent/`) | State it keeps | Operations | Model |
|---|---|---|---|
| `lifecycle/` | none: two transition tables | `is_valid_batch_transition`, `is_valid_item_transition` | `Lifecycle` |
| `main.py` `_processing_loop`, `orchestration/batch_processor.py` `run_batch` | the batch in hand, the items it selected, a count of network failures; `Batch.state`, `consecutive_failure_counter` | dequeue, scan, select, pause check, one run per item, thresholds, `_transition_batch` | `Orchestrator` |
| `orchestration/queue.py` | in-memory FIFO of batch ids | `put_nowait`, `get`, `recover_and_load` | `Orchestrator` |
| `orchestration/scheduler.py` | `Batch.schedule_at` | `_tick`, `scheduler_loop` | `Orchestrator` |
| `api/batches.py` | batch and item rows | create, queue, pause, resume, abort, export, delete, scan | `Orchestrator`; export in detail: `ReviewExport` |
| `api/projects.py` | project rows | delete, with everything in the project | `Orchestrator` |
| `api/items.py` | item rows: state, captions, warnings, decision | decide, mass decide, re-queue of the batch, save caption | `Orchestrator`, `ItemPipeline`, `ReviewExport` |
| `pipeline/exporter.py` | caption files | export of the approved items | `ReviewExport` |
| `batch_processor.py` `_process_item`, `_run_normalizer_loop`; `pipeline/` | item state, caption, warnings, error fields | context, analyst, normalizer, rule check, LLM check, retries | `ItemPipeline` |
| `pipeline/rule_checker.py`, `schemas/policy.py` | none: patterns and a table of skipped checks | `check` | `RuleChecker` |
| `llm/client.py`, `_run_llm_step` | tries and retries of one step | `_post`, `_post_with_retry`, the except clauses around it | `LLMStep` |
| `api/llm_profiles.py`, `config/manager.py`, `api/config.py` | profiles, four configuration blocks | create, activate, delete; edit of a block; reading the blocks | `LLMProfiles`, `LLMSettings` |
| `api/stats.py`, `analysis/dataset_stats.py` | none: aggregates over the rows | the figures of a batch, a project, a data set | `Statistics` |
| `api/summary.py`, `analysis/llm_analysis.py`, pages, help, i18n, logs, filesystem, admin, logging, bootstrap | none, or files | rendering and listing | not modelled |

How they interact. A request handler runs in one database session; some
handlers also put the batch's id into the queue. The lane is a single
`asyncio` task that takes an id and runs `run_batch` in a thread; the thread
opens a new session for every read and every write. The scheduler is another
task that moves due batches into the queue. All of them meet in the rows of
`batches` and `image_items`, and none of them locks a row when reading it. At
start-up `recover_and_load` puts batches that a dead process left in `SCANNING`
or `PROCESSING` back to `QUEUED`, and loads the queue, which is lost in a crash.

Ids of projects, batches, items and profiles are never given twice
(`sqlite_autoincrement`), so a stale id meets a missing row and no other. (The
docstring of `serve_image`, `api/items.py:217`, still says the opposite.)

What is hard, and where the models put their effort:

* **read, then write blindly**: every state change validates the row it read
  and commits an UPDATE that asks nothing. Between the two, other actors move;
* **the ORM writes columns, not rows**: a request writes the columns it found
  different from what it wanted, so that two requests, or a request and the
  lane, can each win a part of a row;
* **the queue and the table disagree**: an id is put into the queue before its
  transaction commits, twice, or for a transaction that is rolled back;
* **decisions race the lane**: a person approves, drops, skips, re-queues,
  edits or deletes an item while the pipeline has it;
* **crashes, and exceptions that end a run**, between any two sessions;
* **files outlive transactions**: an export that is rolled back leaves what it
  has written, and two images can share one file;
* **three nested retry loops** (client, step, normalizer), two exception
  classes of which one is a subclass of the other, and two failure counters;
* **lists that must agree**: the states of an item are listed in six places,
  the rules of seven project types in a table, in prompts and in the help;
* **a configuration read block by block** while a profile is activated.

## 2. The modules

`Lifecycle` holds both transition tables and the enumerations, entry by entry.

`Orchestrator` is the core. The database (`bstate`, `istate`, `failCount`)
survives a crash; the process (`up`, `queue`, the lane's `pc`, `cur`, `target`,
`todo`, `net`, `move`, the tick's `due`, the requests `req`) does not. Sessions
are the grain, and a session that reads, validates and then writes is split
between the read and the write: `_transition_batch` is `TransitionRead` and
`TransitionCommit`; `_transition_item`, `_requeue_item` and `_set_item_error`
are a `Step` that reads the row and leaves what it has validated in `move`, and
`WriteMove`, which writes it over whatever is there by then (`ErrorLost` when
the row is gone and the error is all there was to write). A tick is `TickRead`
and `TickCommit`; a request is `Begin...`, then `Enqueue` if it calls
`put_nowait`, then `Commit` or `RollBack`. A request that its checks refuse
changes nothing and has no step. A handler that flushes before it commits holds
the write lock (`locks`), which others wait for or time out on; the export takes
it in a step of its own (`Flush`). `RunRaises` is any exception out of
`run_batch`, at any of its steps: a session the database refuses, settings or a
rule that do not compile. `DeleteProject` deletes any set of batches that makes
up a project, whatever they are doing: `delete_project` asks for no state. An
item has the states `run_batch` distinguishes; the ones the pipeline moves it
through while it has it are one, `IN_FLIGHT`. The auxiliary `stranded` remembers
batches whose run was ended by an exception: `_processing_loop` logs it and the
batch keeps `PROCESSING` until a restart or a person moves it.

`OrchestratorHistory` adds three history variables to `Orchestrator` for promises
that relate a state to what happened since an earlier one: `lateStarts` counts
the items begun since a pause, `requeued` has the items put back since the lane
made its list, `missed` the batches whose entry the lane took between the put
and the commit of one request.

`ItemRun` is the abstract specification between the two: what one run may do
to an item's state, seen from outside, again with reads and writes apart.
`Orchestrator` keeps it for every item (`ItemsKeepContract`), `ItemPipeline`
implements it (`ImplementsItemRun`). So what `Orchestrator` leaves out of an
item's run is what `ItemPipeline` has. `ItemRun` is what the code does, not what
it should do: it lets a run take a skipped item to review, because the table has
that entry (`item_states.py:37`) and the lane asks nothing but the table, and it
lets a write go over a decision that came after the read. Where the documents
disagree is what the run `terminal` shows.

`ItemPipeline` opens up the run of one item. A transition validates the
state it reads (`Valid`) and is written by the next step (`WriteMove`), with
requests in between; a decision, too, is read and committed in two steps, and
writes only the columns it found different, as the ORM does.
Of a caption it keeps who wrote it and which codes `rule_checker.check` finds.
The limit of attempts is any integer, as `PATCH /api/config/retry` allows.

`LLMStep` opens up one LLM step: the three tries of `_run_llm_step` around the
retries of `LLMClient._post_with_retry`, with the exception on its way up
(`exc`) and the except clauses in their order; a commit the database refuses
ends in the last of them, as a permanent error. It is shown to implement the
action `Analyst` of `ItemPipeline` (`ImplementsAnalyst`).

`ReviewExport` follows the columns of the items (`state`, `normalized`, `final`,
`analysed`) from review to the caption files. A state column holds a
`WrittenState`: `GAP_FILLING`, `REGENERATING`, `EXPORTING` and `DONE` are item
states of the tables that nothing in the program assigns to an item. A request keeps the rows it has
read and the rows it wants; `Merge` writes the difference. `BeginExport` is the export up to
its checks, `Export` what happens from the flush on, when it holds the write
lock; `ExportFails` is any point at which a file cannot be written, and the
commit that fails after the last of them. `Path` maps items to files and need
not be injective. The lane is there as far as it writes these columns or moves
the batches: the transitions to `SCANNING` and `PROCESSING`, the selection of
the items and the transitions of each are steps of their own, read before they
are written (`move`).

`Statistics` extends `ReviewExport` with the functions that count its rows.

`RuleChecker` has `check` as a function of a setup (type, source, policy,
analysis) and of what the patterns see of a caption, and the loop that hands
the findings back. Some parts of a caption are texts that nobody chooses - the
trigger token, the prescribed setting - and bring wordings of their own.
`Heeding` and `Drafts` describe the language model and are external.

`LLMProfiles` is separate from the rest: activation of a profile issues an
UPDATE that clears the others, copies four configuration blocks and sets its own
flag, in one transaction; other activations, deletions and edits overlap.
Whether two transactions can write at a time is a parameter, `SingleWriter`:
true of SQLite, the default, and not of PostgreSQL, which is an extra.
`LLMSettings` extends it with the sessions that read the blocks one at a time: a
batch's run, a connection test, a profile made of the configuration as it is.

`MC...` modules hold values of constants and start states. Proofs are in modules
of their own, each extending what it is about: `Orchestrator_proofs` (with the
history properties), `ItemPipeline_proofs`, `LLMStep_proofs`,
`LLMProfiles_proofs`, `LLMSettings_proofs`, `ReviewExport_proofs`,
`Statistics_proofs` (which uses the former) and `RuleChecker_proofs`.

## 3. What the runs check

Runs that pass:

| Run | Question | Instance |
|---|---|---|
| `lane` | `TypeOK`, `LanePhase`, `LaneExclusive` (the inductive invariant); the lane changes an approved or dropped item only by a write validated before the decision (`DecisionSticks`); every item is treated as `ItemRun` says; after a pause the lane begins at most one more item (`PauseStopsLane`); an item left behind in a batch under review was put back after the selection (`NoItemForgotten`) | 2 batches, the first of two items, in one project, thresholds 1 and 2, one client with 2 requests, 1 crash |
| `queue` | a `QUEUED` batch of a server at rest is in the queue, unless an exception ended its run or its entry was taken before the commit (`QueuedIsEnqueued`); every run ends, every batch settles with the same two exceptions, every schedule is kept, under fairness | 2 batches, the first of one item, 2 requests, 1 crash |
| `pipeline` | warnings shown to the reviewer are those of the caption shown (`ReviewedIsChecked`); the error shown is current (`ErrorIsCurrent`); refinement of `ItemRun`; the nested loops end (`ItemRunEnds`) | 2 runs of the item, 1 normalizer retry, 2 requests |
| `llm_step` | what a step costs (`Budget`), that its result fits the answers it got, that a refusal is not repeated, refinement of `Analyst`, termination | 2 client retries, every sequence of answers |
| `profiles` | at most one profile is active, the configuration is its, and who reads the configuration gets the settings of one profile unless an activation is committed meanwhile (`OneProfileRead`) | 3 profiles, 2 overlapping requests, 5 in all, one reader, single writer |
| `review` | what stands in a file was accepted (`ExportedWasAccepted`); the files of a finished batch are those of its rows (`DoneFilesCurrent`); an approved item has the caption its approval locked in (`ApprovalLocksCaption`); every item is in exactly one figure (`FiguresAddUp`); a batch looks finished exactly when the export accepts it (`CardTellsExportable`); the project's card agrees with its batches'; the data set counts each image once per field | 2 batches, 3 items, 2 files of which one is shared by both batches, 2 clients, 2 requests |
| `rules` | following the feedback gives a caption that passes (`FeedbackSuffices`) | all types, sources, policies and analyses; first drafts with at most 2 defects; clean and unclean trigger tokens and settings |

Runs that end in a counterexample; each states what the repository says of itself:

| Run | The repository says | What the code does |
|---|---|---|
| `settled` | `batch_processor.py:11`: a batch comes up for review after all its items reached a terminal or review state | the loop visits the items it selected and does not look again; one re-queued since stays `QUEUED`, and nothing will run it |
| `done` | `batch_states.py:21`: `DONE` is left only by deletion | the lane's UPDATE is blind: an export committed between its read and its write is overwritten |
| `pause` | `api/batches.py:340`: the processor will stop before the next item | a pause committed while the batch waits or is scanned is overwritten by the move to `PROCESSING` |
| `terminal` | help, `pipeline_image_lifecycle.md:48`: dropped and skipped are terminal; `item_states.py:36`: a skip is sticky until the next review session | a decision committed between the read and the write of a transition is overwritten, and the item goes on through the pipeline; a skip decided at any time while the lane holds the item is taken back when its run ends, since `SKIPPED` to `AWAITING_REVIEW` is in the table |
| `finished` | `api/batches.py:385`: no batch moves to `DONE` with unreviewed items left behind | the check and the flush are apart, with no lock: a `REGENERATE` committed between them is in the `DONE` batch |

**Start states.** `Orchestrator` begins with an empty database (`Init`); the
theorems are about that. The runs begin in `StartOnQueued`: the server is about
to be started on a database that already has queued batches. Those states are
reachable by `Spec` with more requests, and starting there leaves the requests
of an instance for what matters. A batch that is yet to be created is among
the start states, so creation is exercised as well. `review` and `finished`
likewise begin with both batches under review (`StartUnderReview`), one item
of which has just come up, or has failed, or is back in the queue with the
caption of an earlier approval, or is approved; `Spec` gets there with five
requests.

**Bounds.** Requests, crashes and runs are counted in guards. They are small
because the hazards need few: the counterexamples above take one or two
requests, each race here is between the lane and one other actor, and a second
crash meets the same states as the first. Two batches show that the lane keeps
them apart; threshold 1 lets one failure pause or halt a batch, threshold 2
makes the counters count. `MaxQueue` stops only ticks, never a request. Three
profiles and two clients let two activations meet while a third profile is
active. In `pipeline`, two runs are what a stale column takes, one left by the
first and met by the second; two requests are what every exemption of its
properties takes, `overtaken` included. `MaxClientRetries = 2` makes the last
retry differ from the first; the theorems hold for every integer. In `review`,
two requests by two clients are a decision and one that races it, a decision and
an export, or two exports over the same folder; the items that begin approved, or
back in the queue, stand for what earlier requests have left.
Two defects in a draft let one rule's repair meet another rule's finding; all
thirteen rules are in every instance.

**Fairness.** `WF(Lane)`: every LLM request has a timeout and bounded retries,
every loop is bounded. `WF` of a handler's end: the session commits or rolls
back. `WF` of the tick's read and end: the scheduler polls for ever, and a
`schedule_at` arrives. `WF(Restart)`: somebody starts the server again; this is
the one assumption that is not about the code. Nothing is assumed of requests:
none need ever come. `WF(Pipeline)` and `WF(Step)` are the same claims one level
down. One strong fairness is used: `Orchestrator` has the transitions inside the
run of an item as an action that can be repeated (`Advance`), and `SF(EndItem)`
says that a run which could end again and again does. `ItemPipeline` has the
loops this stands for, with their limits, and the run `pipeline` shows under
weak fairness alone that they end.

**Deadlock.** All configurations switch the deadlock check off, because all
these systems may stop: a server with an empty queue waits for requests, and
requests are bounded; an item's run or an LLM step is over; the requests on
profiles or on captions are used up; a caption has been checked and passes. That
no run gets stuck in the middle is checked as liveness: `RunEnds`,
`ItemRunEnds`, `StepEnds`.

**Exemptions**, which are part of the properties and say what the code
does not promise:

* `stranded` - an exception ended the batch's run;
* `overtaken` (`ItemPipeline`) - a `REGENERATE` clears the warnings of a caption
  it never saw. It has read a row with warnings and no caption, which an earlier
  `REGENERATE` leaves when it is committed while the caption it removes is being
  checked, and a new caption is written before it is committed itself;
* `cut` - the run was cut short between writing the state and clearing the error;
* `raced` - a decision was written in part (`LosesColumn`): a column it sets was
  as it wanted when it read the row, another request set it in between, and the
  ORM saw nothing to write. It is the caption for an ACCEPT, and the state for a
  REGENERATE that clears a caption;
* `missed` - the lane took the entry of a batch between the put and the commit
  of one request, and the batch has had no other since: it is `QUEUED` and waits
  for a restart, though `create_batch` calls `put_nowait` lest batches "stay QUEUED
  in DB forever" (`api/batches.py:115`);
* `touched` - the item was written after the export;
* `overtaken` (`LLMSettings`) - an activation was committed while the blocks
  were being read;
* texts under which no caption can pass: a trigger token that reads as a
  forbidden word, a prescribed setting that names its light.

Every property of a passing run has a mutant: a definition named `Bug_...`
beside the one it distorts, under which the property fails.

**Other things the models make visible**, of which no run makes a property:

* A failing LLM checker counts twice towards the threshold that halts a batch,
  in `_run_normalizer_loop` (`batch_processor.py:623`) and in `_process_item`
  (`:355`); the help speaks of a "number of consecutive batch errors"
  (`ref_llm_settings.md:48`). `recorded <= 1` fails in `ItemPipeline`.
* `SLOT_MISSING` is found for pose, where the help does not list it
  (`pipeline_rule_checker.md:38`, `:41`): document and code disagree, and
  `CodesOfTypes` says that it is in nothing else.
* A garment's caption is refused without framing and view, which the prompt of its
  type forbids (`normalizer_system_clothing.txt:91`), and creature, pose and object
  meet `SLOT_MISSING` likewise; the help has such checks "only for LoRA types where
  those elements are required" (`pipeline_rule_checker.md:15`). `Obedient` is such a
  caption and one of the drafts of `rules`.
* `delete_profile` refuses by the `is_active` it has read (`llm_profiles.py:139`,
  "Returns 409 if the profile is currently active"): an activation committed before
  the `DELETE` goes with it (`CommitDelete`).
* `activate_profile` on a profile it has read as active, and that another activation
  has cleared since, puts the settings in place and marks nothing
  (`llm_profiles.py:176`; `CommitActivate` with `wasActive`): no profile is active.
* `RULE_CHECK` to `LLM_PASS_CHECK` is not in the item table (`item_states.py:20`):
  the move is refused and logged, and the item stays in `RULE_CHECK` while the
  LLM checker works on it, though the help draws the arrow.
* `LLMValidationError` is a subclass of `LLMTransientError`, so the client's own
  retry loop repeats a malformed answer's request unchanged before the step's
  loop raises the temperature (`client.py:42`, `:173`).
* With `normalizer_max_self_retries` below zero an item is reported as done and
  left in `ANALYZING`; with `MaxRetries = -1` TLC finds `ImplementsItemRun`
  violated. The theorems therefore assume a natural number.
* The export accepts `DONE` at its first check and refuses it at its second
  (`batches.py:379`, `DONE` to `EXPORTING` is not in the table), so nothing is
  re-exported, which the help offers (`pipeline_export.md:21`).
* A failed export leaves files behind; when their items are dropped afterwards,
  nothing removes them. Two exports that overlap, of which the second fails,
  can leave a file of a `DONE` batch in pieces (`Torn`).
* A caption saved on an approved item is not the one exported: `save_caption`
  writes `normalized_caption`, `final_caption` is what the approval locked in.
* A `REGENERATE` on an item of a `DONE` batch leaves it `QUEUED` for good.
* `mass_decide` with a `state_filter` takes decisions about items in flight.
* `SOURCE_REF_PATTERN_VIOLATION` can be reported twice for one caption.
* `run_batch` reads the main settings block three times, once per step, and
  each read is its own; an override that names an address and inherits the key
  can meet the main block of another profile.

## 4. What is proved

For every value of the constants that meets the named assumptions.

`Orchestrator_proofs`. `Typed` (`TypeOK` with two facts about `pc`) is inductive;
`TypeCorrect` follows. `LaneExclusive` alone is not inductive: that a batch
does not come out of `_transition_batch` busy and abandoned depends on what
states it can be in when the lane reads it. `LanePhase` says so for each stage
of a run: before the first transition the batch is busy only if it was stranded,
after the transition to `PROCESSING` it is never `SCANNING`. `IInv`, the two
together, is inductive given `TypeOK`. The proof has one step per action of the
lane; requests, ticks and restarts are treated together, because none of them
writes `SCANNING` or `PROCESSING` and none moves `pc`. `OneBatchAtATime` follows
from `LaneExclusive`.

`ContractKept` shows that every step is, for every item, a step of `ItemRun`. It
needs two invariants. `RequestOK`: a request in flight carries item states a
handler writes, for rows that exist or are new as its operation demands.
`MoveInv`: a pending write was validated from a state its transition is open to,
never from an approved or dropped one, and only while the run has an item.
`DecisionsStick` follows from `MoveInv`: the one step of the lane that changes
an item is `WriteMove`, so an approved or dropped item is changed only by a
write whose transition had read something else.

The history properties are about `HistorySpec`. `PauseStops`: `PauseStopsLane`
becomes inductive with what a late start means (`PauseInv`): the batch is still
paused, and the lane has no further item of it in hand; the lemma
`ItemIsChecked` says that the lane comes to have one only from a read that was not
`PAUSED`. `NothingForgotten`: that nothing is forgotten when a batch comes up for
review depends on the list the run has worked off. `OnList`: the list is of the
run's batch, and not empty while the lane is at an item, so that the item in hand,
its least, is on it (`LeastOf`: a non-empty finite set of numbers has a least, by
the well-foundedness of inclusion on finite sets). `Snapshot` says at each
step what the run owes: an item of its batch that needs processing is on the list
or has been put back since the list was made, and the list is empty on the way
to `AWAITING_REVIEW`. `ItemGiven` says what the item in hand can have become
once the run has a result for it.

`QueuedAreEnqueued` is about the queue as it is, with the put before the commit,
and assumes nothing of fairness. `Waits(b)`: `b` is in the queue, or its entry was
taken too early. `QueueInv`: a request past `put_nowait` that will write `QUEUED`,
and every due batch of a tick, waits; a `QUEUED` batch that does not is the one
the lane has in hand before the first transition, or was stranded. Lemmas on the
queue (`QueueAppends`, `QueueGrows`, `QueueShrinks`, `InOrderIsAll`) say what stays
in it; the case that needs `missed` is `DequeueKeepsQueueInv`.

`ItemPipeline_proofs`, assuming `MaxRetries \in Nat`. The inductive invariant
`IInv` adds to `TypeOK` and `ErrorIsCurrent`. `Where` says which states the item
can be in at each step of the run, as far as racing writes leave anything to say;
`Pending` says what a pending write was validated for. `Checked` says what the
checks have found as far as they have come: while the warnings are being saved
the feedback is what the caption breaks, afterwards the warnings of the row are,
unless a decision in flight has read an older row (`overtaken`) or a person has
replaced the caption. `ReviewedIsChecked` is its last line. `ItemRunImplemented`
maps each step to a step of `ItemRun` or to a stutter: the transitions to their
reads, `WriteMove` to the write, all else to nothing.

`LLMStep_proofs`. `Count` bounds the requests sent by the tries and retries
counted, `Control` relates the exception, the last answer and the counters; with
`TypeOK` they are inductive. `BudgetKept` and `ResultFits` follow for every
`max_retries`, negative ones included; `RefusalStands` is an action property.
`AnalystImplemented` maps every step to a stutter or to `Analyst` or `Delete`.

`LLMProfiles_proofs`. Assuming `SingleWriter`: at most one transaction is open,
and what it cleared is, until it commits, every other active profile (`Open`),
because nobody else can write. `OneActive` and `ActiveApplied` follow. The
assumption is needed: with `SingleWriter = FALSE` in `MCProfiles.cfg` TLC finds
two activations that each clear what they see and both set their flag.

`LLMSettings_proofs`, assuming `SingleWriter` too, builds on the invariant of
`LLMProfiles`, since every step is one of its steps or leaves its variables
alone. `OneSource`: at any moment all blocks that were not edited come from one
profile, because an activation writes all four. `SeenIsCurrent`: a reader who has
not been overtaken has read nothing but that or edits. `OneProfile` follows.

`ReviewExport_proofs`. With `TypeOK`, two parts make the properties inductive.
`Requests`: a request in flight wants what its operation may want of the rows it
has read, whatever those have become (`Sound`). `FinalAccepted`: a final caption
was accepted for its item; `ExportedWasAccepted` follows when an export writes
it. The others are inductive beside them: `touched` records the writes that end
the correspondence of a row and its file, `raced` the decisions written in part. Steps are sorted once (`Kinds`): those that
write nothing the properties are about, those by which the lane writes a row,
and the ends of requests. Each property then has one lemma with these cases.

`Statistics_proofs`, assuming finitely many items and batches
(`FiniteAssumption`). `PartsAddUp`: if a finite set is cut into disjoint parts
that cover it, the cardinalities of the parts add up to its own; the proof
numbers the elements by part and number within the part. `FiguresComplete`
and `DatasetComplete` are instances: the figures share no state and have every
`WrittenState` (`TypeOK` of `ReviewExport`), the buckets of a field are the inverse
images of its values. `CardTells` needs besides that a rounded percentage is
100 only when nothing is left (`FullPercentage`). `ProjectCard` and
`DatasetComplete` hold of every assignment of states, reachable or not.

`RuleChecker_proofs`, for any texts. `Meaning` brings the rules into one form,
unwanted readings and missing parts; `HeedingPasses` is the core: a rewrite that
heeds what `check` found leaves only unfixable codes, if some caption passes at
all. `Tracks` says that what was found is what `check` finds in this caption or in
the one it was rewritten from. `FeedbackIsEnough` follows.
`CodesOfTypes` needs for each code and type that is not in the skip list a setup
and a caption for which the code is raised; the other direction is `Documented`,
a look through both tables.

**What the attempts to prove turned up.** `ApprovalLocksCaption` was false in the
form that exempted only an ACCEPT with nothing to write: after six requests, more than
the instance has, a REGENERATE that reads a `QUEUED` item writes the caption it
clears and not the state, while an ACCEPT has set both; `raced` now has both
kinds, and the start states lead there. The `CASE` that was
`project_status_category` had overlapping guards, of which TLC takes the first
and TLA+ any; it is an `IF` chain, as in the code. `FiguresAddUp` does not hold
for rows of any `ItemState`, since `GAP_FILLING` and `EXPORTING` are in no
figure; `TypeOK` now says which states are written.

**Only model-checked**: liveness (`RunEnds`, `BatchSettles`, `ScheduledIsQueued`,
`ItemRunEnds`, `StepEnds`), since temporal reasoning under fairness and
`ENABLED` is out of the prover's reach. Every other property of a passing run is
stated by a theorem. The runs that end in a counterexample have none to state.

## 5. What is not modelled

* The content of captions, prompts, analysis results and files; which words a
  pattern matches (`RuleChecker` has whether it does); the values of settings,
  except where a profile copies them. Environment variables override a key
  whatever the database has.
* Listing, server summaries, pages, help, logs: they read committed rows and
  change none. `update_project` and `update_profile` change columns no modelled
  decision reads; overwriting the snapshot of the active profile changes the
  configuration only when it is activated again. `update_batch` is refused in the
  busy states and writes two columns that are read:
  `consecutive_failure_threshold_override` (`batch_processor.py:203`, `:922`), for
  which `Threshold` gives a batch a set of values, any of which may be met at each
  reading; and `schedule_at`, where a scheduled batch comes due at any time. Its
  third, `normalizer_max_retries_override`, is read by nothing: the lane takes the
  limit from the settings (`batch_processor.py:345`).
* Figures that are not counts of items by state: times of activity, histories,
  the distribution of warning codes. `Statistics` evaluates each function in
  one state; the code asks one query per batch.
* The counter that `run_batch` keeps of scanned items, log entries, warm-up of
  models: no lifecycle state depends on them.
* Replacing the process from the admin page is `Crash` and `Restart`.

## 6. Plan

Done: `Lifecycle`, `ItemRun`, `Orchestrator` with history, `ItemPipeline`,
`LLMStep`, `LLMProfiles`, `LLMSettings`, `ReviewExport`, `Statistics`,
`RuleChecker`; every invariant, action property and refinement the passing runs
check is proved.

Next:

1. That the overlapping writes `ReviewExport` and `ItemPipeline` each model are
   the same ones: `CommitReview` of one item maps to a decision of `ItemPipeline`.
2. The converse of `CardTellsExportable` for a project: when all its cards say
   that nothing is left, the export of every batch is accepted.
