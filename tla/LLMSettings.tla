---------------------------- MODULE LLMSettings ----------------------------
(***************************************************************************)
(* Who reads the LLM configuration while LLMProfiles writes it: run_batch, *)
(* which makes the settings of its three clients, a connection test of one *)
(* step, and a new profile made of the configuration as it is              *)
(* (batch_processor.py, config/manager.py, api/config.py, api/             *)
(* llm_profiles.py).                                                       *)
(*                                                                         *)
(* Grain.  Each block is read by a SELECT of its own, and a SELECT opens   *)
(* no transaction (sqlite3's way of handling transactions): others commit  *)
(* between two of them.  Nothing is cached, the main block is read again   *)
(* for each step.  Merging takes each field of a client from one of the    *)
(* two blocks, so that of the result only their origins matter.            *)
(***************************************************************************)
EXTENDS LLMProfiles, Sequences

CONSTANT Readers    \* sessions that read the configuration

VARIABLE reading    \* reading[r]: what reader r is about and has read

settingsVars == <<vars, reading>>

-----------------------------------------------------------------------------
StepBlock == [analyst |-> "llm_analyst", normalizer |-> "llm_normalizer",
              checker |-> "llm_checker"]

\* get_effective_llm_for_step: the main block first, then the step's own.
get_effective_llm_for_step(step) == <<"llm", StepBlock[step]>>

snapshot_current_llm == <<"llm", "llm_analyst", "llm_normalizer", "llm_checker">>

\* What run_batch, llm/test?step= and create_profile without a snapshot read.
Plans ==
    {get_effective_llm_for_step("analyst")
       \o get_effective_llm_for_step("normalizer")
       \o get_effective_llm_for_step("checker")}
    \cup {get_effective_llm_for_step(step) : step \in DOMAIN StepBlock}
    \cup {snapshot_current_llm}

\* plan: the blocks to read; next: the position of the next one; got: where
\* those read so far came from; overtaken: an activation has been committed
\* in between.
Reading == [plan : Plans, next : Nat, got : SUBSET Origin, overtaken : BOOLEAN]
ReadingFor(plan) == [plan |-> plan, next |-> 1, got |-> {}, overtaken |-> FALSE]
NotReading == ReadingFor(<<>>)

SettingsTypeOK == TypeOK /\ reading \in [Readers -> Reading \cup {NotReading}]

SettingsInit == Init /\ reading = [r \in Readers |-> NotReading]

-----------------------------------------------------------------------------
Starts(r, plan) ==
    /\ reading[r] = NotReading
    /\ reading' = [reading EXCEPT ![r] = ReadingFor(plan)]
    /\ UNCHANGED vars

Reads(r) ==
    LET q == reading[r] IN
    /\ q.next <= Len(q.plan)
    /\ reading' = [reading EXCEPT ![r].next = @ + 1,
                                  ![r].got = @ \cup {config[q.plan[q.next]]}]
    /\ UNCHANGED vars

Finished(r) == reading[r] # NotReading /\ reading[r].next > Len(reading[r].plan)

Ends(r) == reading' = [reading EXCEPT ![r] = NotReading]

\* The clients are made, the test is sent.
Uses(r) == Finished(r) /\ Ends(r) /\ UNCHANGED vars

\* create_profile without a snapshot: what was read is stored as a profile.
Stores(r, c, p) ==
    /\ Finished(r) /\ reading[r].plan = snapshot_current_llm
    /\ Create(c, p) /\ Ends(r)

\* A step of LLMProfiles; readers in the middle of their plan are overtaken
\* if it is the commit of an activation.
Writes ==
    /\ Next
    /\ LET activated == \E c \in Clients : CommitActivate(c) IN
       reading' = [r \in Readers |->
                     IF activated /\ reading[r].got # {}
                       THEN [reading[r] EXCEPT !.overtaken = TRUE]
                       ELSE reading[r]]

SettingsNext ==
    \/ Writes
    \/ \E r \in Readers :
          \/ \E plan \in Plans : Starts(r, plan)
          \/ Reads(r) \/ Uses(r)
          \/ \E c \in Clients, p \in Profiles : Stores(r, c, p)

SettingsSpec == SettingsInit /\ [][SettingsNext]_settingsVars

-----------------------------------------------------------------------------
(* Properties.                                                             *)

(* A batch runs with the settings of one profile, a connection test tries  *)
(* and a new profile keeps those of one, up to what was edited by hand: a  *)
(* key never goes to the address of another profile.  Only an activation   *)
(* committed in the middle of the reading mixes two                        *)
(* (ConfigManager.apply_llm_snapshot, "After this call, the pipeline's     *)
(* next get_effective_llm_for_step() will use the profile's values").      *)
OneProfileRead ==
    \A r \in Readers : ~reading[r].overtaken =>
        \A x, y \in reading[r].got \ {EDITED} : x = y

=============================================================================
