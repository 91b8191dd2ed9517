------------------------ MODULE LLMSettings_proofs ------------------------
(***************************************************************************)
(* Proofs about LLMSettings, for any profiles, requests and readers, on a  *)
(* database with a single writer.  What is proved of LLMProfiles carries   *)
(* over, because every step here is one of LLMProfiles or leaves its       *)
(* variables alone.                                                        *)
(***************************************************************************)
EXTENDS LLMSettings, LLMProfiles_proofs, SequenceTheorems

(* The blocks not edited by hand come from one place: an activation writes *)
(* all of them at once.                                                    *)
OneSource ==
    \A k, l \in Blocks : config[k] # EDITED /\ config[l] # EDITED => config[k] = config[l]

(* And a reader that has not been overtaken has seen no other.             *)
SeenIsCurrent ==
    \A r \in Readers : ~reading[r].overtaken =>
        \A x \in reading[r].got \ {EDITED} : \A k \in Blocks :
            config[k] = x \/ config[k] = EDITED

Positions == \A r \in Readers : reading[r].next \in Nat \ {0}

RInv == IInv /\ SettingsTypeOK /\ OneSource /\ SeenIsCurrent /\ OneProfileRead /\ Positions

LEMMA PlansRead == \A plan \in Plans : plan \in Seq(Blocks)
<1> DEFINE e(s) == get_effective_llm_for_step(s)
<1>1. \A s \in DOMAIN StepBlock : e(s) \in Seq(Blocks)
  BY DEF get_effective_llm_for_step, StepBlock, Blocks
<1>2. {"analyst", "normalizer", "checker"} = DOMAIN StepBlock
  BY DEF StepBlock
<1>3. (e("analyst") \o e("normalizer")) \o e("checker") \in Seq(Blocks)
  BY <1>1, <1>2, ConcatProperties
<1>4. snapshot_current_llm \in Seq(Blocks)
  BY DEF snapshot_current_llm, Blocks
<1> QED BY <1>1, <1>3, <1>4 DEF Plans

LEMMA IsReading ==
    ASSUME NEW plan \in Plans, NEW n \in Nat, NEW g \in SUBSET Origin, NEW o \in BOOLEAN
    PROVE  [plan |-> plan, next |-> n, got |-> g, overtaken |-> o] \in Reading
BY DEF Reading

LEMMA StepOfProfiles == SettingsNext => [Next]_vars
BY DEF SettingsNext, Writes, Starts, Reads, Uses, Stores, Next

LEMMA RInit == SettingsInit => RInv
<1> SUFFICES ASSUME SettingsInit PROVE RInv
  OBVIOUS
<1>1. IInv
  BY InitInvariant DEF SettingsInit
<1>2. \A r \in Readers : reading[r] = NotReading
  BY DEF SettingsInit
<1>3. SettingsTypeOK
  BY <1>1 DEF SettingsTypeOK, SettingsInit, IInv
<1>4. OneSource
  BY DEF SettingsInit, Init, OneSource
<1> QED BY <1>1, <1>2, <1>3, <1>4 DEF RInv, SeenIsCurrent, OneProfileRead, Positions, NotReading, ReadingFor

(* What the steps of LLMProfiles do to the configuration: an activation    *)
(* writes every block, and the others leave a block alone or edit it.      *)
LEMMA ConfigStep ==
    ASSUME RInv, [Next]_vars
    PROVE  \/ \E c \in Clients : CommitActivate(c) /\ \A k \in Blocks : config'[k] = req[c].profile
           \/ \A k \in Blocks : config'[k] = config[k] \/ config'[k] = EDITED
<1>1. CASE \E c \in Clients : CommitActivate(c)
  <2>1. PICK c \in Clients : CommitActivate(c)
    BY <1>1
  <2>2. \A k \in Blocks : config'[k] = req[c].profile
    BY <2>1 DEF CommitActivate, AppliedBlocks, Blocks
  <2> QED BY <2>1, <2>2
<1>2. CASE \E c \in Clients : CommitBlock(c)
  BY <1>2 DEF CommitBlock, RInv, IInv, TypeOK
<1>3. CASE UNCHANGED config
  BY <1>3
<1> QED
  BY <1>1, <1>2, <1>3 DEF Next, Create, ReadProfile, ReadForDelete, ReadBlock, Begin,
     ClearOthers, CommitDelete, RollBack, vars

LEMMA SourceKept ==
    ASSUME RInv, [Next]_vars
    PROVE  OneSource'
BY ConfigStep DEF RInv, OneSource

(* A step that leaves the configuration and one reader alone, or empties   *)
(* it.                                                                     *)
LEMMA ReadersKept ==
    ASSUME RInv, IInv', NEW r0 \in Readers, NEW q \in {NotReading} \cup Reading,
           q.next \in Nat \ {0}, q.got = {},
           UNCHANGED config,
           reading' = [reading EXCEPT ![r0] = q]
    PROVE  RInv'
<1>1. \A r \in Readers : reading'[r] = IF r = r0 THEN q ELSE reading[r]
  BY DEF RInv, SettingsTypeOK
<1>2. SettingsTypeOK'
  BY <1>1 DEF RInv, SettingsTypeOK, IInv
<1> QED BY <1>1, <1>2 DEF RInv, OneSource, SeenIsCurrent, OneProfileRead, Positions

LEMMA RNext ==
    ASSUME SingleWriter, RInv, [SettingsNext]_settingsVars
    PROVE  RInv'
<1>0. [Next]_vars
  BY StepOfProfiles DEF settingsVars
<1>1. IInv' /\ OneSource'
  BY <1>0, NextInvariant, SourceKept DEF RInv
<1>2. CASE Writes
  <2> DEFINE activated == \E c \in Clients : CommitActivate(c)
  <2>1. reading' = [r \in Readers |->
                     IF activated /\ reading[r].got # {}
                       THEN [reading[r] EXCEPT !.overtaken = TRUE]
                       ELSE reading[r]]
    BY <1>2 DEF Writes
  <2>2. \A r \in Readers : reading[r] \in Reading \cup {NotReading}
    BY DEF RInv, SettingsTypeOK
  <2>3. \A r \in Readers : reading[r].got # {} => reading[r] \in Reading
    BY <2>2 DEF NotReading, ReadingFor
  <2>4. \A r \in Readers : /\ reading'[r] \in Reading \cup {NotReading}
                           /\ reading'[r].got = reading[r].got
                           /\ reading'[r].next = reading[r].next
                           /\ ~reading'[r].overtaken =>
                                 ~reading[r].overtaken /\ (activated => reading[r].got = {})
    <3> TAKE r \in Readers
    <3>1. CASE activated /\ reading[r].got # {}
      <4>1. reading'[r] = [reading[r] EXCEPT !.overtaken = TRUE] /\ reading[r] \in Reading
        BY <2>1, <2>3, <3>1
      <4> QED BY <4>1 DEF Reading
    <3>2. CASE ~(activated /\ reading[r].got # {})
      <4>1. reading'[r] = reading[r]
        BY <2>1, <3>2
      <4> QED BY <4>1, <2>2, <3>2
    <3> QED BY <3>1, <3>2
  <2>5. SettingsTypeOK'
    BY <1>1, <2>1, <2>4 DEF SettingsTypeOK, IInv
  <2>6. SeenIsCurrent'
    <3> SUFFICES ASSUME NEW r \in Readers, ~reading'[r].overtaken,
                        NEW x \in reading'[r].got \ {EDITED}, NEW k \in Blocks
                 PROVE  config'[k] = x \/ config'[k] = EDITED
      BY DEF SeenIsCurrent
    <3>1. ~reading[r].overtaken /\ x \in reading[r].got /\ ~activated
      BY <2>4
    <3>2. config'[k] = config[k] \/ config'[k] = EDITED
      BY <1>0, <3>1, ConfigStep
    <3>3. config[k] = x \/ config[k] = EDITED
      BY <3>1 DEF RInv, SeenIsCurrent
    <3> QED BY <3>2, <3>3
  <2>7. OneProfileRead' /\ Positions'
    BY <2>4 DEF RInv, OneProfileRead, Positions
  <2> QED BY <1>1, <2>5, <2>6, <2>7 DEF RInv
<1>3. ASSUME NEW r \in Readers, NEW plan \in Plans, Starts(r, plan) PROVE RInv'
  <2> DEFINE q == ReadingFor(plan)
  <2>1. q \in Reading /\ q.next \in Nat \ {0} /\ q.got = {}
    BY DEF ReadingFor, Reading
  <2>2. reading' = [reading EXCEPT ![r] = q] /\ UNCHANGED config
    BY <1>3 DEF Starts, vars
  <2> QED BY <1>1, <2>1, <2>2, ReadersKept
<1>4. ASSUME NEW r \in Readers, Reads(r) PROVE RInv'
  <2> DEFINE q == reading[r]
             k == q.plan[q.next]
  <2>1. q \in Reading /\ q.next \in 1..Len(q.plan)
    <3>1. q \in Reading \cup {NotReading} /\ q.next \in Nat \ {0} /\ q.next <= Len(q.plan)
      BY <1>4 DEF RInv, SettingsTypeOK, Positions, Reads
    <3>2. q # NotReading
      <4>1. NotReading.next = 1 /\ Len(NotReading.plan) = 0
        BY DEF NotReading, ReadingFor
      <4> QED BY <3>1, <4>1
    <3>3. q.plan \in Seq(Blocks)
      BY <3>1, <3>2, PlansRead DEF Reading
    <3> QED BY <3>1, <3>2, <3>3
  <2>2. k \in Blocks
    BY <2>1, PlansRead DEF Reading
  <2>3. config[k] \in Origin /\ UNCHANGED config
    BY <1>4, <2>2 DEF RInv, IInv, TypeOK, Reads, vars
  <2>4. reading'[r] = [q EXCEPT !.next = @ + 1, !.got = @ \cup {config[k]}]
    BY <1>4 DEF Reads, RInv, SettingsTypeOK
  <2>5. /\ reading'[r] \in Reading
        /\ reading'[r].next \in Nat \ {0}
        /\ reading'[r].got = q.got \cup {config[k]}
        /\ reading'[r].overtaken = q.overtaken
    <3>1. /\ q.plan \in Plans /\ q.next \in Nat /\ q.got \subseteq Origin
          /\ q = [plan |-> q.plan, next |-> q.next, got |-> q.got, overtaken |-> q.overtaken]
          /\ q.overtaken \in BOOLEAN
      BY <2>1 DEF Reading
    <3>2. reading'[r] = [plan |-> q.plan, next |-> q.next + 1, got |-> q.got \cup {config[k]},
                         overtaken |-> q.overtaken]
      BY <2>4, <3>1
    <3>3. q.got \cup {config[k]} \in SUBSET Origin /\ q.next + 1 \in Nat \ {0}
      BY <2>1, <2>3, <3>1
    <3>4. reading'[r] \in Reading
      BY <3>1, <3>2, <3>3, IsReading
    <3> QED BY <3>2, <3>3, <3>4
  <2>6. \A s \in Readers : s # r => reading'[s] = reading[s]
    BY <1>4 DEF Reads, RInv, SettingsTypeOK
  <2>7. SettingsTypeOK'
    <3>1. reading' = [s \in Readers |-> reading'[s]]
      BY <1>4 DEF Reads, RInv, SettingsTypeOK
    <3>2. \A s \in Readers : reading'[s] \in Reading \cup {NotReading}
      BY <2>5, <2>6 DEF RInv, SettingsTypeOK
    <3> QED BY <1>1, <3>1, <3>2 DEF SettingsTypeOK, IInv
  <2>8. ~q.overtaken => \A x \in (q.got \cup {config[k]}) \ {EDITED} : \A l \in Blocks :
                           config[l] = x \/ config[l] = EDITED
    BY <2>2 DEF RInv, SeenIsCurrent, OneSource
  <2>9. SeenIsCurrent'
    BY <2>3, <2>5, <2>6, <2>8 DEF RInv, SeenIsCurrent
  <2>10. OneProfileRead'
    <3>1. ~q.overtaken => \A x, y \in (q.got \cup {config[k]}) \ {EDITED} : x = y
      BY <2>2 DEF RInv, SeenIsCurrent, OneProfileRead
    <3> QED BY <2>5, <2>6, <3>1 DEF RInv, OneProfileRead
  <2>11. Positions'
    BY <2>5, <2>6 DEF RInv, Positions
  <2> QED BY <1>1, <2>7, <2>9, <2>10, <2>11 DEF RInv
<1>5. ASSUME NEW r \in Readers, Ends(r), UNCHANGED config PROVE RInv'
  <2>1. NotReading.next \in Nat \ {0} /\ NotReading.got = {}
    BY DEF NotReading, ReadingFor
  <2> QED BY <1>1, <1>5, <2>1, ReadersKept DEF Ends
<1>6. ASSUME NEW r \in Readers, Uses(r) PROVE RInv'
  BY <1>5, <1>6 DEF Uses, vars
<1>7. ASSUME NEW r \in Readers, NEW c \in Clients, NEW p \in Profiles, Stores(r, c, p)
      PROVE  RInv'
  BY <1>5, <1>7 DEF Stores, Create
<1>8. CASE UNCHANGED settingsVars
  BY <1>1, <1>8 DEF settingsVars, vars, RInv, SettingsTypeOK, IInv, SeenIsCurrent,
     OneProfileRead, Positions
<1> QED BY <1>2, <1>3, <1>4, <1>6, <1>7, <1>8 DEF SettingsNext

(* The requests, the rows, the configuration and what is being read are of *)
(* their types, readers and writers together.                              *)
THEOREM SettingsTyped ==
    ASSUME SingleWriter
    PROVE  SettingsSpec => []SettingsTypeOK
<1>1. RInv /\ [SettingsNext]_settingsVars => RInv'
  BY RNext
<1>2. RInv => SettingsTypeOK
  BY DEF RInv
<1> QED BY <1>1, <1>2, RInit, PTL DEF SettingsSpec

(* A reader that no activation overtakes gets the settings of one profile, *)
(* up to edits (get_effective_llm_for_step, snapshot_current_llm).         *)
THEOREM OneProfile ==
    ASSUME SingleWriter
    PROVE  SettingsSpec => []OneProfileRead
<1>1. RInv /\ [SettingsNext]_settingsVars => RInv'
  BY RNext
<1>2. RInv => OneProfileRead
  BY DEF RInv
<1> QED BY <1>1, <1>2, RInit, PTL DEF SettingsSpec

=============================================================================
