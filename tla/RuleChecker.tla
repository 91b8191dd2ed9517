---------------------------- MODULE RuleChecker ----------------------------
(***************************************************************************)
(* The rules a caption is checked against (pipeline/rule_checker.py) and   *)
(* the loop that gives what was found back to the normalizer               *)
(* (batch_processor.py, _run_normalizer_loop).                             *)
(*                                                                         *)
(* Of a caption the model keeps what the patterns of the checker see of    *)
(* it: the wordings it should not have and the parts it should.  Some      *)
(* parts are texts nobody chooses - the trigger token, the setting the     *)
(* policy prescribes, the lighting among the open slots - and bring        *)
(* wordings of their own.  How the normalizer follows the feedback is      *)
(* external; how often it is asked is ItemPipeline's subject.              *)
(***************************************************************************)
EXTENDS Naturals, FiniteSets

CONSTANTS TriggerTexts,   \* wordings a project's trigger token may contain
          SettingTexts,   \* and those of source_ref_required_setting
          MaxDefects      \* bound: wordings and missing parts of a first draft

Flaw == {"age", "style", "negative", "identity", "nude", "lighting", "overspecific"}

\* "slots": seven comma-separated parts; "clothing": a clothing indicator;
\* "setting": source_ref_required_setting.
Part == {"trigger", "framing", "view", "clothing", "slots", "setting"}

LoraType == {"character", "style", "face", "clothing", "creature", "pose", "object"}

Code == {"TRIGGER_MISSING", "AGE_PHRASE", "STYLE_TOKEN", "NEGATIVE_WORDING",
         "ADULT_BRANCH_MISMATCH", "MULTI_CHARACTER", "IDENTITY_OVERCAPTION",
         "NUDE_ON_CROPPED_PORTRAIT", "SOURCE_REF_PATTERN_VIOLATION",
         "FRAMING_INVALID", "VIEW_INVALID", "SLOT_MISSING", "SETTING_OVERSPECIFIC"}

ASSUME TextsAssumption == /\ TriggerTexts \subseteq SUBSET Flaw /\ TriggerTexts # {}
                          /\ SettingTexts \subseteq SUBSET Flaw /\ SettingTexts # {}
ASSUME DefectsAssumption == MaxDefects \in Nat

\* What one item is checked with: the project's type and policy, the batch,
\* and the analyst's findings.
Setup ==
    [type : LoraType,
     source : {"SYNTHETIC", "REFERENCE"},
     identity : BOOLEAN,   \* branch is IDENTITY
     traits : BOOLEAN,     \* identity_trait_patterns is not empty
     phrases : BOOLEAN,    \* setting_overspecific_phrases is not empty
     required : BOOLEAN,   \* source_ref_required_setting is not empty
     trigger : TriggerTexts, setting : SettingTexts,
     adult : BOOLEAN,      \* adult_context
     others : BOOLEAN,     \* other_characters is not empty
     cropped : BOOLEAN]    \* crop is one of _PORTRAIT_CROPS

\* sentinel: the text starts with "MULTI_CHARACTER:".
Caption == [sentinel : BOOLEAN, flaws : SUBSET Flaw, parts : SUBSET Part]

VARIABLES setup, caption, found, step, heeded

vars == <<setup, caption, found, step, heeded>>

TypeOK ==
    /\ setup \in Setup /\ caption \in Caption /\ found \subseteq Code
    /\ step \in {"check", "feedback"} /\ heeded \in BOOLEAN

-----------------------------------------------------------------------------
(* rule_checker.check.                                                     *)

\* What every type but character is spared.
CharacterOnly == {"SOURCE_REF_PATTERN_VIOLATION", "ADULT_BRANCH_MISMATCH"}

\* What types that are not about a person's looks are spared as well.
PersonOnly == CharacterOnly \cup {"AGE_PHRASE", "NUDE_ON_CROPPED_PORTRAIT"}

\* _SKIPPED_CHECKS_BY_TYPE, without the two codes of the LLM checker.
Skipped(type) ==
    CASE type = "character" -> {}
      [] type = "style" -> Code \ {"TRIGGER_MISSING", "NEGATIVE_WORDING", "MULTI_CHARACTER"}
      [] type = "face" -> CharacterOnly \cup {"SLOT_MISSING", "SETTING_OVERSPECIFIC"}
      [] type = "clothing" -> PersonOnly \cup {"IDENTITY_OVERCAPTION"}
      [] type = "creature" -> PersonOnly
      [] type = "pose" -> PersonOnly \cup {"IDENTITY_OVERCAPTION", "SETTING_OVERSPECIFIC"}
      [] type = "object" -> PersonOnly \cup {"IDENTITY_OVERCAPTION", "FRAMING_INVALID", "VIEW_INVALID"}

\* The wordings a part of the caption brings with it.
Brings(s, part) ==
    CASE part = "trigger" -> s.trigger
      [] part = "setting" -> s.setting
      [] part = "slots" -> {"lighting"}
      [] OTHER -> {}

Reads(s, c, flaw) == flaw \in c.flaws \/ \E p \in c.parts : flaw \in Brings(s, p)

Lacks(c, part) == part \notin c.parts

\* Bug: lighting is looked for whatever the source.
Bug_SourceRefPattern(s, c) ==
    \/ s.source = "REFERENCE" /\ s.required /\ Lacks(c, "setting")
    \/ Reads(s, c, "lighting")

SourceRefPattern(s, c) ==
    /\ s.source = "REFERENCE"
    /\ (s.required /\ Lacks(c, "setting")) \/ Reads(s, c, "lighting")

Violates(s, c, code) ==
    CASE code = "TRIGGER_MISSING" -> Lacks(c, "trigger")
      [] code = "AGE_PHRASE" -> Reads(s, c, "age")
      [] code = "STYLE_TOKEN" -> Reads(s, c, "style")
      [] code = "NEGATIVE_WORDING" -> Reads(s, c, "negative")
      [] code = "ADULT_BRANCH_MISMATCH" -> s.adult /\ s.identity
      [] code = "MULTI_CHARACTER" -> s.others
      [] code = "IDENTITY_OVERCAPTION" -> s.traits /\ Reads(s, c, "identity")
      [] code = "NUDE_ON_CROPPED_PORTRAIT" -> s.cropped /\ s.identity /\ Reads(s, c, "nude")
      [] code = "SOURCE_REF_PATTERN_VIOLATION" -> SourceRefPattern(s, c)
      [] code = "FRAMING_INVALID" -> Lacks(c, "framing")
      [] code = "VIEW_INVALID" -> Lacks(c, "view")
      [] code = "SLOT_MISSING" ->
           s.source = "SYNTHETIC" /\ (Lacks(c, "clothing") \/ Lacks(c, "slots"))
      [] code = "SETTING_OVERSPECIFIC" ->
           s.source = "SYNTHETIC" /\ s.phrases /\ Reads(s, c, "overspecific")

\* The codes of the warnings; two warnings may share one.  None of the types
\* skips the codes the source does not gate.
check(s, c) ==
    IF c.sentinel
      THEN {"MULTI_CHARACTER"}
      ELSE {code \in Code \ Skipped(s.type) : Violates(s, c, code)}

-----------------------------------------------------------------------------
(* What a prompt asks for (prompts/normalizer_system*.txt, under "Caption  *)
(* format" and "Required"): the parts of a first draft that does what it   *)
(* is told and no more.  A garment and an object are described without     *)
(* framing and view, a pose without expression and lighting, and only a    *)
(* dressed creature wears something.                                       *)
Asked(s) ==
    CASE s.type = "character" /\ s.source = "SYNTHETIC" ->
           {"trigger", "framing", "view", "clothing", "slots"}
      [] s.type = "character" /\ s.source = "REFERENCE" ->
           {"trigger", "framing", "view", "clothing", "setting"}
      [] s.type = "creature" -> {"trigger", "framing", "view", "slots"}
      [] s.type \in {"face", "pose"} -> {"trigger", "framing", "view"}
      [] OTHER -> {"trigger"}

\* Bug: light is taken for a slot.
Bug_Obedient(s) == [sentinel |-> FALSE, flaws |-> {}, parts |-> Asked(s) \cup {"lighting"}]

Obedient(s) == [sentinel |-> FALSE, flaws |-> {}, parts |-> Asked(s)]

(* What a finding asks for.                                                *)
Unwanted(code) ==
    CASE code = "AGE_PHRASE" -> {"age"}
      [] code = "STYLE_TOKEN" -> {"style"}
      [] code = "NEGATIVE_WORDING" -> {"negative"}
      [] code = "IDENTITY_OVERCAPTION" -> {"identity"}
      [] code = "NUDE_ON_CROPPED_PORTRAIT" -> {"nude"}
      [] code = "SOURCE_REF_PATTERN_VIOLATION" -> {"lighting"}
      [] code = "SETTING_OVERSPECIFIC" -> {"overspecific"}
      [] OTHER -> {}

Wanted(s, code) ==
    CASE code = "TRIGGER_MISSING" -> {"trigger"}
      [] code = "SOURCE_REF_PATTERN_VIOLATION" /\ s.required -> {"setting"}
      [] code = "FRAMING_INVALID" -> {"framing"}
      [] code = "VIEW_INVALID" -> {"view"}
      [] code = "SLOT_MISSING" -> {"clothing", "slots"}
      [] OTHER -> {}

\* A rewriting that does all the feedback asks for: the parts named are in
\* it, the wordings named are not - nor other parts that bring them.
Heeding(s, c, codes) ==
    LET unwanted == UNION {Unwanted(code) : code \in codes}
        wanted == UNION {Wanted(s, code) : code \in codes} IN
    [sentinel |-> FALSE,
     flaws |-> c.flaws \ unwanted,
     parts |-> {p \in c.parts : Brings(s, p) \cap unwanted = {}} \cup wanted]

-----------------------------------------------------------------------------
\* The wordings a draft has and the parts it lacks.
Defects == {d \in (SUBSET Flaw) \X (SUBSET Part) :
               Cardinality(d[1]) + Cardinality(d[2]) <= MaxDefects}

Drafts ==
    {[sentinel |-> FALSE, flaws |-> d[1], parts |-> Part \ d[2]] : d \in Defects}
    \cup {[sentinel |-> TRUE, flaws |-> {}, parts |-> {}]}

Init ==
    /\ setup \in Setup
    /\ caption \in Drafts \cup {Obedient(setup)}
    /\ found = {} /\ step = "check" /\ heeded = FALSE

Check ==
    /\ step = "check"
    /\ found' = check(setup, caption)
    /\ step' = "feedback"
    /\ UNCHANGED <<setup, caption, heeded>>

\* The loop goes on when something was found, unless that is
\* MULTI_CHARACTER alone.
Rewrite ==
    /\ step = "feedback"
    /\ found \notin {{}, {"MULTI_CHARACTER"}}
    /\ caption' = Heeding(setup, caption, found)
    /\ step' = "check" /\ heeded' = TRUE
    /\ UNCHANGED <<setup, found>>

Next == Check \/ Rewrite

Spec == Init /\ [][Next]_vars

-----------------------------------------------------------------------------
(* Properties.                                                             *)

\* docs/help/en/pipeline_rule_checker.md:27-39, column for column.
HelpTypes(code) ==
    CASE code \in {"TRIGGER_MISSING", "NEGATIVE_WORDING", "MULTI_CHARACTER"} -> LoraType
      [] code = "STYLE_TOKEN" -> LoraType \ {"style"}
      [] code \in {"AGE_PHRASE", "NUDE_ON_CROPPED_PORTRAIT"} -> {"character", "face"}
      [] code \in {"ADULT_BRANCH_MISMATCH", "SOURCE_REF_PATTERN_VIOLATION"} -> {"character"}
      [] code = "IDENTITY_OVERCAPTION" -> {"character", "face", "creature"}
      [] code \in {"FRAMING_INVALID", "VIEW_INVALID"} -> LoraType \ {"style", "object"}
      [] OTHER -> {"character", "clothing", "creature", "object"}

Unfixable == {"MULTI_CHARACTER", "ADULT_BRANCH_MISMATCH"}

CleanTexts(s) == s.trigger = {} /\ s.setting = {}

SomeCaptionPasses(s) ==
    \E P \in SUBSET Part :
        check(s, [sentinel |-> FALSE, flaws |-> {}, parts |-> P]) \subseteq Unfixable

(* The rules do not work against each other: a normalizer that does what    *)
(* the feedback says has a caption that passes after a single rewriting, up *)
(* to what the analyst found, which no wording changes.  No repair is the   *)
(* next violation - unless the project's trigger token or prescribed        *)
(* setting is such that no caption at all can pass.                         *)
FeedbackSuffices ==
    heeded /\ step = "feedback" /\ ~(found \subseteq Unfixable) =>
        ~CleanTexts(setup) /\ ~SomeCaptionPasses(setup)

=============================================================================
