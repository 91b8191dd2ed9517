------------------------- MODULE RuleChecker_proofs -------------------------
(***************************************************************************)
(* Proofs about RuleChecker, for any texts of trigger tokens and settings  *)
(* and any number of defects of a first draft.                             *)
(***************************************************************************)
EXTENDS RuleChecker, TLAPS

-----------------------------------------------------------------------------
(* The rules in one form: a code that wording can avoid is raised, where   *)
(* it applies at all, for what it does not want or for what it misses.     *)
Applies(s, code) ==
    CASE code = "IDENTITY_OVERCAPTION" -> s.traits
      [] code = "NUDE_ON_CROPPED_PORTRAIT" -> s.cropped /\ s.identity
      [] code = "SOURCE_REF_PATTERN_VIOLATION" -> s.source = "REFERENCE"
      [] code = "SLOT_MISSING" -> s.source = "SYNTHETIC"
      [] code = "SETTING_OVERSPECIFIC" -> s.source = "SYNTHETIC" /\ s.phrases
      [] OTHER -> TRUE

Fixable == Code \ Unfixable

LEMMA Meaning ==
    ASSUME NEW s \in Setup, NEW c \in Caption, NEW code \in Fixable
    PROVE  Violates(s, c, code) <=>
              /\ Applies(s, code)
              /\ \/ \E f \in Unwanted(code) : Reads(s, c, f)
                 \/ \E p \in Wanted(s, code) : Lacks(c, p)
<1>0. /\ s.traits \in BOOLEAN /\ s.phrases \in BOOLEAN /\ s.required \in BOOLEAN
      /\ s.identity \in BOOLEAN /\ s.cropped \in BOOLEAN
  BY DEF Setup
<1>1. CASE code \in {"TRIGGER_MISSING", "FRAMING_INVALID", "VIEW_INVALID"}
  BY <1>1 DEF Violates, Applies, Unwanted, Wanted
<1>2. CASE code \in {"AGE_PHRASE", "STYLE_TOKEN", "NEGATIVE_WORDING"}
  BY <1>2 DEF Violates, Applies, Unwanted, Wanted
<1>3. CASE code = "IDENTITY_OVERCAPTION"
  BY <1>0, <1>3 DEF Violates, Applies, Unwanted, Wanted
<1>4. CASE code = "NUDE_ON_CROPPED_PORTRAIT"
  BY <1>0, <1>4 DEF Violates, Applies, Unwanted, Wanted
<1>5. CASE code = "SOURCE_REF_PATTERN_VIOLATION"
  BY <1>0, <1>5 DEF Violates, Applies, Unwanted, Wanted, SourceRefPattern
<1>6. CASE code = "SLOT_MISSING"
  BY <1>6 DEF Violates, Applies, Unwanted, Wanted
<1>7. CASE code = "SETTING_OVERSPECIFIC"
  BY <1>0, <1>7 DEF Violates, Applies, Unwanted, Wanted
<1> QED
  BY <1>1, <1>2, <1>3, <1>4, <1>5, <1>6, <1>7 DEF Fixable, Unfixable, Code

LEMMA UnfixableAsksNothing ==
    \A s, code : code \in Unfixable => Unwanted(code) = {} /\ Wanted(s, code) = {}
BY DEF Unfixable, Unwanted, Wanted

\* The codes that can be raised for a setup and avoided by wording.
Live(s) == {code \in Fixable \ Skipped(s.type) : Applies(s, code)}

LEMMA Raised ==
    ASSUME NEW s \in Setup, NEW c \in Caption, ~c.sentinel, NEW code \in Fixable
    PROVE  code \in check(s, c) <=>
              /\ code \in Live(s)
              /\ \/ \E f \in Unwanted(code) : Reads(s, c, f)
                 \/ \E p \in Wanted(s, code) : Lacks(c, p)
BY Meaning DEF check, Live, Fixable

\* What a caption without forbidden wordings has to have, and not to bring.
Passing(s, P) ==
    \A code \in Live(s) :
        /\ Wanted(s, code) \subseteq P
        /\ \A p \in P : Brings(s, p) \cap Unwanted(code) = {}

LEMMA PassingParts ==
    ASSUME NEW s \in Setup, NEW P \in SUBSET Part
    PROVE  check(s, [sentinel |-> FALSE, flaws |-> {}, parts |-> P]) \subseteq Unfixable
              <=> Passing(s, P)
<1> DEFINE c == [sentinel |-> FALSE, flaws |-> {}, parts |-> P]
<1>1. c \in Caption /\ c.sentinel = FALSE /\ c.flaws = {} /\ c.parts = P
  BY DEF Caption
<1>2. check(s, c) \subseteq Code
  BY DEF check, Code
<1> HIDE DEF c
<1>3. ASSUME NEW code \in Live(s)
      PROVE  code \notin check(s, c) <=>
                /\ Wanted(s, code) \subseteq P
                /\ \A p \in P : Brings(s, p) \cap Unwanted(code) = {}
  <2>1. code \in Fixable
    BY DEF Live
  <2> QED BY <1>1, <2>1, Raised DEF Reads, Lacks
<1>4. ASSUME NEW code \in Fixable \ Live(s)
      PROVE  code \notin check(s, c)
  BY <1>1, Raised
<1>5. check(s, c) \subseteq Unfixable <=> \A code \in Live(s) : code \notin check(s, c)
  BY <1>2, <1>4 DEF Fixable, Live
<1> QED BY <1>3, <1>5 DEF Passing, c

-----------------------------------------------------------------------------
(* No rule works against another unless no caption can please both.        *)

LEMMA HeedingCaption ==
    ASSUME NEW s \in Setup, NEW c \in Caption, NEW codes
    PROVE  Heeding(s, c, codes) \in Caption /\ ~Heeding(s, c, codes).sentinel
<1>1. \A code : Wanted(s, code) \subseteq Part
  BY DEF Wanted, Part
<1> QED BY <1>1 DEF Heeding, Caption

(* A rewriting that heeds the feedback leaves nothing to be found if there *)
(* is a caption at all of which that can be said.                          *)
LEMMA HeedingPasses ==
    ASSUME NEW s \in Setup, NEW c \in Caption, ~c.sentinel, SomeCaptionPasses(s)
    PROVE  check(s, Heeding(s, c, check(s, c))) \subseteq Unfixable
<1> DEFINE codes == check(s, c)
           h == Heeding(s, c, codes)
           unwanted == UNION {Unwanted(code) : code \in codes}
           wanted == UNION {Wanted(s, code) : code \in codes}
<1>1. PICK P \in SUBSET Part : Passing(s, P)
  BY PassingParts DEF SomeCaptionPasses
<1>2. h \in Caption /\ ~h.sentinel
  BY HeedingCaption
<1>3. /\ h.flaws = c.flaws \ unwanted
      /\ h.parts = {p \in c.parts : Brings(s, p) \cap unwanted = {}} \cup wanted
  BY DEF Heeding
<1>4. codes \subseteq Code /\ check(s, h) \subseteq Code
  BY DEF check, Code
<1> HIDE DEF h
<1>5. ASSUME NEW code \in codes
      PROVE  \/ code \in Live(s)
             \/ Unwanted(code) = {} /\ Wanted(s, code) = {}
  BY <1>4, <1>5, Raised, UnfixableAsksNothing DEF Fixable
<1>6. wanted \subseteq P
  BY <1>1, <1>5 DEF Passing
<1>7. \A p \in P : Brings(s, p) \cap unwanted = {}
  BY <1>1, <1>5 DEF Passing
<1>8. ASSUME NEW code \in Fixable, code \in check(s, h)
      PROVE  FALSE
  <2>1. /\ code \in Live(s)
        /\ \/ \E f \in Unwanted(code) : Reads(s, h, f)
           \/ \E p \in Wanted(s, code) : Lacks(h, p)
    BY <1>2, <1>8, Raised
  <2>2. code \in codes => Unwanted(code) \subseteq unwanted /\ Wanted(s, code) \subseteq wanted
    OBVIOUS
  <2> HIDE DEF unwanted, wanted
  \* It still reads something unwanted: of the draft, or of a part wanted.
  <2>3. ASSUME NEW f \in Unwanted(code), Reads(s, h, f)
        PROVE  FALSE
    <3>1. Reads(s, c, f) => f \in unwanted
      BY <2>1, <2>2, Raised
    <3>2. ASSUME NEW p \in wanted
          PROVE  f \notin Brings(s, p)
      BY <1>1, <1>6, <2>1 DEF Passing
    <3> QED BY <1>3, <2>3, <3>1, <3>2 DEF Reads
  \* It still lacks something wanted: a part dropped for what it brings.
  <2>4. ASSUME NEW p \in Wanted(s, code), Lacks(h, p)
        PROVE  FALSE
    <3>1. Lacks(c, p) => p \in wanted
      BY <2>1, <2>2, Raised
    <3>2. p \in P
      BY <1>1, <2>1 DEF Passing
    <3> QED BY <1>3, <1>7, <2>4, <3>1, <3>2 DEF Lacks
  <2> QED BY <2>1, <2>3, <2>4
<1> QED BY <1>4, <1>8 DEF Fixable, h

(* Clean texts stand in nobody's way.                                      *)
LEMMA CleanTextsPass ==
    ASSUME NEW s \in Setup, CleanTexts(s)
    PROVE  SomeCaptionPasses(s)
<1> DEFINE P == UNION {Wanted(s, code) : code \in Live(s)}
<1>1. P \in SUBSET Part
  BY DEF Wanted, Part
<1>2. \A p : Brings(s, p) = IF p = "slots" THEN {"lighting"} ELSE {}
  BY DEF Brings, CleanTexts
<1>3. \A code : "lighting" \in Unwanted(code) => code = "SOURCE_REF_PATTERN_VIOLATION"
  BY DEF Unwanted
<1>4. \A code : "slots" \in Wanted(s, code) => code = "SLOT_MISSING"
  BY DEF Wanted
<1>5. ~("SOURCE_REF_PATTERN_VIOLATION" \in Live(s) /\ "SLOT_MISSING" \in Live(s))
  BY DEF Live, Applies
<1>6. Passing(s, P)
  BY <1>2, <1>3, <1>4, <1>5 DEF Passing
<1> QED BY <1>1, <1>6, PassingParts DEF SomeCaptionPasses

-----------------------------------------------------------------------------
(* The table of skipped checks against the one of the help.                *)
LEMMA Documented ==
    ASSUME NEW type \in LoraType, NEW code \in Code
    PROVE  code \notin Skipped(type) <=>
              type \in HelpTypes(code) \/ (code = "SLOT_MISSING" /\ type = "pose")
<1> USE DEF Code, LoraType, HelpTypes, Skipped, CharacterOnly, PersonOnly
<1>1. CASE type = "character"
  BY <1>1
<1>2. CASE type = "style"
  BY <1>2
<1>3. CASE type = "face"
  BY <1>3
<1>4. CASE type = "clothing"
  BY <1>4
<1>5. CASE type = "creature"
  BY <1>5
<1>6. CASE type = "pose"
  BY <1>6
<1>7. CASE type = "object"
  BY <1>7
<1> QED BY <1>1, <1>2, <1>3, <1>4, <1>5, <1>6, <1>7

-----------------------------------------------------------------------------
(* The loop: what was found is what the checker finds in the caption, or   *)
(* in the one the caption was rewritten from.                              *)
Tracks ==
    /\ step = "feedback" => found = check(setup, caption)
    /\ step = "check" /\ ~heeded => found = {}
    /\ heeded => \E c \in Caption :
          /\ ~c.sentinel /\ caption = Heeding(setup, c, check(setup, c))
          /\ step = "check" => found = check(setup, c)

IInv == TypeOK /\ Tracks

LEMMA InitInvariant == Init => IInv
<1> SUFFICES ASSUME Init PROVE IInv
  OBVIOUS
<1>1. Asked(setup) \subseteq Part
  BY DEF Asked, Part
<1>2. \A d \in Defects : d[1] \subseteq Flaw
  BY DEF Defects
<1>3. \A F \in SUBSET Flaw, P \in SUBSET Part, b \in BOOLEAN :
          [sentinel |-> b, flaws |-> F, parts |-> P] \in Caption
  BY DEF Caption
<1>4. caption \in Caption
  <2>1. CASE caption = Obedient(setup)
    BY <1>1, <1>3, <2>1 DEF Obedient
  <2>2. CASE caption = [sentinel |-> TRUE, flaws |-> {}, parts |-> {}]
    BY <1>3, <2>2
  <2>3. CASE \E d \in Defects :
            caption = [sentinel |-> FALSE, flaws |-> d[1], parts |-> Part \ d[2]]
    BY <1>2, <1>3, <2>3
  <2> QED BY <2>1, <2>2, <2>3 DEF Init, Drafts
<1> QED BY <1>4 DEF Init, IInv, TypeOK, Tracks

LEMMA NextInvariant == IInv /\ [Next]_vars => IInv'
<1> SUFFICES ASSUME IInv, [Next]_vars PROVE IInv'
  OBVIOUS
<1>1. CASE Check
  <2>1. check(setup, caption) \subseteq Code
    BY DEF check, Code
  <2>2. TypeOK'
    BY <1>1, <2>1 DEF Check, IInv, TypeOK
  <2>3. Tracks'
    BY <1>1 DEF Check, IInv, Tracks
  <2> QED BY <2>2, <2>3 DEF IInv
<1>2. CASE Rewrite
  <2>1. setup \in Setup /\ caption \in Caption /\ found = check(setup, caption)
    BY <1>2 DEF Rewrite, IInv, TypeOK, Tracks
  <2>2. ~caption.sentinel
    BY <1>2, <2>1 DEF Rewrite, check
  <2>3. TypeOK'
    BY <1>2, <2>1, HeedingCaption DEF Rewrite, IInv, TypeOK
  <2>4. Tracks'
    BY <1>2, <2>1, <2>2 DEF Rewrite, Tracks
  <2> QED BY <2>3, <2>4 DEF IInv
<1>3. CASE UNCHANGED vars
  BY <1>3 DEF vars, IInv, TypeOK, Tracks
<1> QED BY <1>1, <1>2, <1>3 DEF Next

LEMMA Invariant == Spec => []IInv
BY InitInvariant, NextInvariant, PTL DEF Spec

(* The captions of the loop and what is found in them keep their types     *)
(* (TypeOK).                                                               *)
THEOREM TypeCorrect == Spec => []TypeOK
<1>1. IInv => TypeOK
  BY DEF IInv
<1> QED BY <1>1, Invariant, PTL

\* Of each code, whether the checker can raise it for a project type.
CanRaise(type, code) ==
    \E s \in Setup, c \in Caption : s.type = type /\ code \in check(s, c)

(* What the checker can raise for a project type is what the help lists    *)
(* for it, no less and one code more: SLOT_MISSING for pose                *)
(* (_SKIPPED_CHECKS_BY_TYPE against pipeline_rule_checker.md:27-39).       *)
THEOREM CodesOfTypes ==
    \A type \in LoraType, code \in Code :
        CanRaise(type, code) <=>
            type \in HelpTypes(code) \/ (code = "SLOT_MISSING" /\ type = "pose")
<1> SUFFICES ASSUME NEW type \in LoraType, NEW code \in Code
             PROVE  CanRaise(type, code) <=>
                      type \in HelpTypes(code) \/ (code = "SLOT_MISSING" /\ type = "pose")
  OBVIOUS
<1>1. code \notin Skipped(type) <=>
         type \in HelpTypes(code) \/ (code = "SLOT_MISSING" /\ type = "pose")
  BY Documented
<1>2. ASSUME CanRaise(type, code)
      PROVE  code \notin Skipped(type)
  <2>1. "MULTI_CHARACTER" \notin Skipped(type)
    BY Documented DEF HelpTypes, Code
  <2> QED BY <1>2, <2>1 DEF CanRaise, check
<1>3. ASSUME code \notin Skipped(type)
      PROVE  CanRaise(type, code)
  <2>1. PICK t \in TriggerTexts, u \in SettingTexts : TRUE
    BY TextsAssumption
  \* An item all of whose conditions hold, and a caption that has every
  \* wording it should not have and nothing it should.
  <2> DEFINE source == IF code = "SOURCE_REF_PATTERN_VIOLATION" THEN "REFERENCE" ELSE "SYNTHETIC"
             s == [type |-> type, source |-> source, identity |-> TRUE, traits |-> TRUE,
                   phrases |-> TRUE, required |-> TRUE, trigger |-> t, setting |-> u,
                   adult |-> TRUE, others |-> TRUE, cropped |-> TRUE]
             c == [sentinel |-> FALSE, flaws |-> Flaw, parts |-> {}]
  <2>2. s \in Setup /\ c \in Caption
    BY DEF Setup, Caption
  <2>3. /\ s.type = type /\ s.source = source /\ s.identity = TRUE /\ s.traits = TRUE
        /\ s.phrases = TRUE /\ s.required = TRUE /\ s.adult = TRUE /\ s.others = TRUE
        /\ s.cropped = TRUE /\ c.sentinel = FALSE /\ c.flaws = Flaw /\ c.parts = {}
    OBVIOUS
  <2> HIDE DEF s, c
  <2>4. /\ \A flaw \in Flaw : Reads(s, c, flaw)
        /\ \A part : Lacks(c, part)
    BY <2>3 DEF Reads, Lacks
  <2>5. Violates(s, c, code)
    BY <2>3, <2>4 DEF Violates, SourceRefPattern, Code, Flaw
  <2>6. code \in check(s, c)
    BY <1>3, <2>3, <2>5 DEF check
  <2> QED BY <2>2, <2>3, <2>6 DEF CanRaise
<1> QED BY <1>1, <1>2, <1>3

(* Following the feedback once leads to a caption that passes, whatever    *)
(* the trigger token and the prescribed setting say, if there is one       *)
(* (FeedbackSuffices).                                                     *)
THEOREM FeedbackIsEnough == Spec => []FeedbackSuffices
<1>1. IInv => FeedbackSuffices
  <2> SUFFICES ASSUME IInv, heeded, step = "feedback",
                      CleanTexts(setup) \/ SomeCaptionPasses(setup)
               PROVE  found \subseteq Unfixable
    BY DEF FeedbackSuffices
  <2>1. setup \in Setup /\ SomeCaptionPasses(setup)
    BY CleanTextsPass DEF IInv, TypeOK
  <2>2. PICK c \in Caption : ~c.sentinel /\ caption = Heeding(setup, c, check(setup, c))
    BY DEF IInv, Tracks
  <2>3. found = check(setup, caption)
    BY DEF IInv, Tracks
  <2> QED BY <2>1, <2>2, <2>3, HeedingPasses
<1> QED BY <1>1, Invariant, PTL

=============================================================================
