------------------------------ MODULE MCRules ------------------------------
EXTENDS RuleChecker

\* A clean trigger token and one that reads as a quality word; the default
\* setting and one that names its light.
MCTriggerTexts == {{}, {"style"}}
MCSettingTexts == {{}, {"lighting"}}
=============================================================================
