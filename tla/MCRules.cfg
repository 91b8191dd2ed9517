SPECIFICATION Spec
CONSTANTS
    TriggerTexts <- MCTriggerTexts
    SettingTexts <- MCSettingTexts
    MaxDefects = 2
CHECK_DEADLOCK FALSE
INVARIANTS TypeOK FeedbackSuffices
