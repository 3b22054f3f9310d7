CONSTANTS
    Oath = "oath.md"
    Steps = "steps.ts"
    Order <- MCOrder
    Lang <- MCLang
    Versions <- MCVersions
    Languages <- MCLanguages
    MaxClicks = 2
    MaxKeys = 1
    MaxSelections = 1
    MaxSwitches = 2
    Views <- MCViews
    MaxKeystrokes = 1
    MaxRejected = 1
SPECIFICATION MCSpec
CHECK_DEADLOCK FALSE
INVARIANT DisabledWhileReplaying
