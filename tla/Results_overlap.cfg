SPECIFICATION MCSpec
CONSTANTS
    o1 = o1
    o2 = o2
    Oaths <- TwoOaths
    Names <- OneName
    MaxParagraphs = 1
    MaxEdits = 2
    MaxRuns = 3
    MaxFixes = 1
    Isolate = TRUE
    Filter = FALSE
    Reuse = FALSE
    Docs = {}
    Doubtful = {}
    OpenDocs = {}
    Handlers = {}
    MaxTexts = 0
    MaxResults = 0
PROPERTY NoSilentDecay
CHECK_DEADLOCK FALSE
