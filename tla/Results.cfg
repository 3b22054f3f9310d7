SPECIFICATION MCSpec
CONSTANTS
    o1 = o1
    o2 = o2
    Oaths <- OneOath
    Names <- Reworded
    MaxParagraphs = 2
    MaxEdits = 2
    MaxRuns = 2
    MaxFixes = 1
    Isolate = TRUE
    Filter = TRUE
    Reuse = TRUE
    Docs = {oath, shared}
    Doubtful = {oath}
    OpenDocs = {oath}
    Handlers = {h1, h2}
    MaxTexts = 2
    MaxResults = 2
PROPERTY NoSilentDecay
PROPERTY EntriesAreEarned
INVARIANT RecordIsClean
INVARIANT ExactNameWins
INVARIANT RunsShown
INVARIANT ProblemsShown
SYMMETRY HandlerSymmetry
CHECK_DEADLOCK FALSE
