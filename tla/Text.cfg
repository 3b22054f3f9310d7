CONSTANTS
    Line <- MCLine
    Sources <- MCSources
    Texts <- MCTexts
    Abbreviations <- MCAbbreviations
    Bodies <- MCBodies
    MaxLines = 4
    MaxLength = 5
    MaxHits = 3
    Oaths <- MCOaths
    Written <- MCWritten
    Expressions <- MCRenamedExpressions
    Handlers <- MCHandlers
    Words <- MCWords
    Answers <- MCAnswers
    MaxTyped = 1
SPECIFICATION MCSpec
CHECK_DEADLOCK FALSE
INVARIANT EveryLineOnce
INVARIANT FencesHold
INVARIANT CutsOutsideZones
INVARIANT LongestLeftmostWins
INVARIANT AllOrNothing
INVARIANT StaysRunnable
INVARIANT HandlerFits
