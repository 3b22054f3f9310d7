SPECIFICATION AcceptSpec
CONSTANTS
    s1 = s1
    o1 = o1
    r1 = r1
    r2 = r2
    a1 = a1
    StepFiles <- OneStepFile
    Oaths <- OneOath
    Requests <- OneRequest
    Accepts <- OneAccept
    MaxTexts = 1
INVARIANT AnswersFresh
