SPECIFICATION MCSpec
CONSTANTS
    e1 = e1
    e2 = e2
    f1 = f1
    f2 = f2
    Examples <- MCExamples
    Files <- MCFiles
    Plans <- MixedPlans
    Messages = {m1, m2}
    StepFiles = {g1, g2}
    OathExamples = {d1, d2}
    StepSources <- MCStepSources
    MaxOathSteps = 2
    OathSize = 2
INVARIANT VerdictsAreEarned
INVARIANT OwnState
INVARIANT OwnRegistry
INVARIANT ContextsNeverOlder
SYMMETRY Interchangeable
CHECK_DEADLOCK FALSE
