SPECIFICATION Spec
CONSTANTS
    Paths <- TwoOaths
    Outlines <- Projects
CHECK_DEADLOCK FALSE
INVARIANT ChainsEnd
INVARIANT DepthFirst
INVARIANT NothingLost
INVARIANT ExamplesRunOn
INVARIANT HoverShowsTheSplice
