CONSTANTS
    Login = Login
    Cart = Cart
    Checkout = Checkout
    Paths <- MCPaths
    Outlines <- MCOutlines
    StepSources <- MCStepSources
    MaxEdits = 2
    Projects <- MCProjects
    MaxRuns = 2
    MaxChanges = 1
SPECIFICATION MCSpec
CHECK_DEADLOCK FALSE
INVARIANT StaleIsImpossible
INVARIANT RuntimePlansAlike
INVARIANT EveryStepHighlighted
INVARIANT NeverClobber
INVARIANT Converges
INVARIANT ScaffoldRuns
