SPECIFICATION PageSpec
CONSTANTS
    c1 = c1
    c2 = c2
    c3 = c3
    c4 = c4
    w1 = w1
    w2 = w2
    w3 = w3
    w4 = w4
    e1 = e1
    e2 = e2
    Calls <- MCCalls
    Workers <- MCWorkers
    Editors <- TwoEditors
    MaxActs = 2
INVARIANT CurrentIsAlive
INVARIANT ShowsItsOwn
CHECK_DEADLOCK FALSE
PROPERTY TextsAreRun
