CONSTANTS
    Rep = {r1, r2}
    Caller = {c1}
    Main = main
    MaxTries = 1
    Batch = 1
    MayFail = FALSE
SPECIFICATION Spec
INVARIANT DecisionIsComplete
