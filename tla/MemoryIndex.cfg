CONSTANTS
    Rep = {r1, r2}
    Caller = {c1, c2}
    Main = main
    MaxTries = 2
    Batch = 1
    MayFail = TRUE
SPECIFICATION Spec
SYMMETRY Interchangeable
CONSTRAINT FewWhereFaulty
INVARIANTS
    ErasedIsGone
    CompleteReportIsTrue
    IndexCoversMemory
    LogIsOwed
    SearchIsComplete
    NothingIsOwed
PROPERTIES
    RecoveryFinishesErasures
