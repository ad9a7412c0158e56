CONSTANTS
    i1 = i1
    b1 = b1
    cpu = cpu
    gpu = gpu
    None = None
    Interactive = {i1}
    Background = {b1}
    Plans = {cpu, gpu}
    PlanOf <- MCPlanOf
    VariantsOf <- MCVariantsOf
    Burst = 1
    MaxRestarts = 1
    MaxPings <- MCMaxPings
SPECIFICATION Spec
CHECK_DEADLOCK FALSE
INVARIANTS OneRequestAtATime BackgroundHasItsTurn OnlyTheAwaitedIsSaid EveryOutputIsOwed StateTellsTheTruth
PROPERTIES EveryCallComesBack
