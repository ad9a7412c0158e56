CONSTANTS
    s1 = s1
    Source <- OneSource
    MaxAttempts = 2
    Rank <- TwoRanks
SPECIFICATION FairSpec
INVARIANTS
    RowsAgree
    OnlyAcceptedOutputIsVisible
    NoWorkOnLeavingSource
    
    
PROPERTIES
    CancellationIsKept
    ImplementsLifecycle
    EveryCallReturns
    QueuedWorkIsServed
