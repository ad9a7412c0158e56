CONSTANTS
    s1 = s1
    Source <- OneSource
    MaxAttempts = 1
    Rank <- OneRank
SPECIFICATION Spec
INVARIANTS
    CancellationIsInHand
