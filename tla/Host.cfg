CONSTANTS
    Launch = {l1, l2}
    Request = {q1, q2}
    MaxJobs = 1
    None = None
SPECIFICATION FairSpec
CHECK_DEADLOCK FALSE
INVARIANTS OneWorker NoWakeIsLost
PROPERTIES EveryBackendEnds
