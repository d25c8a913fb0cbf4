CONSTANTS
    MaxAttempts = 2
    MinimumRequests = 2
    WindowMs = 1
    OpenMs = 1
    HalfOpenProbes = 1
    MaxInWindow = 2
SPECIFICATION PFairSpec
INVARIANTS WrittenAtMostOnce SilenceIsUnknown
PROPERTY CircuitRecovers
CHECK_DEADLOCK FALSE
