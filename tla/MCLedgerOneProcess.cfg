CONSTANTS
    External = External
    Available = Available
    kIn = kIn
    kHold = kHold
    kOther = kOther
    kSettle = kSettle
    kVoid = kVoid
    s1 = s1
    s2 = s2
    p1 = p1
    p2 = p2
    NoKey = NoKey
    Base = Base
    NoCall = NoCall
    Accounts = {External, Available}
    AllowsNegative = {External}
    NormalBalance <- MCNormalBalance
    Keys = {kIn, kHold, kOther, kSettle, kVoid}
    LockSeq <- MCLockSeq
    Sessions = {s1, s2}
    Processes = {p1, p2}
    ProcessOf <- SameProcess
    Calls <- MCCalls
    MaxCalls = 2
SPECIFICATION Spec
INVARIANT CountersMatchEntries
CHECK_DEADLOCK FALSE
