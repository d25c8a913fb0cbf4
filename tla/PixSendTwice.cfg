CONSTANTS
    Requests = {r1, r2}
    MaxOps = 2
    Faults = {"5xx"}
SPECIFICATION Spec
INVARIANTS OneEffectPerKey
CHECK_DEADLOCK FALSE
