CONSTANTS
    Requests = {r1, r2}
    MaxOps = 2
    Faults = {"crash", "lookup", "slow", "database", "5xx"}
SPECIFICATION Spec
INVARIANTS AtMostOnePayment PaymentsAreBacked
PROPERTIES AnswerIsFinal NothingIsForgotten
CHECK_DEADLOCK FALSE
