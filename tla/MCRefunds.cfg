SPECIFICATION FairSpec
CONSTANTS
    Accounts <- MCAccounts
    NormalBalance <- MCNormalBalance
    AllowsNegative <- MCAllowsNegative
    Customers = {"ana"}
    Keys = {"k1", "k2"}
    Refunders = {"k1"}
    Amounts = {1}
    Limits = {1, 2}
    Fee = 1
    Opening = 2
    Copies = {1}
    Scenarios = {"SETTLE", "TIMEOUT", "AUTO_REFUND", "DUPLICATE_WEBHOOK", "OUT_OF_ORDER_WEBHOOK"}
    MaxPayments = 2
    MaxCredits = 1
    MaxClock = 2
    RefundWindow = 1
    TicksPerDay = 2
    Lap = 1
    PageLimit = 2
    MaxFaults = 2
INVARIANTS CreditedOnce StatementCloses RefundIsHeld
PROPERTY EveryCreditRecorded
CHECK_DEADLOCK FALSE
