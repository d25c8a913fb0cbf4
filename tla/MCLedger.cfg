CONSTANTS
    External = External
    Clearing = Clearing
    FeeRevenue = FeeRevenue
    Available = Available
    Blocked = Blocked
    Customer = Customer
    NoKey = NoKey
    Accounts <- MCAccounts
    NormalBalance <- MCNormalBalance
    AllowsNegative <- MCAllowsNegative
    Singletons <- MCSingletons
    Owners = {Customer}
    AccountsOf <- MCAccountsOf
    AvailableOf <- MCAvailableOf
    BlockedOf <- MCBlockedOf
    LegSets <- MCLegSets
    Amounts = {1, 2}
    FeeAmounts = {0, 1}
    Keys = {k1, k2, k3, k4, k5, k6}
    MaxEngineCalls = 3
SYMMETRY KeySymmetry
SPECIFICATION MCSpec
INVARIANTS NoOverdraft ResolvedOnce HoldAlwaysResolvable RunningBalance BooksClose
CHECK_DEADLOCK FALSE
