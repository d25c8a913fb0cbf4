------------------------------ MODULE MCLedger ------------------------------
(***************************************************************************)
(* The engine under each of its two services and on its own, one at a      *)
(* time: who posts is chosen at the start.  On its own it is also asked    *)
(* for legs that do not balance.  The chart is the outside world, the      *)
(* clearing account and the fee revenue of the bank, and one customer.     *)
(***************************************************************************)
EXTENDS LedgerServices, TLC

CONSTANTS Available, Blocked, Customer, MaxEngineCalls

VARIABLE caller

MCAccounts == {External, Clearing, FeeRevenue, Available, Blocked}

MCNormalBalance ==
    [a \in MCAccounts |-> IF a = External THEN "DEBIT" ELSE "CREDIT"]

MCAllowsNegative == {External}

MCSingletons == {External, Clearing, FeeRevenue}

MCAvailableOf == Customer :> Available
MCBlockedOf == Customer :> Blocked
MCAccountsOf == Customer :> {Available, Blocked}

\* What the services post, and one posting that does not balance.
MCLegSets ==
    UNION { { Between(External, Available, n), Between(Available, External, n),
              Between(Available, Blocked, n), Between(Blocked, Available, n),
              Between(Clearing, External, n) } : n \in Amounts }
      \cup { PixOutLegs(Available, n, fee) : n \in Amounts, fee \in FeeAmounts }
      \cup { Available :> Leg1("DEBIT", 1) @@ External :> Leg1("CREDIT", 2) }

EngineNext == Cardinality(DOMAIN txn) < MaxEngineCalls /\ Next /\ UNCHANGED owed

MCInit == caller \in {"engine", "api", "bank"} /\ BankLedgerInit

MCNext ==
    /\ UNCHANGED caller
    /\ \/ caller = "engine" /\ EngineNext
       \/ caller = "api" /\ ShadowNext /\ UNCHANGED owed
       \/ caller = "bank" /\ BankLedgerNext

MCSpec == MCInit /\ [][MCNext]_<<bankLedgerVars, caller>>

\* Keys are interchangeable: nothing in the engine looks inside one.
KeySymmetry == Permutations(Keys)
=============================================================================
