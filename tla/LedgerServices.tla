--------------------------- MODULE LedgerServices ---------------------------
(***************************************************************************)
(* The two services that post to an engine of their own: the API's         *)
(* ShadowLedgerService, over Postgres, and the mock bank's LedgerService,  *)
(* in memory.  Each call hands the engine legs that it builds from an      *)
(* amount and the accounts of one customer, under a key that the caller    *)
(* chose; InsufficientFundsError and a used key change nothing.            *)
(*                                                                         *)
(* The bank settles an outgoing PIX with two calls of the engine, and      *)
(* other calls may come between the two.                                   *)
(***************************************************************************)
EXTENDS Ledger

CONSTANTS
    External,     \* LEDGER_CODES.EXTERNAL_WORLD
    Clearing,     \* LEDGER_CODES.PIX_OUT_CLEARING
    FeeRevenue,   \* LEDGER_CODES.FEE_REVENUE
    AvailableOf,  \* the account with a customer's available money
    BlockedOf,    \* the account with a customer's blocked money
    Amounts,      \* amounts that callers ask for
    FeeAmounts    \* fees of the bank, 0 for none

Leg1(direction, n) == [direction |-> direction, amount |-> n]

\* The legs of every posting but the bank's PIX out: one account debited, one credited.
Between(from, to, n) ==
    [a \in {from, to} |-> Leg1(IF a = from THEN "DEBIT" ELSE "CREDIT", n)]

\* A PIX out at the bank: the customer pays the fee too, and the money waits in the
\* clearing account.
PixOutLegs(available, n, fee) ==
    [a \in {available, Clearing} \cup (IF fee > 0 THEN {FeeRevenue} ELSE {}) |->
        IF a = available THEN Leg1("DEBIT", n + fee)
        ELSE IF a = Clearing THEN Leg1("CREDIT", n) ELSE Leg1("CREDIT", fee)]

ASSUME ServicesAssumption ==
    /\ {External, Clearing, FeeRevenue} \subseteq Singletons
    /\ \A o \in Owners : /\ AccountsOf[o] = {AvailableOf[o], BlockedOf[o]}
                        /\ AvailableOf[o] \notin Singletons
    /\ \A o \in Owners, n \in Amounts :
          /\ Between(External, AvailableOf[o], n) \in LegSets
          /\ Between(AvailableOf[o], External, n) \in LegSets
          /\ Between(AvailableOf[o], BlockedOf[o], n) \in LegSets
          /\ Between(BlockedOf[o], AvailableOf[o], n) \in LegSets
          /\ Between(Clearing, External, n) \in LegSets
          /\ \A fee \in FeeAmounts : PixOutLegs(AvailableOf[o], n, fee) \in LegSets

-----------------------------------------------------------------------------
(* The API: ShadowLedgerService *)

\* ensureAccounts of the customer's two templates.
openAccounts(o) == OpenAccounts(o)

\* The account of the outside world is looked up by its code before every posting that
\* needs it; one that was not seeded is an INTERNAL_ERROR.
externalId == External \in opened

\* A Pix that came in.
creditIn(k, o, n) == externalId /\ Post(k, Between(External, AvailableOf[o], n), "POSTED")

\* The hold of an outgoing Pix.
authorizeOut(k, o, n) == externalId /\ Post(k, Between(AvailableOf[o], External, n), "PENDING")

settleOut(k, pending) == CommitPending(k, pending)

voidOut(k, pending) == VoidPending(k, pending)

\* A refund sent, and a refund received.
refundOut(k, o, n) == externalId /\ Post(k, Between(AvailableOf[o], External, n), "POSTED")
refundIn(k, o, n) == externalId /\ Post(k, Between(External, AvailableOf[o], n), "POSTED")

\* The direction is the customer's: CREDIT gives money back.
adjust(k, o, n, direction) ==
    /\ externalId
    /\ Post(k, IF direction = "CREDIT" THEN Between(External, AvailableOf[o], n)
                                       ELSE Between(AvailableOf[o], External, n), "POSTED")

moveBlocked(k, o, n, unblock) ==
    Post(k, IF unblock THEN Between(BlockedOf[o], AvailableOf[o], n)
                       ELSE Between(AvailableOf[o], BlockedOf[o], n), "POSTED")

ShadowNext ==
    \/ \E o \in Owners : openAccounts(o)
    \/ \E k \in Keys, o \in Owners, n \in Amounts :
          \/ creditIn(k, o, n) \/ authorizeOut(k, o, n)
          \/ refundOut(k, o, n) \/ refundIn(k, o, n)
          \/ \E direction \in Directions : adjust(k, o, n, direction)
          \/ \E unblock \in BOOLEAN : moveBlocked(k, o, n, unblock)
    \/ \E k, pending \in Keys : settleOut(k, pending) \/ voidOut(k, pending)

ShadowSpec == Init /\ [][ShadowNext]_vars

-----------------------------------------------------------------------------
(* The mock bank: LedgerService *)

VARIABLE owed    \* the settled payments whose money is still in the clearing account

bankLedgerVars == <<vars, owed>>

BankLedgerInit == Init /\ owed = {}

openCustomerAccounts(o) == OpenAccounts(o) /\ UNCHANGED owed

creditFromExternal(k, o, n) ==
    Post(k, Between(External, AvailableOf[o], n), "POSTED") /\ UNCHANGED owed

authorizePixOut(k, o, n, fee) ==
    Post(k, PixOutLegs(AvailableOf[o], n, fee), "PENDING") /\ UNCHANGED owed

\* settlePixOut: the first call commits the hold; the payment then has its clearing leg
\* to move out of the bank.
settlePixOut(k, pending) == CommitPending(k, pending) /\ owed' = owed \cup {pending}

\* The second call of settlePixOut, with the amount of the payment and a key of its own.
settleExternal(k, pending) ==
    /\ pending \in owed
    /\ Post(k, Between(Clearing, External, txn[pending].legs[Clearing].amount), "POSTED")
    /\ owed' = owed \ {pending}

voidPixOut(k, pending) == VoidPending(k, pending) /\ UNCHANGED owed

postRefund(k, o, n) ==
    Post(k, Between(AvailableOf[o], External, n), "POSTED") /\ UNCHANGED owed

blockFunds(k, o, n, unblock) ==
    /\ Post(k, IF unblock THEN Between(BlockedOf[o], AvailableOf[o], n)
                          ELSE Between(AvailableOf[o], BlockedOf[o], n), "POSTED")
    /\ UNCHANGED owed

BankLedgerNext ==
    \/ \E o \in Owners : openCustomerAccounts(o)
    \/ \E k \in Keys, o \in Owners, n \in Amounts :
          \/ creditFromExternal(k, o, n) \/ postRefund(k, o, n)
          \/ \E fee \in FeeAmounts : authorizePixOut(k, o, n, fee)
          \/ \E unblock \in BOOLEAN : blockFunds(k, o, n, unblock)
    \/ \E k, pending \in Keys :
          settlePixOut(k, pending) \/ settleExternal(k, pending) \/ voidPixOut(k, pending)

BankLedgerSpec == BankLedgerInit /\ [][BankLedgerNext]_bankLedgerVars
=============================================================================
