----------------------------- MODULE LedgerOps -----------------------------
(***************************************************************************)
(* The arithmetic of the double-entry engine (packages/ledger): the four   *)
(* counters of an account, the balances derived from them, and what one    *)
(* leg of a transaction adds to the counters.                              *)
(*                                                                         *)
(* The legs of a transaction are a function from the accounts it touches   *)
(* to [direction, amount]: every caller in the repository posts at most    *)
(* one leg per account.  entryCount and version, which no decision reads,  *)
(* are left out.                                                           *)
(*                                                                         *)
(* In this and the other modules a definition introduced as a mutant is a  *)
(* wrong version of the one after it; a property that matters fails when   *)
(* the mutant takes its place.                                             *)
(***************************************************************************)
EXTENDS Integers, FiniteSets, FiniteSetsExt

CONSTANTS
    Accounts,         \* ledger accounts
    NormalBalance,    \* the side on which an account grows
    AllowsNegative    \* accounts exempt from the overdraft guard

ASSUME AccountsAssumption ==
    /\ IsFiniteSet(Accounts)
    /\ NormalBalance \in [Accounts -> {"DEBIT", "CREDIT"}]
    /\ AllowsNegative \subseteq Accounts

Directions == {"DEBIT", "CREDIT"}
EntryPhases == {"PENDING", "POSTED", "VOID"}

Counters == [debitsPosted : Int, creditsPosted : Int,
             debitsPending : Int, creditsPending : Int]

ZeroCounters == [debitsPosted |-> 0, creditsPosted |-> 0,
                 debitsPending |-> 0, creditsPending |-> 0]

\* computeBalances: the sign of a balance depends on the account's normal side.
PostedBalance(a, c) ==
    IF NormalBalance[a] = "CREDIT" THEN c.creditsPosted - c.debitsPosted
                                   ELSE c.debitsPosted - c.creditsPosted

\* Pending legs on the side that spends are already reserved.
AvailableBalance(a, c) ==
    IF NormalBalance[a] = "CREDIT" THEN PostedBalance(a, c) - c.debitsPending
                                   ELSE PostedBalance(a, c) - c.creditsPending

\* Mutant: the guard looks at the posted balance, reserves not taken out.
GuardOnPosted(a, c) == a \notin AllowsNegative /\ PostedBalance(a, c) < 0

ViolatesOverdraftGuard(a, c) ==
    /\ a \notin AllowsNegative
    /\ AvailableBalance(a, c) < 0

\* deltaFor followed by applyDelta: a new leg, pending or posted at once.
ApplyNew(c, leg, phase) ==
    IF leg.direction = "DEBIT"
    THEN IF phase = "PENDING"
         THEN [c EXCEPT !.debitsPending = @ + leg.amount]
         ELSE [c EXCEPT !.debitsPosted = @ + leg.amount]
    ELSE IF phase = "PENDING"
         THEN [c EXCEPT !.creditsPending = @ + leg.amount]
         ELSE [c EXCEPT !.creditsPosted = @ + leg.amount]

\* Mutant: the amount is posted and the reserve stays.
ReleaseNothing(c, leg) == c

\* resolveDelta followed by applyDelta: the reserve leaves and, on a commit,
\* the same amount is posted in the same operation.
Release(c, leg) ==
    IF leg.direction = "DEBIT"
    THEN [c EXCEPT !.debitsPending = @ - leg.amount]
    ELSE [c EXCEPT !.creditsPending = @ - leg.amount]

\* Mutant: a void leaves the reserve behind.
ApplyCommitOnly(c, leg, commit) ==
    IF commit THEN ApplyNew(Release(c, leg), leg, "POSTED") ELSE c

ApplyResolve(c, leg, commit) ==
    IF commit THEN ApplyNew(Release(c, leg), leg, "POSTED") ELSE Release(c, leg)

SideOf(legs, d) == {a \in DOMAIN legs : legs[a].direction = d}

SideTotal(legs, d) ==
    SumFunctionOnSet([a \in DOMAIN legs |-> legs[a].amount], SideOf(legs, d))

\* assertBalanced: at least two legs, positive amounts, debits = credits.
Balanced(legs) ==
    /\ Cardinality(DOMAIN legs) >= 2
    /\ \A a \in DOMAIN legs : legs[a].amount > 0
    /\ SideTotal(legs, "DEBIT") = SideTotal(legs, "CREDIT")

\* buildEntries on a new transaction: the locked accounts after every leg.
AfterPost(acct, legs, phase) ==
    [a \in DOMAIN acct |-> IF a \in DOMAIN legs
                           THEN ApplyNew(acct[a], legs[a], phase)
                           ELSE acct[a]]

\* buildEntries on the legs of a pending transaction being resolved.
AfterResolve(acct, legs, commit) ==
    [a \in DOMAIN acct |-> IF a \in DOMAIN legs
                           THEN ApplyResolve(acct[a], legs[a], commit)
                           ELSE acct[a]]

\* The guard buildEntries runs on each account it touches.
GuardHolds(acct, legs) ==
    \A a \in DOMAIN legs : ~ViolatesOverdraftGuard(a, acct[a])
=============================================================================
