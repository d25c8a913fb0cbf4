------------------------------- MODULE Ledger -------------------------------
(***************************************************************************)
(* The double-entry engine (packages/ledger/src/engine.ts) as its callers  *)
(* see it: each call of post, commitPending and voidPending is one step.   *)
(* That is what InMemoryLedgerStore.runExclusive gives by queueing calls,  *)
(* and what LedgerSessions.tla shows the Postgres store gives by locking.  *)
(*                                                                         *)
(* A transaction is named by its idempotency key, which is unique.  A call *)
(* repeated with a used key answers with the first result (replayed) and a *)
(* refused call throws before persist: both change nothing, so they are    *)
(* stuttering steps here.                                                  *)
(***************************************************************************)
EXTENDS LedgerOps, Sequences

CONSTANTS
    Keys,         \* idempotency keys
    NoKey,        \* no transaction
    Singletons,   \* accounts that exist from the start (the bank's own)
    Owners,       \* customers
    AccountsOf,   \* the accounts opened together for a customer
    LegSets       \* the legs that callers ask to post

ASSUME KeysAssumption == NoKey \notin Keys

ASSUME OwnersAssumption ==
    /\ Singletons \subseteq Accounts
    /\ AccountsOf \in [Owners -> SUBSET Accounts]

Leg == [direction : Directions, amount : Int]

ASSUME LegSetsAssumption ==
    \A legs \in LegSets :
        /\ DOMAIN legs \subseteq Accounts
        /\ legs \in [DOMAIN legs -> Leg]

VARIABLES
    opened,   \* accounts created so far
    acct,     \* acct[a]: the materialised counters of a
    txn,      \* txn[k]: the transaction recorded under key k
    book      \* book[a]: the entries of a, in the order they were written

vars == <<opened, acct, txn, book>>

Txn == [status : {"PENDING", "POSTED", "VOIDED"},
        legs : LegSets,
        resolves : Keys \cup {NoKey}]

Entry == [txn : Keys, direction : Directions, amount : Int,
          phase : EntryPhases, resulting : Int]

TypeOK ==
    /\ opened \subseteq Accounts
    /\ acct \in [Accounts -> Counters]
    /\ DOMAIN txn \subseteq Keys
    /\ txn \in [DOMAIN txn -> Txn]
    /\ book \in [Accounts -> Seq(Entry)]

\* The row persist writes: a record under a new key, and with it the new
\* status of the pending transaction it resolves (the second persist).
Recorded(t, k, r) ==
    [j \in DOMAIN t \cup {k} |->
        IF j = k THEN r
        ELSE IF j = r.resolves THEN [t[j] EXCEPT !.status = r.status]
        ELSE t[j]]

\* Mutant: the stamp takes the reserves out.
BookedAvailable(b, after, legs, k, phase) ==
    [a \in Accounts |->
        IF a \in DOMAIN legs
        THEN Append(b[a], [txn |-> k, direction |-> legs[a].direction,
                           amount |-> legs[a].amount, phase |-> phase,
                           resulting |-> AvailableBalance(a, after[a])])
        ELSE b[a]]

\* The entries buildEntries materialises, each stamped with the posted balance
\* the account has once the entry is applied.
Booked(b, after, legs, k, phase) ==
    [a \in Accounts |->
        IF a \in DOMAIN legs
        THEN Append(b[a], [txn |-> k, direction |-> legs[a].direction,
                           amount |-> legs[a].amount, phase |-> phase,
                           resulting |-> PostedBalance(a, after[a])])
        ELSE b[a]]

Init ==
    /\ opened = Singletons
    /\ acct = [a \in Accounts |-> ZeroCounters]
    /\ txn = <<>>
    /\ book = [a \in Accounts |-> <<>>]

\* ensureAccounts is an upsert: an account that exists keeps its counters.
OpenAccounts(o) ==
    /\ opened' = opened \cup AccountsOf[o]
    /\ UNCHANGED <<acct, txn, book>>

\* findByIdempotencyKey: the call is a repetition.
IsRecorded(k) == k \in DOMAIN txn

\* Mutant: a resolved transaction is resolved again.
IsKnown(h) == h \in DOMAIN txn

\* What resolvePending asks of the transaction it is given.
IsResolvable(h) == h \in DOMAIN txn /\ txn[h].status = "PENDING"

Post(k, legs, phase) ==
    LET after == AfterPost(acct, legs, phase) IN
    /\ ~IsRecorded(k)
    /\ Balanced(legs)
    /\ DOMAIN legs \subseteq opened
    /\ GuardHolds(after, legs)
    /\ acct' = after
    /\ txn' = Recorded(txn, k, [status |-> phase, legs |-> legs, resolves |-> NoKey])
    /\ book' = Booked(book, after, legs, k, phase)
    /\ UNCHANGED opened

ResolvePending(k, h, commit) ==
    LET legs == txn[h].legs
        after == AfterResolve(acct, legs, commit)
    IN
    /\ k \in Keys
    /\ ~IsRecorded(k)
    /\ IsResolvable(h)
    /\ GuardHolds(after, legs)
    /\ acct' = after
    /\ txn' = Recorded(txn, k,
                       [status |-> IF commit THEN "POSTED" ELSE "VOIDED",
                        legs |-> legs, resolves |-> h])
    /\ book' = Booked(book, after, legs, k, IF commit THEN "POSTED" ELSE "VOID")
    /\ UNCHANGED opened

CommitPending(k, h) == ResolvePending(k, h, TRUE)

VoidPending(k, h) == ResolvePending(k, h, FALSE)

Next ==
    \/ \E o \in Owners : OpenAccounts(o)
    \/ \E k \in Keys, legs \in LegSets, phase \in {"PENDING", "POSTED"} :
           Post(k, legs, phase)
    \/ \E k, h \in Keys : CommitPending(k, h) \/ VoidPending(k, h)

Spec == Init /\ [][Next]_vars

-----------------------------------------------------------------------------
(* What the engine promises.                                               *)

\* No account without allowsNegative ever has less than nothing to spend, with
\* the reserves of every pending transaction already taken out.  The guard of
\* buildEntries is the only thing that keeps two authorisations in flight from
\* reserving the same money (engine.ts, balances.ts).
NoOverdraft == \A a \in Accounts \ AllowsNegative : AvailableBalance(a, acct[a]) >= 0

IsHold(k) == txn[k].resolves = NoKey /\ txn[k].status = "PENDING"

ResolversOf(h) == {k \in DOMAIN txn : txn[k].resolves = h}

\* A pending transaction is settled by exactly one other transaction: while it
\* is PENDING nothing resolves it, and once resolved its single resolver has the
\* same legs and the same outcome (resolvePending writes both).
ResolvedOnce ==
    /\ \A k \in DOMAIN txn :
           txn[k].status = "PENDING" => ResolversOf(k) = {} /\ txn[k].resolves = NoKey
    /\ \A k, j \in DOMAIN txn :
           /\ txn[k].resolves # NoKey
           /\ txn[k].resolves = txn[j].resolves
           => k = j
    /\ \A k \in DOMAIN txn :
           txn[k].resolves # NoKey =>
               /\ txn[k].resolves \in DOMAIN txn
               /\ txn[txn[k].resolves].legs = txn[k].legs
               /\ txn[txn[k].resolves].status = txn[k].status

\* The guard can never refuse to settle or to release a reserve: whatever else
\* was posted meanwhile, both outcomes of every pending transaction are open.
\* If it could, an outgoing PIX the provider executed could not be recorded.
HoldAlwaysResolvable ==
    \A h \in DOMAIN txn : \A commit \in BOOLEAN :
        IsHold(h) => GuardHolds(AfterResolve(acct, txn[h].legs, commit), txn[h].legs)

\* The pending transactions with a leg on side d of account a, and their sum.
ReservesOn(a, d) == {h \in DOMAIN txn : IsHold(h) /\ a \in SideOf(txn[h].legs, d)}

Outstanding(a, d) ==
    SumFunction([h \in ReservesOn(a, d) |-> txn[h].legs[a].amount])

\* The pending counters are exactly the reserves still outstanding, so that
\* resolving one returns what it took and never more (ledger_account_counters_nonneg
\* in the schema; checkInvariants does not look at these two counters).
PendingMatchesHolds ==
    \A a \in Accounts :
        /\ acct[a].debitsPending = Outstanding(a, "DEBIT")
        /\ acct[a].creditsPending = Outstanding(a, "CREDIT")

\* The statement of an account adds up: every entry carries the balance of the
\* one before it plus its own movement, and the last one carries the balance of
\* the counters.  balanceAsOf and the statement read the stamp and never sum.
Movement(a, e) ==
    IF e.phase # "POSTED" THEN 0
    ELSE IF e.direction = NormalBalance[a] THEN e.amount ELSE -e.amount

RunningBalance ==
    \A a \in Accounts :
        /\ \A i \in 1..Len(book[a]) :
               book[a][i].resulting =
                   (IF i = 1 THEN 0 ELSE book[a][i - 1].resulting)
                       + Movement(a, book[a][i])
        /\ PostedBalance(a, acct[a]) =
               (IF book[a] = <<>> THEN 0 ELSE book[a][Len(book[a])].resulting)

\* The whole ledger sums to zero in every state, for what is posted and for what
\* is reserved (ledger_balanced in invariants.ts, over the counters).
TrialBalance ==
    /\ SumFunction([a \in Accounts |-> acct[a].debitsPosted])
           = SumFunction([a \in Accounts |-> acct[a].creditsPosted])
    /\ SumFunction([a \in Accounts |-> acct[a].debitsPending])
           = SumFunction([a \in Accounts |-> acct[a].creditsPending])

\* The books close: after any sequence of posts, commits and voids the pending
\* counters are the open reserves, and debits equal credits over the ledger.
BooksClose == PendingMatchesHolds /\ TrialBalance

\* History is never rewritten: entries are only appended, a recorded transaction
\* keeps its legs, and its status moves once, from PENDING to an outcome.
HistoryIsAppendOnly ==
    [][ /\ \A a \in Accounts :
               /\ Len(book[a]) <= Len(book'[a])
               /\ \A i \in 1..Len(book[a]) : book'[a][i] = book[a][i]
        /\ \A k \in DOMAIN txn :
               /\ k \in DOMAIN txn'
               /\ txn'[k].legs = txn[k].legs
               /\ txn[k].status # "PENDING" => txn'[k] = txn[k] ]_vars
=============================================================================
