--------------------------- MODULE LedgerSessions ---------------------------
(***************************************************************************)
(* The engine running on Postgres (apps/api/src/ledger/prisma-ledger-store *)
(* over packages/db/src/ledger-store and the ledger migrations), statement *)
(* by statement.  A session is one call of ShadowLedgerService.run: it     *)
(* opens a database transaction, looks its key up, locks the account rows  *)
(* in id order, computes, persists and commits.                            *)
(*                                                                         *)
(* A process keeps ONE store per environment, and the store keeps the      *)
(* transaction in course in a single field, `scoped`.  Each statement is   *)
(* sent through whatever transaction `scoped` names at that moment, or     *)
(* through the base client when it names none.  As long as no process has  *)
(* two calls inside runExclusive at once the module implements Ledger;     *)
(* when it has, the counters and the entries part.                         *)
(*                                                                         *)
(* Isolation is Postgres' default, READ COMMITTED: a statement sees what   *)
(* is committed and what its own transaction wrote.                        *)
(***************************************************************************)
EXTENDS LedgerOps, Sequences

CONSTANTS
    Keys, NoKey,
    LockSeq,      \* the accounts in the order of their ids
    Sessions, Base, Processes,
    ProcessOf,    \* the process that runs a session
    Calls,        \* [op, key, legs, hold]: the calls sessions make
    NoCall,
    MaxCalls      \* bound: calls a session makes one after the other

ASSUME SessionsAssumption ==
    /\ ProcessOf \in [Sessions -> Processes]
    /\ Base \notin Sessions
    /\ NoKey \notin Keys
    /\ {LockSeq[i] : i \in DOMAIN LockSeq} = Accounts

\* A call posts legs of its own, or resolves a transaction it names.
ASSUME CallsAssumption ==
    \A c \in Calls :
        /\ c.key \in Keys
        /\ \/ /\ c.op = "post" /\ c.phase \in {"PENDING", "POSTED"} /\ c.hold = NoKey
              /\ DOMAIN c.legs \subseteq Accounts
              /\ c.legs \in [DOMAIN c.legs -> [direction : Directions, amount : Int]]
           \/ c.op \in {"commit", "void"} /\ c.hold \in Keys

VARIABLES
    acct, txn, book,   \* what is committed, as in Ledger
    scoped,            \* scoped[p]: PrismaConnectorLedgerStore.scoped of process p
    owner,             \* owner[a]: the transaction that holds the row lock of a
    work,              \* work[t]: state and uncommitted writes of transaction t
    pc, call, made,
    bound,             \* bound[s]: the handle of the statement s is waiting for
    legs,              \* legs[s]: the legs s is about to write
    seen               \* seen[s]: the engine's copies of the locked accounts

committed == <<acct, txn, book>>
local == <<pc, call, made, bound, legs, seen>>
vars == <<acct, txn, book, scoped, owner, work, pc, call, made, bound, legs, seen>>

\* No uncommitted writes: an overlay on each of the three tables.
NoWrites == [txn |-> <<>>, acct |-> <<>>, entries |-> [a \in Accounts |-> <<>>]]
Closed == [state |-> "closed", writes |-> NoWrites]
Opened == [state |-> "open", writes |-> NoWrites]

Overlay(f, g) == [x \in DOMAIN f \cup DOMAIN g |-> IF x \in DOMAIN g THEN g[x] ELSE f[x]]

\* What a statement sent through handle h sees.
SeenTxn(h) == IF h = Base THEN txn ELSE Overlay(txn, work[h].writes.txn)
SeenAcct(h, a) ==
    IF h # Base /\ a \in DOMAIN work[h].writes.acct THEN work[h].writes.acct[a] ELSE acct[a]

\* The getter `active`, evaluated each time the engine calls the store.
Active(s) == scoped[ProcessOf[s]]

IsUsable(h) == h # Base => work[h].state = "open"

Init ==
    /\ acct = [a \in Accounts |-> ZeroCounters]
    /\ txn = <<>>
    /\ book = [a \in Accounts |-> <<>>]
    /\ scoped = [p \in Processes |-> Base]
    /\ owner = [a \in Accounts |-> Base]
    /\ work = [s \in Sessions |-> Closed]
    /\ pc = [s \in Sessions |-> "idle"]
    /\ call = [s \in Sessions |-> NoCall]
    /\ made = [s \in Sessions |-> 0]
    /\ bound = [s \in Sessions |-> Base]
    /\ legs = [s \in Sessions |-> <<>>]
    /\ seen = [s \in Sessions |-> <<>>]

-----------------------------------------------------------------------------
(* One call.                                                               *)

\* runExclusive: BEGIN, then the callback sets scoped and the engine sends its
\* first statement, findByIdempotencyKey, in the same tick.
Begin(s, c) ==
    /\ pc[s] = "idle"
    /\ made[s] < MaxCalls
    /\ call' = [call EXCEPT ![s] = c]
    /\ made' = [made EXCEPT ![s] = @ + 1]
    /\ work' = [work EXCEPT ![s] = Opened]
    /\ scoped' = [scoped EXCEPT ![ProcessOf[s]] = s]
    /\ pc' = [pc EXCEPT ![s] = IF c.key \in DOMAIN txn THEN "replayed"
                               ELSE IF c.op = "post" THEN "lock" ELSE "findHold"]
    /\ legs' = [legs EXCEPT ![s] = c.legs]
    /\ UNCHANGED <<committed, owner, bound, seen>>

\* resolvePending: findTransaction and findEntriesByTransaction, before any lock.
FindHold(s) ==
    LET t == SeenTxn(Active(s))
        h == call[s].hold
    IN
    /\ pc[s] = "findHold"
    /\ IF IsUsable(Active(s)) /\ h \in DOMAIN t /\ t[h].status = "PENDING"
       THEN /\ legs' = [legs EXCEPT ![s] = t[h].legs]
            /\ pc' = [pc EXCEPT ![s] = "lock"]
       ELSE /\ pc' = [pc EXCEPT ![s] = "threw"]
            /\ UNCHANGED legs
    /\ UNCHANGED <<committed, scoped, owner, work, call, made, bound, seen>>

\* assertBalanced, then lockAccounts is issued: the statement belongs to the
\* active handle from here on.
IssueLock(s) ==
    /\ pc[s] = "lock"
    /\ bound' = [bound EXCEPT ![s] = Active(s)]
    /\ seen' = [seen EXCEPT ![s] = <<>>]
    /\ pc' = [pc EXCEPT ![s] =
                 IF Balanced(legs[s]) /\ IsUsable(Active(s)) THEN "locking" ELSE "threw"]
    /\ UNCHANGED <<committed, scoped, owner, work, call, made, legs>>

\* The rows still to be locked.
Wanted(s) == DOMAIN legs[s] \ DOMAIN seen[s]

\* Mutant: the rows are locked in the order of the legs, debit first.
IsNextAsPosted(s, a) ==
    (\E b \in Wanted(s) : legs[s][b].direction = "DEBIT") => legs[s][a].direction = "DEBIT"

\* The next of them, in the order of lockOrder and of ORDER BY id.
IsNext(s, a) ==
    \E i \in DOMAIN LockSeq :
        LockSeq[i] = a /\ \A j \in 1..(i - 1) : LockSeq[j] \notin Wanted(s)

CanLock(h, a) == owner[a] \in {h, Base}

\* SELECT ... ORDER BY id FOR UPDATE: one row after the other, each read as it
\* is locked.  On the base client the statement is its own transaction, so the
\* lock is gone with the statement.
LockRow(s) ==
    LET h == bound[s] IN
    /\ pc[s] = "locking"
    /\ IsUsable(h)
    /\ \E a \in Wanted(s) :
        /\ IsNext(s, a)
        /\ CanLock(h, a)
        /\ owner' = [owner EXCEPT ![a] = h]
        /\ seen' = [seen EXCEPT ![s] = Overlay(@, [x \in {a} |-> SeenAcct(h, a)])]
        /\ pc' = [pc EXCEPT ![s] = IF Wanted(s) = {a} THEN "build" ELSE "locking"]
    /\ UNCHANGED <<committed, scoped, work, call, made, bound, legs>>

Commits(s) == call[s].op = "commit"

AfterLegs(s) ==
    IF call[s].op = "post" THEN AfterPost(seen[s], legs[s], call[s].phase)
                           ELSE AfterResolve(seen[s], legs[s], Commits(s))

\* buildEntries: the guard, on the copies read under the lock.
Build(s) ==
    /\ pc[s] = "build"
    /\ IF GuardHolds(AfterLegs(s), legs[s])
       THEN /\ pc' = [pc EXCEPT ![s] = "persist"]
            /\ bound' = [bound EXCEPT ![s] = Active(s)]
            /\ seen' = [seen EXCEPT ![s] = AfterLegs(s)]
       ELSE /\ pc' = [pc EXCEPT ![s] = "threw"]
            /\ UNCHANGED <<bound, seen>>
    /\ UNCHANGED <<committed, scoped, owner, work, call, made, legs>>

StatusOf(c) == IF c.op = "post" THEN c.phase
               ELSE IF c.op = "commit" THEN "POSTED" ELSE "VOIDED"

PhaseOf(c) == IF c.op = "post" THEN c.phase
              ELSE IF c.op = "commit" THEN "POSTED" ELSE "VOID"

\* ledger.post_transaction, called once for the new transaction and once more for
\* the status of the pending one: what the two statements write.
Writes(s, w) ==
    LET c == call[s]
        new == [status |-> StatusOf(c), legs |-> legs[s], resolves |-> c.hold]
        old == [status |-> StatusOf(c), legs |-> legs[s], resolves |-> NoKey]
        rows == [k \in {c.key, c.hold} \ {NoKey} |-> IF k = c.key THEN new ELSE old]
    IN [txn |-> Overlay(w.txn, rows),
        acct |-> Overlay(w.acct, seen[s]),
        entries |-> [a \in Accounts |->
            IF a \in DOMAIN legs[s]
            THEN Append(w.entries[a],
                        [txn |-> c.key, direction |-> legs[s][a].direction,
                         amount |-> legs[s][a].amount, phase |-> PhaseOf(c),
                         resulting |-> PostedBalance(a, seen[s][a])])
            ELSE w.entries[a]]]

\* Mutant: the schema without the constraints of the hardening migration.
UniqueKeyOnly(s) == call[s].key \notin DOMAIN SeenTxn(bound[s])

\* The constraints of the schema: one row per idempotency key, one resolver per
\* pending transaction, no overdraft and no negative counter.
SatisfiesConstraints(s) ==
    LET t == SeenTxn(bound[s]) IN
    /\ call[s].key \notin DOMAIN t
    /\ call[s].hold # NoKey => \A k \in DOMAIN t : t[k].resolves # call[s].hold
    /\ \A a \in DOMAIN seen[s] :
           /\ ~ViolatesOverdraftGuard(a, seen[s][a])
           /\ seen[s][a].debitsPending >= 0
           /\ seen[s][a].creditsPending >= 0

\* The rows of an open transaction are published, its locks are released.
Publish(w) ==
    /\ txn' = Overlay(txn, w.txn)
    /\ acct' = Overlay(acct, w.acct)
    /\ book' = [a \in Accounts |-> book[a] \o w.entries[a]]

\* A write waits for a row or a unique key that another open transaction holds.
MustWait(s) ==
    \/ \E a \in DOMAIN seen[s] : owner[a] \notin {bound[s], Base}
    \/ \E t \in Sessions \ {bound[s]} : call[s].key \in DOMAIN work[t].writes.txn

Persist(s) ==
    LET h == bound[s] IN
    /\ pc[s] = "persist"
    /\ ~MustWait(s)
    /\ \/ /\ IsUsable(h) /\ SatisfiesConstraints(s)
          /\ IF h = Base
             THEN /\ Publish(Writes(s, NoWrites))
                  /\ UNCHANGED <<work, owner>>
             ELSE /\ work' = [work EXCEPT ![h].writes = Writes(s, @)]
                  /\ owner' = [a \in Accounts |-> IF a \in DOMAIN seen[s] THEN h ELSE owner[a]]
                  /\ UNCHANGED committed
          /\ pc' = [pc EXCEPT ![s] = "returned"]
       \/ /\ ~(IsUsable(h) /\ SatisfiesConstraints(s))
          /\ work' = IF h # Base /\ work[h].state = "open"
                     THEN [work EXCEPT ![h].state = "broken"] ELSE work
          /\ pc' = [pc EXCEPT ![s] = "threw"]
          /\ UNCHANGED <<committed, owner>>
    /\ UNCHANGED <<scoped, call, made, bound, legs, seen>>

\* SET LOCAL lock_timeout = '3s' in post_transaction: a wait becomes an error,
\* and an error breaks the transaction the statement ran in.
LockTimeout(s) ==
    /\ pc[s] = "persist"
    /\ MustWait(s)
    /\ pc' = [pc EXCEPT ![s] = "threw"]
    /\ work' = IF bound[s] # Base /\ work[bound[s]].state = "open"
               THEN [work EXCEPT ![bound[s]].state = "broken"] ELSE work
    /\ UNCHANGED <<committed, scoped, owner, call, made, bound, legs, seen>>

\* The `finally` of runExclusive: scoped is cleared before COMMIT or ROLLBACK.
Finally(s) ==
    /\ pc[s] \in {"replayed", "returned", "threw"}
    /\ scoped' = [scoped EXCEPT ![ProcessOf[s]] = Base]
    /\ pc' = [pc EXCEPT ![s] = IF @ = "threw" THEN "rollback" ELSE "commit"]
    /\ UNCHANGED <<committed, owner, work, call, made, bound, legs, seen>>

Unlocked(t) == [a \in Accounts |-> IF owner[a] = t THEN Base ELSE owner[a]]

Commit(s) ==
    /\ pc[s] = "commit"
    /\ IF work[s].state = "open" THEN Publish(work[s].writes) ELSE UNCHANGED committed
    /\ work' = [work EXCEPT ![s] = Closed]
    /\ owner' = Unlocked(s)
    /\ pc' = [pc EXCEPT ![s] = "idle"]
    /\ UNCHANGED <<scoped, call, made, bound, legs, seen>>

Rollback(s) ==
    /\ pc[s] = "rollback"
    /\ work' = [work EXCEPT ![s] = Closed]
    /\ owner' = Unlocked(s)
    /\ pc' = [pc EXCEPT ![s] = "idle"]
    /\ UNCHANGED <<committed, scoped, call, made, bound, legs, seen>>

\* Prisma closes an interactive transaction that has been open too long, and the
\* connection of a crashed process is closed: both roll it back.
Expire(t) ==
    /\ work[t].state \in {"open", "broken"}
    /\ work' = [work EXCEPT ![t] = Closed]
    /\ owner' = Unlocked(t)
    /\ UNCHANGED <<committed, scoped, local>>

\* A statement that waits in a transaction that was closed under it.
LockFails(s) ==
    /\ pc[s] = "locking"
    /\ ~IsUsable(bound[s])
    /\ pc' = [pc EXCEPT ![s] = "threw"]
    /\ UNCHANGED <<committed, scoped, owner, work, call, made, bound, legs, seen>>

Step(s) ==
    \/ FindHold(s) \/ IssueLock(s) \/ LockRow(s) \/ LockFails(s) \/ Build(s)
    \/ Persist(s) \/ LockTimeout(s) \/ Finally(s) \/ Commit(s) \/ Rollback(s)

Next ==
    \E s \in Sessions :
        \/ \E c \in Calls : Begin(s, c)
        \/ Step(s)
        \/ Expire(s)

Fairness == \A s \in Sessions : WF_vars(Step(s))

Spec == Init /\ [][Next]_vars /\ Fairness

-----------------------------------------------------------------------------
(* What the store promises.                                                *)

TypeOK ==
    /\ acct \in [Accounts -> Counters]
    /\ DOMAIN txn \subseteq Keys
    /\ scoped \in [Processes -> Sessions \cup {Base}]
    /\ owner \in [Accounts -> Sessions \cup {Base}]
    /\ \A s \in Sessions :
           /\ work[s].state \in {"closed", "open", "broken"}
           /\ pc[s] \in {"idle", "findHold", "lock", "locking", "build", "persist",
                         "replayed", "returned", "threw", "commit", "rollback"}
           /\ made[s] \in 0..MaxCalls
           /\ bound[s] \in Sessions \cup {Base}
           /\ DOMAIN seen[s] \subseteq Accounts

CallLegs == {c.legs : c \in {d \in Calls : d.op = "post"}}

Engine == INSTANCE Ledger WITH
    opened <- Accounts, Singletons <- Accounts, Owners <- {}, AccountsOf <- <<>>,
    LegSets <- CallLegs

\* Statement by statement, with two sessions interleaved, locks, timeouts and
\* rollbacks, the store does nothing the atomic engine would not do: every COMMIT
\* is one whole post, commitPending or voidPending on the current balances.
ImplementsEngine == Engine!Spec

EntrySum(a, d) ==
    SumFunctionOnSet([i \in DOMAIN book[a] |-> book[a][i].amount],
                     {i \in DOMAIN book[a] : /\ book[a][i].phase = "POSTED"
                                             /\ book[a][i].direction = d})

\* The materialised counters are the sum of the entries, the third invariant of
\* invariants.ts.  Counters are written as absolute values, so a session that
\* computes from a balance that is no longer current erases another's movement:
\* two calls of one process that share `scoped` (prisma-ledger-store.ts:39) do.
CountersMatchEntries ==
    \A a \in Accounts :
        /\ acct[a].debitsPosted = EntrySum(a, "DEBIT")
        /\ acct[a].creditsPosted = EntrySum(a, "CREDIT")

\* Every call ends, whatever the order in which sessions ask for the same rows:
\* the locks are taken in id order, so no two sessions wait for each other.
EveryCallEnds == \A s \in Sessions : pc[s] # "idle" ~> pc[s] = "idle"
=============================================================================
