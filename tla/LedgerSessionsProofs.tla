------------------------ MODULE LedgerSessionsProofs ------------------------
(***************************************************************************)
(* The store on Postgres implements the atomic engine, for any number of   *)
(* sessions, accounts, calls, legs and processes, as long as no process    *)
(* has two calls inside runExclusive at once, which nothing in the code    *)
(* ensures. Sessions interleave statement by statement, wait, time out,    *)
(* expire and roll back; each COMMIT is one step of Ledger and no other    *)
(* statement changes what is committed. What holds of the store also when  *)
(* calls of a process overlap, and share `scoped`, is proved at the end.   *)
(*                                                                         *)
(* The invariant is the argument for two-phase locking: the copies a       *)
(* session computes from are current for as long as its transaction is     *)
(* open, because only the owner of a row writes it; a key is free until    *)
(* COMMIT, because a second writer of it waits; and a reserve is still     *)
(* pending at COMMIT, because whoever resolves it owns the rows of its     *)
(* legs, and the constraint on resolvers is read under those locks.        *)
(***************************************************************************)
EXTENDS LedgerSessions, SequenceTheorems, FiniteSetTheorems, TLAPS

\* The call of s is between the assignment to scoped and the `finally`.
Inside(s) ==
  pc[s] \in {"findHold", "lock", "locking", "build", "persist", "replayed", "returned", "threw"}

\* No process has two calls inside runExclusive at this moment.
OneCallPerProcess ==
  \A s, t \in Sessions : ProcessOf[s] = ProcessOf[t] /\ Inside(s) /\ Inside(t) => s = t

-----------------------------------------------------------------------------
(* The invariant *)

\* Between BEGIN and the `finally` the process's scoped is the session's own.
Scoping ==
  \A s \in Sessions :
    /\ Inside(s) => scoped[ProcessOf[s]] = s
    /\ pc[s] \in {"locking", "persist"} => bound[s] = s

\* The tables as functions and records; only a transaction without resolver is pending.
Tables ==
  /\ acct = [a \in Accounts |-> acct[a]] /\ book = [a \in Accounts |-> book[a]]
  /\ \A a \in Accounts : \E S : book[a] \in Seq(S)
  /\ DOMAIN txn \subseteq Keys /\ txn = [k \in DOMAIN txn |-> txn[k]]
  /\ \A k \in DOMAIN txn :
       /\ txn[k] = [status |-> txn[k].status, legs |-> txn[k].legs, resolves |-> txn[k].resolves]
       /\ DOMAIN txn[k].legs \subseteq Accounts
       /\ txn[k].status = "PENDING" => txn[k].resolves = NoKey

Locals ==
  /\ DOMAIN owner = Accounts /\ DOMAIN scoped = Processes
  /\ DOMAIN work = Sessions /\ DOMAIN pc = Sessions /\ DOMAIN call = Sessions
  /\ DOMAIN bound = Sessions /\ DOMAIN legs = Sessions /\ DOMAIN seen = Sessions
  /\ \A s \in Sessions :
       /\ work[s] = [state |-> work[s].state, writes |-> work[s].writes]
       /\ pc[s] # "idle" => call[s] \in Calls

\* The legs are those the call gives or those of the reserve it resolves, and that
\* reserve is pending or was resolved meanwhile.
LegsKnown(s) ==
  /\ DOMAIN legs[s] \subseteq Accounts
  /\ call[s].op = "post" => legs[s] = call[s].legs
  /\ call[s].op # "post" =>
       /\ call[s].hold \in DOMAIN txn /\ txn[call[s].hold].legs = legs[s]
       /\ \/ txn[call[s].hold].status = "PENDING"
          \/ \E k \in DOMAIN txn : txn[k].resolves = call[s].hold

\* The rows read so far are locked, and the copies are what is committed.
Current(s) ==
  work[s].state = "open" => \A a \in DOMAIN seen[s] : owner[a] = s /\ seen[s][a] = acct[a]

Result(s, a) ==
  IF call[s].op = "post" THEN ApplyNew(acct[a], legs[s][a], call[s].phase)
                         ELSE ApplyResolve(acct[a], legs[s][a], Commits(s))

\* The rows of the legs are locked, and the copies are what the legs make of them.
Computed(s) ==
  /\ DOMAIN seen[s] = DOMAIN legs[s]
  /\ work[s].state = "open" =>
       \A a \in DOMAIN legs[s] :
         /\ owner[a] = s
         /\ seen[s][a] = Result(s, a)
         /\ ~ViolatesOverdraftGuard(a, seen[s][a])

Stage(s) ==
  /\ pc[s] = "findHold" => call[s].op # "post"
  /\ pc[s] \in {"lock", "locking", "build", "persist"} => LegsKnown(s)
  /\ pc[s] \in {"locking", "build", "persist"} => Balanced(legs[s])
  /\ pc[s] = "locking" => DOMAIN seen[s] \subseteq DOMAIN legs[s] /\ Current(s)
  /\ pc[s] = "build" => DOMAIN seen[s] = DOMAIN legs[s] /\ Current(s)
  /\ pc[s] = "persist" => Computed(s)

\* The transaction has written and is about to commit.
Written(s) == work[s].writes # NoWrites

Ready(s) ==
  /\ pc[s] \in {"returned", "commit"} /\ work[s].state = "open"
  /\ work[s].writes = Writes(s, NoWrites)
  /\ LegsKnown(s) /\ Balanced(legs[s]) /\ Computed(s)
  /\ call[s].key \notin DOMAIN txn
  /\ call[s].op # "post" => txn[call[s].hold].status = "PENDING"

WritesInv ==
  /\ \A s \in Sessions : Written(s) => Ready(s)
  /\ \A s, t \in Sessions : Written(s) /\ Written(t) /\ call[s].key = call[t].key => s = t

SessionsInv ==
  /\ Scoping /\ Tables /\ Locals
  /\ \A s \in Sessions : Stage(s)
  /\ WritesInv
-----------------------------------------------------------------------------
(* Steps that commit nothing *)

\* A step of session s leaves the other sessions, and the locks they own, alone.
LocalStep(s) ==
  /\ UNCHANGED committed
  /\ \A t \in Sessions \ {s} :
       /\ pc'[t] = pc[t] /\ call'[t] = call[t] /\ bound'[t] = bound[t] /\ legs'[t] = legs[t]
       /\ seen'[t] = seen[t] /\ work'[t] = work[t]
       /\ Inside(t) => scoped'[ProcessOf[t]] = scoped[ProcessOf[t]]
       /\ \A a \in Accounts : owner[a] = t => owner'[a] = t

LEMMA BystanderKeeps ==
  ASSUME NEW s \in Sessions, LocalStep(s), NEW t \in Sessions \ {s}, SessionsInv
  PROVE  Stage(t)' /\ (Written(t)' <=> Written(t)) /\ (Written(t) => Ready(t)')
<1>1. Stage(t) /\ (Written(t) => Ready(t))
  BY DEF SessionsInv, WritesInv
<1>2. /\ UNCHANGED <<acct, txn, book>>
      /\ pc'[t] = pc[t] /\ call'[t] = call[t] /\ legs'[t] = legs[t]
      /\ seen'[t] = seen[t] /\ work'[t] = work[t]
      /\ \A a \in Accounts : owner[a] = t => owner'[a] = t
  BY DEF LocalStep, committed
<1>3. LegsKnown(t) => LegsKnown(t)'
  BY <1>2 DEF LegsKnown
<1>4. Current(t) /\ DOMAIN seen[t] \subseteq Accounts => Current(t)'
  BY <1>2 DEF Current
<1>5. \A a : Result(t, a)' = Result(t, a)
  BY <1>2 DEF Result, Commits
<1>6. Computed(t) /\ DOMAIN legs[t] \subseteq Accounts => Computed(t)'
  BY <1>2, <1>5 DEF Computed
<1>7. Stage(t)'
  BY <1>1, <1>2, <1>3, <1>4, <1>6 DEF Stage, LegsKnown
<1>8. Written(t)' <=> Written(t)
  BY <1>2 DEF Written, NoWrites
<1>9. Writes(t, NoWrites)' = Writes(t, NoWrites)
  BY <1>2 DEF Writes, NoWrites
<1>10. Written(t) => Ready(t)'
  BY <1>1, <1>2, <1>3, <1>6, <1>9 DEF Ready, LegsKnown
<1>11. QED
  BY <1>7, <1>8, <1>10

LEMMA LocalKeeps ==
  ASSUME SessionsInv, NEW s \in Sessions, LocalStep(s), Locals', Stage(s)',
         /\ Inside(s)' => scoped'[ProcessOf[s]] = s
         /\ pc'[s] \in {"locking", "persist"} => bound'[s] = s,
         Written(s)' => /\ Ready(s)'
                        /\ \A t \in Sessions \ {s} : Written(t) => call[t].key # call'[s].key
  PROVE  SessionsInv'
<1>1. Scoping'
  BY DEF LocalStep, SessionsInv, Scoping, Inside
<1>2. Tables'
  <2>1. UNCHANGED <<acct, txn, book>> /\ Tables
    BY DEF LocalStep, committed, SessionsInv
  <2>2. QED
    BY <2>1 DEF Tables
<1>3. \A t \in Sessions : Stage(t)'
  BY BystanderKeeps
<1>4. \A t \in Sessions : Written(t)' => Ready(t)'
  BY BystanderKeeps
<1>5. ASSUME NEW t \in Sessions, NEW u \in Sessions, Written(t)', Written(u)',
             call'[t].key = call'[u].key
      PROVE  t = u
  <2>1. \A v \in Sessions \ {s} : call'[v] = call[v] /\ (Written(v)' <=> Written(v))
    BY BystanderKeeps DEF LocalStep
  <2>2. CASE t = s
    BY <1>5, <2>1, <2>2
  <2>3. CASE u = s
    BY <1>5, <2>1, <2>3
  <2>4. CASE t # s /\ u # s
    BY <1>5, <2>1, <2>4 DEF SessionsInv, WritesInv
  <2>5. QED
    BY <2>2, <2>3, <2>4
<1>6. QED
  BY <1>1, <1>2, <1>3, <1>4, <1>5 DEF SessionsInv, WritesInv

\* Nothing is written before persist returns.
LEMMA NotWritten ==
  ASSUME SessionsInv, NEW s \in Sessions, pc[s] \notin {"returned", "commit"}
  PROVE  work[s].writes = NoWrites
  BY DEF SessionsInv, WritesInv, Written, Ready

LEMMA EmptyOverlay ==
  /\ DOMAIN <<>> = {}
  /\ \A f : Overlay(f, <<>>) = [x \in DOMAIN f |-> f[x]]
<1>1. DOMAIN <<>> = {}
  OBVIOUS
<1>2. QED
  BY <1>1 DEF Overlay

\* Its own transaction shows a session that has not written what is committed.
LEMMA SeesCommitted ==
  ASSUME SessionsInv, NEW s \in Sessions, pc[s] \notin {"returned", "commit"}
  PROVE  SeenTxn(s) = txn /\ \A a : SeenAcct(s, a) = acct[a]
<1>1. work[s].writes = NoWrites /\ s # Base
  BY NotWritten, SessionsAssumption
<1>2. work[s].writes.txn = <<>> /\ work[s].writes.acct = <<>>
  BY <1>1 DEF NoWrites
<1>3. txn = [k \in DOMAIN txn |-> txn[k]]
  BY DEF SessionsInv, Tables
<1>4. QED
  BY <1>1, <1>2, <1>3, EmptyOverlay DEF SeenTxn, SeenAcct

LEMMA BeginKeeps ==
  ASSUME OneCallPerProcess', SessionsInv, NEW s \in Sessions, NEW c \in Calls, Begin(s, c)
  PROVE  SessionsInv' /\ UNCHANGED committed
<1>1. Locals /\ \A t \in Sessions : ProcessOf[t] \in Processes
  BY SessionsAssumption DEF SessionsInv
<1>2. /\ call'[s] = c /\ legs'[s] = c.legs /\ work'[s] = Opened /\ scoped'[ProcessOf[s]] = s
      /\ pc'[s] \in {"replayed", "lock", "findHold"}
      /\ pc'[s] = "lock" => c.op = "post"
      /\ pc'[s] = "findHold" => c.op # "post"
  BY <1>1 DEF Begin, Locals
<1>3. LocalStep(s)
  <2>1. \A t \in Sessions \ {s} : pc'[t] = pc[t] /\ (Inside(t)' <=> Inside(t))
    BY <1>1 DEF Begin, Locals, Inside
  <2>2. \A t \in Sessions \ {s} : Inside(t) => ProcessOf[t] # ProcessOf[s]
    BY <1>2, <2>1 DEF OneCallPerProcess, Inside
  <2>3. QED
    BY <1>1, <2>2 DEF Begin, Locals, LocalStep
<1>4. Locals'
  <2>1. Opened = [state |-> Opened.state, writes |-> Opened.writes]
    BY DEF Opened
  <2>2. QED
    BY <1>1, <1>2, <1>3, <2>1 DEF Begin, Locals, LocalStep
<1>5. Stage(s)'
  <2>1. pc'[s] = "lock" => LegsKnown(s)'
    BY <1>2, CallsAssumption DEF LegsKnown
  <2>2. QED
    BY <1>2, <2>1 DEF Stage
<1>6. ~Written(s)'
  BY <1>2 DEF Written, Opened, NoWrites
<1>7. QED
  BY <1>2, <1>3, <1>4, <1>5, <1>6, LocalKeeps DEF LocalStep

\* A step of a session that has not written and writes nothing.
LEMMA QuietKeeps ==
  ASSUME SessionsInv, NEW s \in Sessions, pc[s] \notin {"returned", "commit"},
         LocalStep(s), Locals', Stage(s)', work'[s].writes = work[s].writes,
         scoped'[ProcessOf[s]] = s,
         pc'[s] \in {"locking", "persist"} => bound'[s] = s
  PROVE  SessionsInv' /\ UNCHANGED committed
<1>1. ~Written(s)'
  BY NotWritten DEF Written, NoWrites
<1>2. QED
  BY <1>1, LocalKeeps DEF LocalStep

LEMMA FindHoldKeeps ==
  ASSUME SessionsInv, NEW s \in Sessions, FindHold(s) PROVE SessionsInv' /\ UNCHANGED committed
<1>1. Locals /\ pc[s] = "findHold" /\ Active(s) = s /\ Stage(s) /\ Tables
  BY DEF FindHold, SessionsInv, Scoping, Inside, Active
<1>2. SeenTxn(s) = txn
  BY <1>1, SeesCommitted
<1>3. /\ pc'[s] \in {"lock", "threw"} /\ UNCHANGED <<committed, scoped, owner, work, call, made, bound, seen>>
      /\ pc'[s] = "lock" => LET h == call[s].hold
                            IN  h \in DOMAIN txn /\ txn[h].status = "PENDING" /\ legs'[s] = txn[h].legs
  BY <1>1, <1>2 DEF FindHold, Locals
<1>4. LocalStep(s)
  BY <1>1 DEF FindHold, Locals, LocalStep
<1>5. Locals'
  BY <1>1 DEF FindHold, Locals
<1>6. Stage(s)'
  <2>1. pc'[s] = "lock" => LegsKnown(s)'
    BY <1>1, <1>3 DEF LegsKnown, Stage, Tables, committed
  <2>2. QED
    BY <1>3, <2>1 DEF Stage
<1>7. QED
  BY <1>1, <1>3, <1>4, <1>5, <1>6, QuietKeeps DEF Active

LEMMA IssueLockKeeps ==
  ASSUME SessionsInv, NEW s \in Sessions, IssueLock(s) PROVE SessionsInv' /\ UNCHANGED committed
<1>1. Locals /\ pc[s] = "lock" /\ Active(s) = s /\ LegsKnown(s)
  BY DEF IssueLock, SessionsInv, Scoping, Inside, Active, Stage
<1>2. /\ pc'[s] \in {"locking", "threw"}
      /\ pc'[s] = "locking" => Balanced(legs[s])
      /\ bound'[s] = s /\ seen'[s] = <<>>
      /\ UNCHANGED <<committed, scoped, owner, work, call, made, legs>>
  BY <1>1 DEF IssueLock, Locals
<1>3. LocalStep(s)
  BY <1>1 DEF IssueLock, Locals, LocalStep
<1>4. Locals'
  BY <1>1 DEF IssueLock, Locals
<1>5. Stage(s)'
  <2>1. LegsKnown(s)' /\ (pc'[s] = "locking" => Balanced(legs[s])')
    BY <1>1, <1>2 DEF LegsKnown, committed
  <2>2. DOMAIN seen'[s] = {}
    BY <1>2, EmptyOverlay
  <2>3. Current(s)'
    BY <2>2 DEF Current
  <2>4. QED
    BY <1>2, <2>1, <2>2, <2>3 DEF Stage
<1>6. QED
  BY <1>1, <1>2, <1>3, <1>4, <1>5, QuietKeeps DEF Active

\* One row more is locked, and read as it is locked.
LEMMA LockRowKeeps ==
  ASSUME SessionsInv, NEW s \in Sessions, LockRow(s) PROVE SessionsInv' /\ UNCHANGED committed
<1>1. /\ Locals /\ pc[s] = "locking" /\ bound[s] = s /\ LegsKnown(s) /\ Balanced(legs[s])
      /\ DOMAIN seen[s] \subseteq DOMAIN legs[s] /\ Current(s) /\ scoped[ProcessOf[s]] = s
  BY DEF LockRow, SessionsInv, Scoping, Inside, Stage
<1>2. work[s].state = "open" /\ s # Base
  BY <1>1, SessionsAssumption DEF LockRow, IsUsable
<1>3. PICK a \in Wanted(s) :
        /\ CanLock(s, a)
        /\ owner' = [owner EXCEPT ![a] = s]
        /\ seen' = [seen EXCEPT ![s] = Overlay(@, [x \in {a} |-> SeenAcct(s, a)])]
        /\ pc' = [pc EXCEPT ![s] = IF Wanted(s) = {a} THEN "build" ELSE "locking"]
  BY <1>1, ZenonT(60) DEF LockRow
<1>4. a \in DOMAIN legs[s] /\ a \in Accounts /\ owner[a] \in {s, Base}
  BY <1>1, <1>3 DEF Wanted, LegsKnown, CanLock
<1>5. UNCHANGED <<committed, scoped, work, call, made, bound, legs>>
  BY DEF LockRow
<1>6. /\ DOMAIN seen'[s] = DOMAIN seen[s] \cup {a} /\ seen'[s][a] = acct[a]
      /\ \A x \in DOMAIN seen[s] : x # a => seen'[s][x] = seen[s][x]
  <2>1. seen'[s] = Overlay(seen[s], [x \in {a} |-> SeenAcct(s, a)])
    BY <1>1, <1>3 DEF Locals
  <2>2. SeenAcct(s, a) = acct[a]
    BY <1>1, SeesCommitted
  <2>3. QED
    BY <2>1, <2>2 DEF Overlay
<1>7. LocalStep(s)
  BY <1>1, <1>3, <1>4, <1>5, SessionsAssumption DEF Locals, LocalStep
<1>8. Locals'
  BY <1>1, <1>3, <1>5 DEF Locals
<1>9. Stage(s)'
  <2>1. pc'[s] = IF Wanted(s) = {a} THEN "build" ELSE "locking"
    BY <1>1, <1>3 DEF Locals
  <2>2. LegsKnown(s)' /\ Balanced(legs[s])'
    BY <1>1, <1>5 DEF LegsKnown, committed
  <2>3. DOMAIN seen'[s] \subseteq DOMAIN legs'[s]
    BY <1>1, <1>4, <1>5, <1>6
  <2>4. Wanted(s) = {a} => DOMAIN seen'[s] = DOMAIN legs'[s]
    BY <1>1, <1>5, <1>6 DEF Wanted
  <2>5. Current(s)'
    <3> SUFFICES ASSUME NEW x \in DOMAIN seen'[s] PROVE owner'[x] = s /\ seen'[s][x] = acct'[x]
      BY DEF Current
    <3>1. UNCHANGED acct /\ owner'[a] = s /\ \A y \in Accounts : y # a => owner'[y] = owner[y]
      BY <1>1, <1>3, <1>4, <1>5 DEF committed, Locals
    <3>2. x # a => x \in DOMAIN seen[s] /\ x \in Accounts
      BY <1>1, <1>6 DEF LegsKnown
    <3>3. QED
      BY <1>1, <1>2, <1>6, <3>1, <3>2 DEF Current
  <2>6. QED
    BY <2>1, <2>2, <2>3, <2>4, <2>5 DEF Stage
<1>10. QED
  <2>1. pc'[s] \in {"locking", "persist"} => bound'[s] = s
    BY <1>1, <1>5
  <2>2. QED
    BY <1>1, <1>5, <1>7, <1>8, <1>9, <2>1, QuietKeeps

\* The legs are applied to the copies; what comes out is what they make of the rows.
LEMMA BuildKeeps ==
  ASSUME SessionsInv, NEW s \in Sessions, Build(s) PROVE SessionsInv' /\ UNCHANGED committed
<1>1. /\ Locals /\ pc[s] = "build" /\ LegsKnown(s) /\ Balanced(legs[s])
      /\ DOMAIN seen[s] = DOMAIN legs[s] /\ Current(s) /\ Active(s) = s
  BY DEF Build, SessionsInv, Scoping, Inside, Stage, Active
<1>2. /\ UNCHANGED <<committed, scoped, owner, work, call, made, legs>>
      /\ pc'[s] \in {"persist", "threw"}
      /\ pc'[s] = "persist" => /\ GuardHolds(AfterLegs(s), legs[s])
                               /\ bound'[s] = s /\ seen'[s] = AfterLegs(s)
  BY <1>1 DEF Build, Locals
<1>3. LocalStep(s)
  BY <1>1 DEF Build, Locals, LocalStep
<1>4. Locals'
  BY <1>1 DEF Build, Locals
<1>5. ASSUME pc'[s] = "persist" PROVE Computed(s)'
  <2>1. DOMAIN AfterLegs(s) = DOMAIN legs[s]
    BY <1>1 DEF AfterLegs, AfterPost, AfterResolve
  <2>2. ASSUME work[s].state = "open", NEW a \in DOMAIN legs[s]
        PROVE  owner[a] = s /\ AfterLegs(s)[a] = Result(s, a)
    <3>1. owner[a] = s /\ seen[s][a] = acct[a]
      BY <1>1, <2>2 DEF Current
    <3>2. QED
      BY <1>1, <2>2, <3>1 DEF AfterLegs, AfterPost, AfterResolve, Result
  <2>3. \A a \in DOMAIN legs[s] : ~ViolatesOverdraftGuard(a, AfterLegs(s)[a])
    BY <1>2, <1>5 DEF GuardHolds
  <2>4. \A a : Result(s, a)' = Result(s, a)
    BY <1>2 DEF Result, Commits, committed
  <2>5. QED
    BY <1>2, <1>5, <2>1, <2>2, <2>3, <2>4 DEF Computed
<1>6. Stage(s)'
  <2>1. LegsKnown(s)' /\ Balanced(legs[s])'
    BY <1>1, <1>2 DEF LegsKnown, committed
  <2>2. QED
    BY <1>2, <1>5, <2>1 DEF Stage
<1>7. QED
  BY <1>1, <1>2, <1>3, <1>4, <1>6, QuietKeeps DEF Active

\* A session that has not written and will not write any more.
LEMMA GivingUpKeeps ==
  ASSUME SessionsInv, NEW s \in Sessions, LocalStep(s), Locals', ~Written(s)',
         pc'[s] \in {"threw", "rollback", "commit", "idle"},
         pc'[s] = "threw" => scoped'[ProcessOf[s]] = s
  PROVE  SessionsInv' /\ UNCHANGED committed
<1>1. Stage(s)'
  BY DEF Stage
<1>2. QED
  BY <1>1, LocalKeeps DEF LocalStep, Inside

LEMMA LockFailsKeeps ==
  ASSUME SessionsInv, NEW s \in Sessions, LockFails(s) \/ LockTimeout(s)
  PROVE  SessionsInv' /\ UNCHANGED committed
<1>1. /\ Locals /\ pc[s] \in {"locking", "persist"} /\ bound[s] = s
      /\ scoped[ProcessOf[s]] = s /\ s # Base
  BY SessionsAssumption DEF LockFails, LockTimeout, SessionsInv, Scoping, Inside
<1>2. /\ UNCHANGED <<committed, scoped, owner, call, made, bound, legs, seen>>
      /\ pc' = [pc EXCEPT ![s] = "threw"]
      /\ work' = work \/ work' = [work EXCEPT ![s].state = "broken"]
  BY <1>1 DEF LockFails, LockTimeout
<1>3. /\ work'[s].writes = work[s].writes
      /\ work'[s] = [state |-> work'[s].state, writes |-> work'[s].writes]
  BY <1>1, <1>2 DEF Locals
<1>4. LocalStep(s)
  BY <1>1, <1>2 DEF Locals, LocalStep
<1>5. Locals'
  BY <1>1, <1>2, <1>3 DEF Locals
<1>6. ~Written(s)'
  BY <1>1, <1>3, NotWritten DEF Written, NoWrites
<1>7. pc'[s] = "threw" /\ scoped'[ProcessOf[s]] = s
  BY <1>1, <1>2 DEF Locals
<1>8. QED
  BY <1>4, <1>5, <1>6, <1>7, GivingUpKeeps

LEMMA RollbackKeeps ==
  ASSUME SessionsInv, NEW s \in Sessions, Rollback(s) PROVE SessionsInv' /\ UNCHANGED committed
<1>1. Locals
  BY DEF SessionsInv
<1>2. work'[s] = Closed /\ pc'[s] = "idle"
  BY <1>1 DEF Rollback, Locals
<1>3. LocalStep(s)
  BY <1>1, SessionsAssumption DEF Rollback, Locals, LocalStep, Unlocked
<1>4. Locals'
  BY <1>1, <1>2, <1>3 DEF Rollback, Locals, LocalStep, Unlocked, Closed
<1>5. ~Written(s)'
  BY <1>2 DEF Written, Closed, NoWrites
<1>6. QED
  BY <1>2, <1>3, <1>4, <1>5, GivingUpKeeps

\* The `finally` clears scoped; what the transaction wrote stays as it was.
LEMMA FinallyKeeps ==
  ASSUME OneCallPerProcess, SessionsInv, NEW s \in Sessions, Finally(s)
  PROVE  SessionsInv' /\ UNCHANGED committed
<1>1. Locals /\ \A t \in Sessions : ProcessOf[t] \in Processes
  BY SessionsAssumption DEF SessionsInv
<1>2. /\ UNCHANGED <<committed, owner, work, call, made, bound, legs, seen>>
      /\ pc'[s] \in {"commit", "rollback"} /\ (pc[s] = "returned" => pc'[s] = "commit")
      /\ pc[s] \in {"replayed", "returned", "threw"}
  BY <1>1 DEF Finally, Locals
<1>3. LocalStep(s)
  <2>1. \A t \in Sessions \ {s} : Inside(t) => ProcessOf[t] # ProcessOf[s]
    BY <1>2 DEF OneCallPerProcess, Inside
  <2>2. QED
    BY <1>1, <2>1 DEF Finally, Locals, LocalStep
<1>4. Locals'
  BY <1>1, <1>2, <1>3 DEF Finally, Locals, LocalStep
<1>5. Stage(s)'
  BY <1>2 DEF Stage
<1>6. ASSUME Written(s)' PROVE Ready(s)' /\ \A t \in Sessions \ {s} : Written(t) => call[t].key # call'[s].key
  <2>1. Written(s)
    BY <1>2, <1>6 DEF Written, NoWrites
  <2>2. Ready(s) /\ pc[s] = "returned"
    BY <1>2, <2>1 DEF SessionsInv, WritesInv, Ready
  <2>3. UNCHANGED <<acct, txn, owner, work, call, legs, seen>>
    BY <1>2 DEF committed
  <2>4. LegsKnown(s)' /\ Balanced(legs[s])'
    BY <2>2, <2>3 DEF LegsKnown, Ready
  <2>5. Computed(s)'
    <3>1. \A a : Result(s, a)' = Result(s, a)
      BY <2>3 DEF Result, Commits
    <3>2. QED
      BY <2>2, <2>3, <3>1 DEF Computed, Ready
  <2>6. Writes(s, NoWrites)' = Writes(s, NoWrites)
    BY <2>3 DEF Writes, NoWrites
  <2>7. Ready(s)'
    BY <1>2, <2>2, <2>3, <2>4, <2>5, <2>6 DEF Ready
  <2>8. QED
    BY <2>1, <2>3, <2>7 DEF SessionsInv, WritesInv
<1>7. QED
  BY <1>2, <1>3, <1>4, <1>5, <1>6, LocalKeeps DEF LocalStep, Inside

\* A transaction closed from outside takes its writes and its locks with it; the
\* session it belongs to goes on without it.
LEMMA ExpireKeeps ==
  ASSUME SessionsInv, NEW s \in Sessions, Expire(s) PROVE SessionsInv' /\ UNCHANGED committed
<1>1. Locals /\ Stage(s) /\ Scoping
  BY DEF SessionsInv
<1>2. /\ work'[s] = Closed
      /\ UNCHANGED <<acct, txn, book, scoped, pc, call, made, bound, legs, seen>>
  BY <1>1 DEF Expire, Locals, committed, local
<1>3. LocalStep(s)
  BY <1>1, <1>2, SessionsAssumption DEF Expire, Locals, LocalStep, Unlocked, committed, local
<1>4. Locals'
  BY <1>1, <1>2, <1>3 DEF Expire, Locals, LocalStep, Unlocked, Closed
<1>5. Stage(s)'
  <2>1. work'[s].state # "open"
    BY <1>2 DEF Closed
  <2>2. Current(s)' /\ (DOMAIN seen[s] = DOMAIN legs[s] => Computed(s)')
    BY <1>2, <2>1 DEF Current, Computed
  <2>3. LegsKnown(s) => LegsKnown(s)'
    BY <1>2 DEF LegsKnown
  <2>4. Balanced(legs[s]) => Balanced(legs[s])'
    BY <1>2
  <2>5. Computed(s) => DOMAIN seen[s] = DOMAIN legs[s]
    BY DEF Computed
  <2>6. QED
    BY <1>1, <1>2, <2>2, <2>3, <2>4, <2>5 DEF Stage
<1>6. ~Written(s)'
  BY <1>2 DEF Written, Closed, NoWrites
<1>7. QED
  BY <1>1, <1>2, <1>3, <1>4, <1>5, <1>6, LocalKeeps DEF LocalStep, Scoping, Inside

-----------------------------------------------------------------------------
(* What persist writes *)

NewRow(s) == [status |-> StatusOf(call[s]), legs |-> legs[s], resolves |-> call[s].hold]
OldRow(s) == [status |-> StatusOf(call[s]), legs |-> legs[s], resolves |-> NoKey]
NewEntry(s, a) ==
  [txn |-> call[s].key, direction |-> legs[s][a].direction, amount |-> legs[s][a].amount,
   phase |-> PhaseOf(call[s]), resulting |-> PostedBalance(a, seen[s][a])]

LEMMA WhatIsWritten ==
  ASSUME NEW s, call[s] \in Calls
  PROVE  LET w == Writes(s, NoWrites) IN
         /\ DOMAIN w.txn = {call[s].key, call[s].hold} \ {NoKey}
         /\ call[s].key \in DOMAIN w.txn /\ w.txn[call[s].key] = NewRow(s)
         /\ \A k \in DOMAIN w.txn : k # call[s].key => w.txn[k] = OldRow(s)
         /\ DOMAIN w.acct = DOMAIN seen[s] /\ \A a \in DOMAIN seen[s] : w.acct[a] = seen[s][a]
         /\ \A a \in Accounts :
              w.entries[a] = IF a \in DOMAIN legs[s] THEN Append(<<>>, NewEntry(s, a)) ELSE <<>>
         /\ w # NoWrites
<1> DEFINE w == Writes(s, NoWrites)
           rows == [k \in {call[s].key, call[s].hold} \ {NoKey} |-> IF k = call[s].key THEN NewRow(s) ELSE OldRow(s)]
<1>1. /\ NoWrites.txn = <<>> /\ NoWrites.acct = <<>>
      /\ \A a \in Accounts : NoWrites.entries[a] = <<>>
  BY DEF NoWrites
<1>2. w.txn = Overlay(<<>>, rows) /\ w.acct = Overlay(<<>>, seen[s])
  BY <1>1 DEF Writes, NewRow, OldRow
<1>3. \A a \in Accounts :
        w.entries[a] = IF a \in DOMAIN legs[s] THEN Append(<<>>, NewEntry(s, a)) ELSE <<>>
  BY <1>1 DEF Writes, NewEntry
<1>4. \A g : /\ DOMAIN Overlay(<<>>, g) = DOMAIN g
             /\ \A x \in DOMAIN g : Overlay(<<>>, g)[x] = g[x]
  BY EmptyOverlay DEF Overlay
<1>5. call[s].key # NoKey
  BY CallsAssumption, SessionsAssumption
<1>6. /\ DOMAIN w.txn = {call[s].key, call[s].hold} \ {NoKey}
      /\ call[s].key \in DOMAIN w.txn /\ w.txn[call[s].key] = NewRow(s)
      /\ \A k \in DOMAIN w.txn : k # call[s].key => w.txn[k] = OldRow(s)
  <2> HIDE DEF w
  <2>1. DOMAIN rows = {call[s].key, call[s].hold} \ {NoKey} /\ DOMAIN w.txn = DOMAIN rows
    BY <1>2, <1>4
  <2>2. \A k \in DOMAIN rows : w.txn[k] = rows[k]
    BY <1>2, <1>4
  <2>3. QED
    BY <1>5, <2>1, <2>2
<1>7. w # NoWrites
  <2> HIDE DEF w
  <2>1. QED
    BY <1>1, <1>6, EmptyOverlay
<1>8. DOMAIN w.acct = DOMAIN seen[s] /\ \A a \in DOMAIN seen[s] : w.acct[a] = seen[s][a]
  <2> HIDE DEF w
  <2>1. QED
    BY <1>2, <1>4
<1>9. QED
  BY <1>3, <1>6, <1>7, <1>8

\* The constraint on resolvers, read under the locks, leaves the reserve pending; and
\* a key another transaction has written is waited for.
LEMMA PersistKeeps ==
  ASSUME SessionsInv, NEW s \in Sessions, Persist(s) PROVE SessionsInv' /\ UNCHANGED committed
<1>1. /\ Locals /\ pc[s] = "persist" /\ bound[s] = s /\ scoped[ProcessOf[s]] = s /\ s # Base
      /\ LegsKnown(s) /\ Balanced(legs[s]) /\ Computed(s) /\ call[s] \in Calls /\ ~MustWait(s)
  BY SessionsAssumption DEF Persist, SessionsInv, Scoping, Inside, Stage, Locals
<1>2. SeenTxn(s) = txn /\ work[s].writes = NoWrites
  BY <1>1, SeesCommitted, NotWritten
<1>3. CASE ~(IsUsable(s) /\ SatisfiesConstraints(s))
  <2>1. /\ UNCHANGED <<committed, scoped, owner, call, made, bound, legs, seen>>
        /\ pc' = [pc EXCEPT ![s] = "threw"]
        /\ work' = work \/ work' = [work EXCEPT ![s].state = "broken"]
    BY <1>1, <1>3 DEF Persist
  <2>2. /\ work'[s].writes = work[s].writes
        /\ work'[s] = [state |-> work'[s].state, writes |-> work'[s].writes]
    BY <1>1, <2>1 DEF Locals
  <2>3. LocalStep(s)
    BY <1>1, <2>1 DEF Locals, LocalStep
  <2>4. Locals'
    BY <1>1, <2>1, <2>2 DEF Locals
  <2>5. ~Written(s)'
    BY <1>2, <2>2 DEF Written, NoWrites
  <2>6. pc'[s] = "threw" /\ scoped'[ProcessOf[s]] = s
    BY <1>1, <2>1 DEF Locals
  <2>7. QED
    BY <2>3, <2>4, <2>5, <2>6, GivingUpKeeps
<1>4. CASE IsUsable(s) /\ SatisfiesConstraints(s)
  <2>1. /\ work[s].state = "open"
        /\ UNCHANGED <<acct, txn, book, scoped, call, made, bound, legs, seen>>
        /\ pc' = [pc EXCEPT ![s] = "returned"]
        /\ work' = [work EXCEPT ![s].writes = Writes(s, NoWrites)]
        /\ owner' = [a \in Accounts |-> IF a \in DOMAIN seen[s] THEN s ELSE owner[a]]
    BY <1>1, <1>2, <1>4 DEF Persist, IsUsable, committed, Locals
  <2>2. pc'[s] = "returned" /\ work'[s].state = "open" /\ work'[s].writes = Writes(s, NoWrites)
    BY <1>1, <2>1 DEF Locals
  <2>3. \A a \in DOMAIN legs[s] : owner[a] = s
    BY <1>1, <2>1 DEF Computed
  <2>4. \A a \in Accounts : owner'[a] = owner[a]
    BY <1>1, <2>1, <2>3 DEF Computed
  <2>5. LocalStep(s)
    BY <1>1, <2>1, <2>4 DEF Locals, LocalStep, committed
  <2>6. Locals'
    <3>1. work'[s] = [state |-> work'[s].state, writes |-> work'[s].writes]
      BY <1>1, <2>1 DEF Locals
    <3>2. QED
      BY <1>1, <2>1, <2>5, <3>1 DEF Locals, LocalStep
  <2>7. Stage(s)'
    BY <2>2 DEF Stage
  <2>8. Ready(s)'
    <3>1. LegsKnown(s)' /\ Balanced(legs[s])'
      BY <1>1, <2>1 DEF LegsKnown
    <3>2. Computed(s)'
      <4>1. \A a : Result(s, a)' = Result(s, a)
        BY <2>1 DEF Result, Commits
      <4>2. DOMAIN legs[s] \subseteq Accounts
        BY <1>1 DEF LegsKnown
      <4>3. QED
        BY <1>1, <2>1, <2>4, <4>1, <4>2 DEF Computed
    <3>3. Writes(s, NoWrites)' = Writes(s, NoWrites)
      BY <2>1 DEF Writes, NoWrites
    <3>4. call[s].key \notin DOMAIN txn
      BY <1>1, <1>2, <1>4 DEF SatisfiesConstraints
    <3>5. call[s].op # "post" => txn[call[s].hold].status = "PENDING"
      <4>1. call[s].hold # NoKey => \A k \in DOMAIN txn : txn[k].resolves # call[s].hold
        BY <1>1, <1>2, <1>4 DEF SatisfiesConstraints
      <4>2. call[s].op # "post" => call[s].hold # NoKey
        BY <1>1, CallsAssumption, SessionsAssumption
      <4>3. QED
        BY <1>1, <4>1, <4>2 DEF LegsKnown
    <3>6. QED
      BY <2>1, <2>2, <3>1, <3>2, <3>3, <3>4, <3>5 DEF Ready
  <2>9. ASSUME NEW t \in Sessions \ {s}, Written(t) PROVE call[t].key # call[s].key
    <3>1. Ready(t)
      BY <2>9 DEF SessionsInv, WritesInv
    <3>2. call[t] \in Calls
      BY <1>1, <3>1 DEF Ready, Locals
    <3>3. call[t].key \in DOMAIN work[t].writes.txn
      BY <3>1, <3>2, WhatIsWritten DEF Ready
    <3>4. QED
      BY <1>1, <3>3 DEF MustWait
  <2>10. QED
    BY <1>1, <2>1, <2>2, <2>5, <2>6, <2>7, <2>8, <2>9, LocalKeeps DEF LocalStep
<1>5. QED
  BY <1>3, <1>4

-----------------------------------------------------------------------------
(* COMMIT *)

\* The engine the store is compared with computes with the same operators.
LEMMA SameBalance ==
  ASSUME NEW l PROVE Engine!Balanced(l) <=> Balanced(l)
<1>1. \A d : Engine!SideTotal(l, d) = SideTotal(l, d)
  BY DEF Engine!SideTotal, SideTotal, Engine!SideOf, SideOf, Engine!SumFunctionOnSet, SumFunctionOnSet,
         Engine!FoldFunctionOnSet, FoldFunctionOnSet, Engine!MapThenFoldSet, MapThenFoldSet
<1>2. Engine!Cardinality(DOMAIN l) = Cardinality(DOMAIN l)
  BY DEF Engine!Cardinality, Cardinality
<1>3. QED
  BY <1>1, <1>2 DEF Engine!Balanced, Balanced

LEMMA SameGuard ==
  ASSUME NEW a, NEW c
  PROVE  /\ Engine!ViolatesOverdraftGuard(a, c) <=> ViolatesOverdraftGuard(a, c)
         /\ Engine!PostedBalance(a, c) = PostedBalance(a, c)
  BY DEF Engine!ViolatesOverdraftGuard, ViolatesOverdraftGuard, Engine!AvailableBalance,
         AvailableBalance, Engine!PostedBalance, PostedBalance

LEMMA SameApply ==
  ASSUME NEW c, NEW leg
  PROVE  /\ \A phase : Engine!ApplyNew(c, leg, phase) = ApplyNew(c, leg, phase)
         /\ \A commit : Engine!ApplyResolve(c, leg, commit) = ApplyResolve(c, leg, commit)
<1>1. Engine!Release(c, leg) = Release(c, leg)
  BY DEF Engine!Release, Release
<1>2. \A d, phase : Engine!ApplyNew(d, leg, phase) = ApplyNew(d, leg, phase)
  BY DEF Engine!ApplyNew, ApplyNew
<1>3. QED
  BY <1>1, <1>2 DEF Engine!ApplyResolve, ApplyResolve

LEMMA OneMore ==
  ASSUME NEW b, \E S : b \in Seq(S), NEW e
  PROVE  /\ b \o <<>> = b /\ b \o Append(<<>>, e) = Append(b, e)
         /\ \E S : Append(b, e) \in Seq(S)
<1>1. PICK S : b \in Seq(S)
  OBVIOUS
<1> DEFINE T == S \cup {e}
<1>2. b \in Seq(T) /\ e \in T
  <2>1. S \subseteq T
    OBVIOUS
  <2>2. Seq(S) \subseteq Seq(T)
    BY <2>1
  <2>3. QED
    BY <1>1, <2>2
<1> HIDE DEF T
<1>3. Append(<<>>, e) = <<e>>
  OBVIOUS
<1>4. QED
  BY <1>2, <1>3, ConcatEmptySeq, AppendIsConcat, AppendProperties

\* Nothing was written, or the transaction was lost: COMMIT publishes nothing.
LEMMA CommitQuietKeeps ==
  ASSUME SessionsInv, NEW s \in Sessions, Commit(s), ~Written(s)
  PROVE  SessionsInv' /\ UNCHANGED committed
<1>1. Locals /\ Tables
  BY DEF SessionsInv
<1>2. work'[s] = Closed /\ pc'[s] = "idle"
  BY <1>1 DEF Commit, Locals
<1>3. UNCHANGED committed
  <2>1. CASE work[s].state # "open"
    BY <2>1 DEF Commit
  <2>2. CASE work[s].state = "open"
    <3>1. Publish(NoWrites)
      BY <2>2 DEF Commit, Written
    <3>2. /\ NoWrites.txn = <<>> /\ NoWrites.acct = <<>>
          /\ \A a \in Accounts : NoWrites.entries[a] = <<>>
      BY DEF NoWrites
    <3>3. txn' = txn /\ acct' = acct
      <4>1. DOMAIN acct = Accounts
        BY <1>1 DEF Tables
      <4>2. QED
        BY <1>1, <3>1, <3>2, <4>1, EmptyOverlay DEF Tables, Publish
    <3>4. book' = book
      <4>1. \A a \in Accounts : book[a] \o NoWrites.entries[a] = book[a]
        BY <1>1, <3>2, OneMore DEF Tables
      <4>2. QED
        BY <1>1, <3>1, <4>1 DEF Tables, Publish
    <3>5. QED
      BY <3>3, <3>4 DEF committed
  <2>3. QED
    BY <2>1, <2>2
<1>4. LocalStep(s)
  BY <1>1, <1>3, SessionsAssumption DEF Commit, Locals, LocalStep, Unlocked
<1>5. Locals'
  BY <1>1, <1>2, <1>4 DEF Commit, Locals, LocalStep, Unlocked, Closed
<1>6. ~Written(s)'
  BY <1>2 DEF Written, Closed, NoWrites
<1>7. QED
  BY <1>2, <1>4, <1>5, <1>6, GivingUpKeeps

\* What a transaction that has written publishes.
LEMMA WhatIsPublished ==
  ASSUME SessionsInv, NEW s \in Sessions, Commit(s), Written(s)
  PROVE  /\ Ready(s) /\ call[s] \in Calls
         /\ acct' = [a \in Accounts |-> IF a \in DOMAIN legs[s] THEN Result(s, a) ELSE acct[a]]
         /\ txn' = [k \in DOMAIN txn \cup {call[s].key} |->
                      IF k = call[s].key THEN NewRow(s)
                      ELSE IF k = call[s].hold THEN [txn[k] EXCEPT !.status = StatusOf(call[s])]
                      ELSE txn[k]]
         /\ book' = [a \in Accounts |-> IF a \in DOMAIN legs[s] THEN Append(book[a], NewEntry(s, a))
                                                               ELSE book[a]]
<1>1. Ready(s) /\ call[s] \in Calls /\ Tables
  BY DEF SessionsInv, WritesInv, Ready, Locals
<1> DEFINE w == Writes(s, NoWrites)
<1>2. /\ DOMAIN w.txn = {call[s].key, call[s].hold} \ {NoKey}
      /\ call[s].key \in DOMAIN w.txn /\ w.txn[call[s].key] = NewRow(s)
      /\ \A k \in DOMAIN w.txn : k # call[s].key => w.txn[k] = OldRow(s)
      /\ DOMAIN w.acct = DOMAIN seen[s] /\ \A a \in DOMAIN seen[s] : w.acct[a] = seen[s][a]
      /\ \A a \in Accounts :
           w.entries[a] = IF a \in DOMAIN legs[s] THEN Append(<<>>, NewEntry(s, a)) ELSE <<>>
  BY <1>1, WhatIsWritten
<1>3. Publish(w)
  BY <1>1 DEF Commit, Ready
<1> HIDE DEF w
<1>4. acct' = [a \in Accounts |-> IF a \in DOMAIN legs[s] THEN Result(s, a) ELSE acct[a]]
  <2>1. /\ DOMAIN acct = Accounts /\ DOMAIN legs[s] \subseteq Accounts /\ DOMAIN seen[s] = DOMAIN legs[s]
        /\ \A a \in DOMAIN legs[s] : seen[s][a] = Result(s, a)
    BY <1>1 DEF Tables, Ready, LegsKnown, Computed
  <2>2. QED
    BY <1>2, <1>3, <2>1 DEF Publish, Overlay
<1>5. book' = [a \in Accounts |-> IF a \in DOMAIN legs[s] THEN Append(book[a], NewEntry(s, a))
                                                         ELSE book[a]]
  <2>1. \A a \in Accounts : book[a] \o w.entries[a] =
          IF a \in DOMAIN legs[s] THEN Append(book[a], NewEntry(s, a)) ELSE book[a]
    <3>1. SUFFICES ASSUME NEW a \in Accounts
                   PROVE  book[a] \o w.entries[a] =
                            IF a \in DOMAIN legs[s] THEN Append(book[a], NewEntry(s, a)) ELSE book[a]
      OBVIOUS
    <3>2. \E S : book[a] \in Seq(S)
      BY <1>1 DEF Tables
    <3>3. book[a] \o <<>> = book[a] /\ book[a] \o Append(<<>>, NewEntry(s, a)) = Append(book[a], NewEntry(s, a))
      BY <3>2, OneMore
    <3>4. QED
      BY <1>2, <3>3
  <2>2. QED
    BY <1>3, <2>1 DEF Publish
<1>6. txn' = [k \in DOMAIN txn \cup {call[s].key} |->
               IF k = call[s].key THEN NewRow(s)
               ELSE IF k = call[s].hold THEN [txn[k] EXCEPT !.status = StatusOf(call[s])]
               ELSE txn[k]]
  <2>1. txn' = [k \in DOMAIN txn \cup DOMAIN w.txn |-> IF k \in DOMAIN w.txn THEN w.txn[k] ELSE txn[k]]
    BY <1>3 DEF Publish, Overlay
  <2>2. call[s].op = "post" => call[s].hold = NoKey
    BY <1>1, CallsAssumption
  <2>3. call[s].op # "post" =>
          /\ call[s].hold \in DOMAIN txn
          /\ OldRow(s) = [txn[call[s].hold] EXCEPT !.status = StatusOf(call[s])]
    <3>1. SUFFICES ASSUME call[s].op # "post"
                   PROVE  /\ call[s].hold \in DOMAIN txn
                          /\ OldRow(s) = [txn[call[s].hold] EXCEPT !.status = StatusOf(call[s])]
      OBVIOUS
    <3>2. /\ call[s].hold \in DOMAIN txn /\ txn[call[s].hold].legs = legs[s]
          /\ txn[call[s].hold].status = "PENDING"
      BY <1>1, <3>1 DEF Ready, LegsKnown
    <3> DEFINE r == txn[call[s].hold]
    <3>3. r = [status |-> r.status, legs |-> r.legs, resolves |-> r.resolves] /\ r.resolves = NoKey
      BY <1>1, <3>2 DEF Tables
    <3>4. QED
      BY <3>2, <3>3 DEF OldRow
  <2>4. NoKey \notin DOMAIN txn /\ call[s].key \notin DOMAIN txn /\ call[s].key # NoKey
    BY <1>1, CallsAssumption, SessionsAssumption DEF Tables, Ready
  <2>5. DOMAIN txn \cup DOMAIN w.txn = DOMAIN txn \cup {call[s].key}
    BY <1>2, <2>2, <2>3, <2>4
  <2>6. ASSUME NEW k \in DOMAIN txn \cup {call[s].key}
        PROVE  (IF k \in DOMAIN w.txn THEN w.txn[k] ELSE txn[k])
               = (IF k = call[s].key THEN NewRow(s)
                  ELSE IF k = call[s].hold THEN [txn[k] EXCEPT !.status = StatusOf(call[s])]
                  ELSE txn[k])
    BY <1>2, <2>2, <2>3, <2>4
  <2>7. QED
    BY <2>1, <2>5, <2>6
<1>7. QED
  BY <1>1, <1>4, <1>5, <1>6

\* COMMIT of a posting is the engine's post; of a resolution, its resolvePending.
LEMMA CommitIsAStep ==
  ASSUME SessionsInv, NEW s \in Sessions, Commit(s), Written(s)
  PROVE  Engine!Next
<1> DEFINE c == call[s]
<1>1. /\ Ready(s) /\ c \in Calls
      /\ acct' = [a \in Accounts |-> IF a \in DOMAIN legs[s] THEN Result(s, a) ELSE acct[a]]
      /\ txn' = [k \in DOMAIN txn \cup {c.key} |->
                   IF k = c.key THEN NewRow(s)
                   ELSE IF k = c.hold THEN [txn[k] EXCEPT !.status = StatusOf(c)] ELSE txn[k]]
      /\ book' = [a \in Accounts |-> IF a \in DOMAIN legs[s] THEN Append(book[a], NewEntry(s, a))
                                                            ELSE book[a]]
  BY WhatIsPublished
<1>2. /\ DOMAIN acct = Accounts /\ DOMAIN txn \subseteq Keys /\ NoKey \notin Keys
      /\ c.key \in Keys /\ c.key \notin DOMAIN txn /\ Balanced(legs[s]) /\ DOMAIN legs[s] \subseteq Accounts
  BY <1>1, CallsAssumption, SessionsAssumption DEF SessionsInv, Tables, Ready, LegsKnown
<1>3. \A a \in DOMAIN legs[s] : /\ acct'[a] = Result(s, a) /\ seen[s][a] = Result(s, a)
                                /\ ~ViolatesOverdraftGuard(a, acct'[a])
  BY <1>1, <1>2 DEF Ready, Computed
<1>4. Engine!GuardHolds(acct', legs[s])
  BY <1>3, SameGuard DEF Engine!GuardHolds
<1>5. book' = Engine!Booked(book, acct', legs[s], c.key, PhaseOf(c))
  <2>1. \A a \in DOMAIN legs[s] : PostedBalance(a, seen[s][a]) = Engine!PostedBalance(a, acct'[a])
    BY <1>3, SameGuard
  <2>2. QED
    BY <1>1, <2>1 DEF Engine!Booked, NewEntry
<1>6. CASE c.op = "post"
  <2>1. c.hold = NoKey /\ c.phase \in {"PENDING", "POSTED"} /\ legs[s] = c.legs
    BY <1>1, <1>6, CallsAssumption DEF Ready, LegsKnown
  <2>2. StatusOf(c) = c.phase /\ PhaseOf(c) = c.phase
    BY <1>6 DEF StatusOf, PhaseOf
  <2>3. acct' = Engine!AfterPost(acct, legs[s], c.phase)
    <3>1. \A a \in DOMAIN legs[s] : Result(s, a) = Engine!ApplyNew(acct[a], legs[s][a], c.phase)
      BY <1>6, SameApply DEF Result
    <3>2. QED
      BY <1>1, <1>2, <3>1 DEF Engine!AfterPost
  <2>4. txn' = Engine!Recorded(txn, c.key, [status |-> c.phase, legs |-> legs[s], resolves |-> NoKey])
    BY <1>1, <1>2, <2>1, <2>2 DEF Engine!Recorded, NewRow
  <2>5. legs[s] \in CallLegs
    BY <1>1, <1>6, <2>1 DEF CallLegs
  <2>6. Engine!Post(c.key, legs[s], c.phase)
    BY <1>2, <1>4, <1>5, <2>2, <2>3, <2>4, SameBalance DEF Engine!Post, Engine!IsRecorded
  <2>7. QED
    BY <1>2, <2>1, <2>5, <2>6 DEF Engine!Next
<1>7. CASE c.op # "post"
  <2> DEFINE commit == c.op = "commit"
  <2>1. /\ c.hold \in Keys /\ c.hold \in DOMAIN txn /\ txn[c.hold].legs = legs[s]
        /\ txn[c.hold].status = "PENDING" /\ c.op \in {"commit", "void"}
    BY <1>1, <1>7, CallsAssumption DEF Ready, LegsKnown
  <2>2. /\ StatusOf(c) = IF commit THEN "POSTED" ELSE "VOIDED"
        /\ PhaseOf(c) = IF commit THEN "POSTED" ELSE "VOID"
        /\ Commits(s) = commit
    BY <1>7 DEF StatusOf, PhaseOf, Commits
  <2>3. acct' = Engine!AfterResolve(acct, legs[s], commit)
    <3>1. \A a \in DOMAIN legs[s] : Result(s, a) = Engine!ApplyResolve(acct[a], legs[s][a], commit)
      BY <1>7, <2>2, SameApply DEF Result
    <3>2. QED
      BY <1>1, <1>2, <3>1 DEF Engine!AfterResolve
  <2>4. txn' = Engine!Recorded(txn, c.key, [status |-> StatusOf(c), legs |-> legs[s], resolves |-> c.hold])
    BY <1>1, <1>2, <2>1 DEF Engine!Recorded, NewRow
  <2>5. Engine!ResolvePending(c.key, c.hold, commit)
    <3>1. ~Engine!IsRecorded(c.key) /\ Engine!IsResolvable(c.hold)
      BY <1>2, <2>1 DEF Engine!IsRecorded, Engine!IsResolvable
    <3> HIDE DEF commit, c
    <3>2. QED
      BY <1>2, <1>4, <1>5, <2>1, <2>2, <2>3, <2>4, <3>1 DEF Engine!ResolvePending
  <2>6. Engine!CommitPending(c.key, c.hold) \/ Engine!VoidPending(c.key, c.hold)
    <3>1. commit = TRUE \/ commit = FALSE
      OBVIOUS
    <3> HIDE DEF commit, c
    <3>2. QED
      BY <2>5, <3>1 DEF Engine!CommitPending, Engine!VoidPending
  <2>7. QED
    BY <1>2, <2>1, <2>6 DEF Engine!Next
<1>8. QED
  BY <1>6, <1>7

\* The others do not own the rows, the key or the reserve that COMMIT publishes.
LEMMA CommitLeavesOthers ==
  ASSUME SessionsInv, NEW s \in Sessions, Commit(s), Written(s), NEW t \in Sessions \ {s}
  PROVE  Stage(t)' /\ (Written(t)' <=> Written(t)) /\ (Written(t) => Ready(t)')
<1> DEFINE c == call[s]
<1>1. /\ Ready(s) /\ c \in Calls
      /\ acct' = [a \in Accounts |-> IF a \in DOMAIN legs[s] THEN Result(s, a) ELSE acct[a]]
      /\ txn' = [k \in DOMAIN txn \cup {c.key} |->
                   IF k = c.key THEN NewRow(s)
                   ELSE IF k = c.hold THEN [txn[k] EXCEPT !.status = StatusOf(c)] ELSE txn[k]]
  BY WhatIsPublished
<1>2. Stage(t) /\ (Written(t) => Ready(t)) /\ Locals /\ Tables
  BY DEF SessionsInv, WritesInv
<1>3. /\ pc'[t] = pc[t] /\ call'[t] = call[t] /\ legs'[t] = legs[t]
      /\ seen'[t] = seen[t] /\ work'[t] = work[t]
      /\ \A a \in Accounts : owner[a] = t => owner'[a] = t
  BY <1>2 DEF Commit, Locals, Unlocked
<1>4. \A a \in Accounts : owner[a] = t => acct'[a] = acct[a]
  BY <1>1 DEF Ready, Computed
<1>5. /\ c.key \notin DOMAIN txn /\ c.key \in DOMAIN txn' /\ txn'[c.key].resolves = c.hold
      /\ \A k \in DOMAIN txn : /\ k \in DOMAIN txn' /\ txn'[k].legs = txn[k].legs
                               /\ txn'[k].resolves = txn[k].resolves
                               /\ k # c.hold => txn'[k] = txn[k]
  <2>1. c.key \notin DOMAIN txn
    BY <1>1 DEF Ready
  <2>2. \A k \in DOMAIN txn : LET r == [txn[k] EXCEPT !.status = StatusOf(c)]
                              IN  r.legs = txn[k].legs /\ r.resolves = txn[k].resolves
    BY <1>2 DEF Tables
  <2>3. QED
    BY <1>1, <2>1, <2>2 DEF NewRow
<1>6. LegsKnown(t) => LegsKnown(t)'
  <2> SUFFICES ASSUME LegsKnown(t) PROVE LegsKnown(t)'
    OBVIOUS
  <2>1. CASE call[t].op = "post"
    BY <1>3, <2>1 DEF LegsKnown
  <2>2. CASE call[t].op # "post"
    <3> DEFINE h == call[t].hold
    <3>1. /\ h \in DOMAIN txn /\ txn[h].legs = legs[t]
          /\ txn[h].status = "PENDING" \/ \E k \in DOMAIN txn : txn[k].resolves = h
      BY <2>2 DEF LegsKnown
    <3>2. h \in DOMAIN txn' /\ txn'[h].legs = legs'[t] /\ DOMAIN legs'[t] \subseteq Accounts
      BY <1>3, <1>5, <3>1 DEF LegsKnown
    <3>3. txn'[h].status = "PENDING" \/ \E k \in DOMAIN txn' : txn'[k].resolves = h
      BY <1>5, <3>1
    <3>4. QED
      BY <1>3, <2>2, <3>2, <3>3 DEF LegsKnown
  <2>3. QED
    BY <2>1, <2>2
<1>7. Current(t) /\ DOMAIN seen[t] \subseteq Accounts => Current(t)'
  BY <1>3, <1>4 DEF Current
<1>8. \A a \in Accounts : owner[a] = t => Result(t, a)' = Result(t, a)
  BY <1>3, <1>4 DEF Result, Commits
<1>9. Computed(t) /\ DOMAIN legs[t] \subseteq Accounts => Computed(t)'
  BY <1>3, <1>8 DEF Computed
<1>10. Balanced(legs[t]) => Balanced(legs[t])'
  BY <1>3
<1>11. LegsKnown(t) => DOMAIN legs[t] \subseteq Accounts
  BY DEF LegsKnown
<1>12. Stage(t)'
  BY <1>2, <1>3, <1>6, <1>7, <1>9, <1>10, <1>11 DEF Stage
<1>13. Written(t)' <=> Written(t)
  BY <1>3 DEF Written, NoWrites
<1>14. Writes(t, NoWrites)' = Writes(t, NoWrites)
  BY <1>3 DEF Writes, NoWrites
<1>15. ASSUME Written(t) PROVE Ready(t)'
  <2>1. Ready(t)
    BY <1>2, <1>15
  <2>2. call[t].key \notin DOMAIN txn'
    <3>1. call[t].key # c.key
      BY <1>15 DEF SessionsInv, WritesInv
    <3>2. QED
      BY <1>1, <2>1, <3>1 DEF Ready
  <2>3. ASSUME call[t].op # "post" PROVE txn'[call[t].hold].status = "PENDING"
    <3> DEFINE h == call[t].hold
    <3>1. /\ h \in DOMAIN txn /\ txn[h].legs = legs[t] /\ txn[h].status = "PENDING"
          /\ \A a \in DOMAIN legs[t] : owner[a] = t
      BY <2>1, <2>3 DEF Ready, LegsKnown, Computed
    <3>2. ASSUME h = c.hold PROVE FALSE
      <4>1. NoKey \notin DOMAIN txn
        BY <1>2, SessionsAssumption DEF Tables
      <4>2. c.op # "post"
        BY <1>1, <3>1, <3>2, <4>1, CallsAssumption
      <4>3. txn[h].legs = legs[s] /\ \A a \in DOMAIN legs[s] : owner[a] = s
        BY <1>1, <3>2, <4>2 DEF Ready, LegsKnown, Computed
      <4>4. DOMAIN legs[s] = {}
        BY <3>1, <4>3
      <4>5. Cardinality(DOMAIN legs[s]) = 0
        BY <4>4, FS_EmptySet
      <4>6. QED
        BY <1>1, <4>5 DEF Ready, Balanced
    <3>3. QED
      BY <1>5, <3>1, <3>2
  <2>4. LegsKnown(t)' /\ Balanced(legs[t])' /\ Computed(t)'
    BY <1>6, <1>9, <1>10, <1>11, <2>1 DEF Ready
  <2>5. QED
    BY <1>3, <1>14, <2>1, <2>2, <2>3, <2>4 DEF Ready
<1>16. QED
  BY <1>12, <1>13, <1>15

LEMMA CommitKeeps ==
  ASSUME SessionsInv, NEW s \in Sessions, Commit(s), Written(s) PROVE SessionsInv'
<1> DEFINE c == call[s]
<1>1. /\ Ready(s) /\ c \in Calls
      /\ acct' = [a \in Accounts |-> IF a \in DOMAIN legs[s] THEN Result(s, a) ELSE acct[a]]
      /\ txn' = [k \in DOMAIN txn \cup {c.key} |->
                   IF k = c.key THEN NewRow(s)
                   ELSE IF k = c.hold THEN [txn[k] EXCEPT !.status = StatusOf(c)] ELSE txn[k]]
      /\ book' = [a \in Accounts |-> IF a \in DOMAIN legs[s] THEN Append(book[a], NewEntry(s, a))
                                                            ELSE book[a]]
  BY WhatIsPublished
<1>2. Locals /\ Tables /\ Scoping
  BY DEF SessionsInv
<1>3. /\ work'[s] = Closed /\ pc'[s] = "idle" /\ UNCHANGED <<scoped, call, made, bound, legs, seen>>
      /\ \A t \in Sessions \ {s} : pc'[t] = pc[t] /\ work'[t] = work[t]
      /\ DOMAIN pc' = Sessions /\ DOMAIN work' = Sessions /\ DOMAIN owner' = Accounts
  BY <1>2 DEF Commit, Locals, Unlocked
<1>4. Scoping'
  BY <1>2, <1>3 DEF Scoping, Inside
<1>5. Locals'
  <2>1. Closed = [state |-> Closed.state, writes |-> Closed.writes]
    BY DEF Closed
  <2>2. QED
    BY <1>2, <1>3, <2>1 DEF Locals
<1>6. Tables'
  <2>1. acct' = [a \in Accounts |-> acct'[a]] /\ book' = [a \in Accounts |-> book'[a]]
    BY <1>1
  <2>2. ASSUME NEW a \in Accounts PROVE \E S : book'[a] \in Seq(S)
    <3>1. \E S : book[a] \in Seq(S)
      BY <1>2 DEF Tables
    <3>2. \E S : Append(book[a], NewEntry(s, a)) \in Seq(S)
      BY <3>1, OneMore
    <3>3. book'[a] = book[a] \/ book'[a] = Append(book[a], NewEntry(s, a))
      BY <1>1
    <3>4. QED
      BY <3>1, <3>2, <3>3
  <2>3. DOMAIN txn' \subseteq Keys /\ txn' = [k \in DOMAIN txn' |-> txn'[k]]
    BY <1>1, <1>2, CallsAssumption DEF Tables
  <2>4. ASSUME NEW k \in DOMAIN txn'
        PROVE  /\ txn'[k] = [status |-> txn'[k].status, legs |-> txn'[k].legs, resolves |-> txn'[k].resolves]
               /\ DOMAIN txn'[k].legs \subseteq Accounts
               /\ txn'[k].status = "PENDING" => txn'[k].resolves = NoKey
    <3>1. CASE k = c.key
      <4>1. txn'[k] = NewRow(s) /\ DOMAIN legs[s] \subseteq Accounts
        BY <1>1, <3>1 DEF Ready, LegsKnown
      <4>2. StatusOf(c) = "PENDING" => c.hold = NoKey
        BY <1>1, CallsAssumption DEF StatusOf
      <4>3. QED
        BY <4>1, <4>2 DEF NewRow
    <3>2. CASE k # c.key /\ k # c.hold
      <4>1. k \in DOMAIN txn /\ txn'[k] = txn[k]
        BY <1>1, <3>2
      <4>2. QED
        BY <1>2, <4>1 DEF Tables
    <3>3. CASE k # c.key /\ k = c.hold
      <4>1. k \in DOMAIN txn /\ txn'[k] = [txn[k] EXCEPT !.status = StatusOf(c)]
        BY <1>1, <3>3
      <4>2. k # NoKey
        BY <1>2, <4>1, SessionsAssumption DEF Tables
      <4>3. StatusOf(c) # "PENDING"
        BY <1>1, <3>3, <4>2, CallsAssumption DEF StatusOf
      <4>4. /\ txn[k] = [status |-> txn[k].status, legs |-> txn[k].legs, resolves |-> txn[k].resolves]
            /\ DOMAIN txn[k].legs \subseteq Accounts
        BY <1>2, <4>1 DEF Tables
      <4>5. QED
        BY <4>1, <4>3, <4>4
    <3>4. QED
      BY <3>1, <3>2, <3>3
  <2>5. QED
    BY <2>1, <2>2, <2>3, <2>4 DEF Tables
<1>7. Stage(s)' /\ ~Written(s)'
  BY <1>3 DEF Stage, Written, Closed, NoWrites
<1>8. \A t \in Sessions : Stage(t)'
  BY <1>7, CommitLeavesOthers
<1>9. WritesInv'
  <2>1. \A t \in Sessions : Written(t)' => Written(t) /\ Ready(t)'
    BY <1>7, CommitLeavesOthers
  <2>2. UNCHANGED call
    BY <1>3
  <2>3. QED
    BY <2>1, <2>2 DEF SessionsInv, WritesInv
<1>10. QED
  BY <1>4, <1>5, <1>6, <1>8, <1>9 DEF SessionsInv
-----------------------------------------------------------------------------
(* The refinement *)

LEMMA InitSessions == Init => SessionsInv /\ Engine!Init
<1> SUFFICES ASSUME Init PROVE SessionsInv /\ Engine!Init
  OBVIOUS
<1>1. DOMAIN txn = {} /\ txn = [k \in DOMAIN txn |-> txn[k]]
  BY EmptyOverlay DEF Init
<1>2. Scoping /\ Tables
  <2>1. \A a \in Accounts : book[a] \in Seq({})
    BY DEF Init
  <2>2. QED
    BY <1>1, <2>1 DEF Init, Scoping, Inside, Tables
<1>3. Locals
  BY DEF Init, Locals, Closed
<1>4. \A s \in Sessions : Stage(s)
  BY DEF Init, Stage
<1>5. WritesInv
  BY DEF Init, WritesInv, Written, Closed
<1>6. Engine!Init
  BY DEF Init, Engine!Init, ZeroCounters, Engine!ZeroCounters
<1>7. QED
  BY <1>2, <1>3, <1>4, <1>5, <1>6 DEF SessionsInv

\* Each statement keeps the invariant and is a step of the engine or none.
LEMMA NextSessions ==
  ASSUME OneCallPerProcess, OneCallPerProcess', SessionsInv, [Next]_vars
  PROVE  SessionsInv' /\ (Engine!Next \/ UNCHANGED committed)
<1>1. CASE UNCHANGED vars
  <2>1. /\ UNCHANGED <<acct, txn, book, scoped, owner, work, pc, call, bound, legs, seen>>
    BY <1>1 DEF vars
  <2>2. Scoping' /\ Tables' /\ Locals'
    BY <2>1 DEF SessionsInv, Scoping, Inside, Tables, Locals
  <2>3. ASSUME NEW s \in Sessions
        PROVE  Stage(s)' /\ (Written(s)' => Written(s) /\ Ready(s)')
    <3>1. Written(s)' <=> Written(s)
      BY <2>1 DEF Written, NoWrites
    <3>2. /\ LegsKnown(s)' = LegsKnown(s) /\ Balanced(legs[s])' = Balanced(legs[s])
          /\ Current(s)' = Current(s) /\ Computed(s)' = Computed(s)
          /\ Writes(s, NoWrites)' = Writes(s, NoWrites)
      BY <2>1 DEF LegsKnown, Current, Computed, Result, Commits, Writes, NoWrites
    <3>3. QED
      BY <2>1, <3>1, <3>2 DEF SessionsInv, WritesInv, Stage, Ready
  <2>4. WritesInv'
    BY <2>1, <2>3 DEF SessionsInv, WritesInv
  <2>5. QED
    BY <2>1, <2>2, <2>3, <2>4 DEF SessionsInv, committed
<1>2. CASE Next
  <2>1. PICK s \in Sessions : (\E c \in Calls : Begin(s, c)) \/ Step(s) \/ Expire(s)
    BY <1>2 DEF Next
  <2>2. CASE Commit(s)
    BY <2>2, CommitIsAStep, CommitKeeps, CommitQuietKeeps
  <2>3. QED
    BY <2>1, <2>2, BeginKeeps, FindHoldKeeps, IssueLockKeeps, LockRowKeeps, LockFailsKeeps, BuildKeeps,
       PersistKeeps, FinallyKeeps, RollbackKeeps, ExpireKeeps DEF Step
<1>3. QED
  BY <1>1, <1>2

\* Whatever the number of sessions, accounts, calls, legs and processes, and
\* however their statements interleave, time out, expire and roll back, the store
\* on Postgres does nothing the atomic engine would not do, as long as no process
\* has two calls inside runExclusive at once: they would share the field `scoped`.
\* The condition is about the behaviour; sessions may share a process.
THEOREM StoreImplementsEngine == Spec /\ []OneCallPerProcess => ImplementsEngine
<1>1. Init => SessionsInv /\ Engine!Init
  BY InitSessions
<1>2. OneCallPerProcess /\ OneCallPerProcess' /\ SessionsInv /\ [Next]_vars
        => SessionsInv' /\ [Engine!Next]_(Engine!vars)
  <2>1. UNCHANGED committed => UNCHANGED Engine!vars
    BY DEF committed, Engine!vars
  <2>2. QED
    BY <2>1, NextSessions
<1>3. QED
  BY <1>1, <1>2, PTL DEF Spec, ImplementsEngine, Engine!Spec
-----------------------------------------------------------------------------
(* Calls that share `scoped` *)

\* What the constraints of the hardening migration let a row of accounts hold.
SoundRow(a, c) == ~ViolatesOverdraftGuard(a, c) /\ c.debitsPending >= 0 /\ c.creditsPending >= 0

NeverOverdrawn == \A a \in Accounts : SoundRow(a, acct[a])

\* So are the rows an open transaction is about to publish.
RowsInv ==
  /\ NeverOverdrawn
  /\ Accounts \subseteq DOMAIN acct /\ DOMAIN work = Sessions
  /\ \A t \in Sessions :
       /\ work[t] = [state |-> work[t].state, writes |-> work[t].writes]
       /\ \A a \in Accounts \cap DOMAIN work[t].writes.acct : SoundRow(a, work[t].writes.acct[a])

LEMMA OverlaySound ==
  ASSUME NEW f, NEW g,
         \A a \in Accounts \cap DOMAIN f : SoundRow(a, f[a]),
         \A a \in Accounts \cap DOMAIN g : SoundRow(a, g[a])
  PROVE  \A a \in Accounts \cap DOMAIN Overlay(f, g) : SoundRow(a, Overlay(f, g)[a])
  BY DEF Overlay

LEMMA PublishSound ==
  ASSUME NEW w, Accounts \subseteq DOMAIN acct, NeverOverdrawn, Publish(w),
         \A a \in Accounts \cap DOMAIN w.acct : SoundRow(a, w.acct[a])
  PROVE  NeverOverdrawn' /\ Accounts \subseteq DOMAIN acct'
<1>1. acct' = Overlay(acct, w.acct)
  BY DEF Publish
<1>2. Accounts \subseteq DOMAIN acct'
  BY <1>1 DEF Overlay
<1>3. \A a \in Accounts : SoundRow(a, acct'[a])
  BY <1>1, <1>2, OverlaySound DEF NeverOverdrawn
<1>4. QED
  BY <1>2, <1>3 DEF NeverOverdrawn, SoundRow

\* A step that publishes nothing and gives no transaction a write it did not have.
LEMMA QuietRows ==
  ASSUME RowsInv, UNCHANGED acct, DOMAIN work' = Sessions,
         \A t \in Sessions :
           /\ work'[t] = [state |-> work'[t].state, writes |-> work'[t].writes]
           /\ work'[t].writes \in {work[t].writes, NoWrites}
  PROVE  RowsInv'
<1>1. DOMAIN NoWrites.acct = {}
  BY EmptyOverlay DEF NoWrites
<1>2. QED
  BY <1>1 DEF RowsInv, NeverOverdrawn, SoundRow

LEMMA PersistSound ==
  ASSUME RowsInv, NEW s \in Sessions, Persist(s), IsUsable(bound[s]), SatisfiesConstraints(s)
  PROVE  RowsInv'
<1> DEFINE h == bound[s]
<1>1. \A a \in Accounts \cap DOMAIN seen[s] : SoundRow(a, seen[s][a])
  BY DEF SatisfiesConstraints, SoundRow
<1>2. CASE h = Base
  <2>1. Publish(Writes(s, NoWrites)) /\ UNCHANGED work
    BY <1>2 DEF Persist
  <2>2. Writes(s, NoWrites).acct = Overlay(NoWrites.acct, seen[s])
    BY DEF Writes
  <2>3. DOMAIN NoWrites.acct = {}
    BY EmptyOverlay DEF NoWrites
  <2>4. \A a \in Accounts \cap DOMAIN Overlay(NoWrites.acct, seen[s]) :
           SoundRow(a, Overlay(NoWrites.acct, seen[s])[a])
    BY <1>1, <2>3, OverlaySound
  <2>5. NeverOverdrawn' /\ Accounts \subseteq DOMAIN acct'
    BY <2>1, <2>2, <2>4, PublishSound DEF RowsInv
  <2>6. QED
    BY <2>1, <2>5 DEF RowsInv, SoundRow
<1>3. CASE h # Base
  <2>1. work' = [work EXCEPT ![h].writes = Writes(s, work[h].writes)] /\ UNCHANGED committed
    BY <1>3 DEF Persist
  <2>2. UNCHANGED acct
    BY <2>1 DEF committed
  <2>3. ASSUME h \in Sessions
        PROVE  \A a \in Accounts \cap DOMAIN work'[h].writes.acct : SoundRow(a, work'[h].writes.acct[a])
    <3>1. work'[h].writes = Writes(s, work[h].writes)
      BY <2>1, <2>3 DEF RowsInv
    <3>2. Writes(s, work[h].writes).acct = Overlay(work[h].writes.acct, seen[s])
      BY DEF Writes
    <3>3. \A a \in Accounts \cap DOMAIN work[h].writes.acct : SoundRow(a, work[h].writes.acct[a])
      BY <2>3 DEF RowsInv
    <3>4. QED
      BY <1>1, <3>1, <3>2, <3>3, OverlaySound
  <2>4. DOMAIN work' = Sessions
    BY <2>1 DEF RowsInv
  <2>5. ASSUME NEW t \in Sessions
        PROVE  /\ work'[t] = [state |-> work'[t].state, writes |-> work'[t].writes]
               /\ t # h => work'[t] = work[t]
    BY <2>1 DEF RowsInv
  <2>6. NeverOverdrawn' /\ Accounts \subseteq DOMAIN acct'
    BY <2>2 DEF RowsInv, NeverOverdrawn, SoundRow
  <2>7. ASSUME NEW t \in Sessions
        PROVE  \A a \in Accounts \cap DOMAIN work'[t].writes.acct : SoundRow(a, work'[t].writes.acct[a])
    BY <2>3, <2>5 DEF RowsInv
  <2>8. QED
    BY <2>4, <2>5, <2>6, <2>7 DEF RowsInv, SoundRow
<1>4. QED
  BY <1>2, <1>3

LEMMA CommitSound ==
  ASSUME RowsInv, NEW s \in Sessions, Commit(s) PROVE RowsInv'
<1>1. /\ work' = [work EXCEPT ![s] = Closed] /\ DOMAIN work = Sessions
      /\ \/ Publish(work[s].writes)
         \/ UNCHANGED acct
  BY DEF Commit, committed, RowsInv
<1>2. NeverOverdrawn' /\ Accounts \subseteq DOMAIN acct'
  <2>1. CASE Publish(work[s].writes)
    BY <2>1, PublishSound DEF RowsInv
  <2>2. CASE UNCHANGED acct
    BY <2>2 DEF RowsInv, NeverOverdrawn, SoundRow
  <2>3. QED
    BY <1>1, <2>1, <2>2
<1>3. DOMAIN NoWrites.acct = {} /\ Closed = [state |-> "closed", writes |-> NoWrites]
  BY EmptyOverlay DEF NoWrites, Closed
<1>4. ASSUME NEW t \in Sessions
      PROVE  /\ work'[t] = [state |-> work'[t].state, writes |-> work'[t].writes]
             /\ \A a \in Accounts \cap DOMAIN work'[t].writes.acct : SoundRow(a, work'[t].writes.acct[a])
  BY <1>1, <1>3 DEF RowsInv
<1>5. QED
  BY <1>1, <1>2, <1>4 DEF RowsInv, SoundRow

LEMMA NextSound ==
  ASSUME RowsInv, [Next]_vars PROVE RowsInv'
<1>1. CASE UNCHANGED vars
  BY <1>1, QuietRows DEF vars, RowsInv
<1>2. ASSUME NEW s \in Sessions, NEW c \in Calls, Begin(s, c) PROVE RowsInv'
  BY <1>2, QuietRows DEF Begin, Opened, committed, RowsInv
<1>3. ASSUME NEW s \in Sessions, Step(s) PROVE RowsInv'
  <2>1. CASE FindHold(s) \/ IssueLock(s) \/ LockRow(s) \/ LockFails(s) \/ Build(s) \/ Finally(s)
    <3>1. UNCHANGED <<acct, work>>
      BY <2>1 DEF FindHold, IssueLock, LockRow, LockFails, Build, Finally, committed
    <3>2. QED
      BY <3>1, QuietRows DEF RowsInv
  <2>2. CASE Persist(s)
    <3>1. CASE IsUsable(bound[s]) /\ SatisfiesConstraints(s)
      BY <2>2, <3>1, PersistSound
    <3>2. CASE ~(IsUsable(bound[s]) /\ SatisfiesConstraints(s))
      <4>1. /\ UNCHANGED acct
            /\ work' = work \/ work' = [work EXCEPT ![bound[s]].state = "broken"]
        BY <2>2, <3>2 DEF Persist, committed
      <4>2. QED
        BY <4>1, QuietRows DEF RowsInv
    <3>3. QED
      BY <3>1, <3>2
  <2>3. CASE LockTimeout(s)
    <3>1. /\ UNCHANGED acct
          /\ work' = work \/ work' = [work EXCEPT ![bound[s]].state = "broken"]
      BY <2>3 DEF LockTimeout, committed
    <3>2. QED
      BY <3>1, QuietRows DEF RowsInv
  <2>4. CASE Commit(s)
    BY <2>4, CommitSound
  <2>5. CASE Rollback(s)
    BY <2>5, QuietRows DEF Rollback, Closed, committed, RowsInv
  <2>6. QED
    BY <1>3, <2>1, <2>2, <2>3, <2>4, <2>5 DEF Step
<1>4. ASSUME NEW s \in Sessions, Expire(s) PROVE RowsInv'
  BY <1>4, QuietRows DEF Expire, Closed, committed, RowsInv
<1>5. QED
  BY <1>1, <1>2, <1>3, <1>4 DEF Next

\* Also when calls of one process overlap and send their statements through each
\* other's transactions: no balance the store commits breaks the overdraft guard
\* and no pending counter is negative, because the database checks each row it
\* writes. What is lost in that case is CountersMatchEntries, not the guard.
THEOREM StoreNeverOverdraws == Spec => []NeverOverdrawn
<1>1. Init => RowsInv
  <2>1. DOMAIN NoWrites.acct = {} /\ Closed = [state |-> "closed", writes |-> NoWrites]
    BY EmptyOverlay DEF NoWrites, Closed
  <2>2. \A a \in Accounts : SoundRow(a, ZeroCounters)
    BY AccountsAssumption DEF SoundRow, ViolatesOverdraftGuard, AvailableBalance, PostedBalance, ZeroCounters
  <2>3. QED
    BY <2>1, <2>2 DEF Init, RowsInv, NeverOverdrawn
<1>2. RowsInv /\ [Next]_vars => RowsInv'
  BY NextSound
<1>3. RowsInv => NeverOverdrawn
  BY DEF RowsInv
<1>4. QED
  BY <1>1, <1>2, <1>3, PTL DEF Spec
=============================================================================
