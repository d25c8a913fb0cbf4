--------------------------- MODULE Reconciliation ---------------------------
(***************************************************************************)
(* The life of reconciliation runs and of the breaks they find, for one    *)
(* account: the sweep queues runs, workers execute them (read the three    *)
(* sides one after the other, reconcile, persist, resolve by themselves    *)
(* what the engine said they may), operators resolve breaks by hand.       *)
(*                                                                         *)
(* A worker awaits between all of these steps: the provider may post, and  *)
(* another run or an operator may write, in between; the worker may fail   *)
(* or die; a stalled job is given to a second worker.                      *)
(***************************************************************************)
EXTENDS ReconEngine

CONSTANTS
  Worlds,            \* initial books, and bounds: [statement, late, txns, moves,
                     \* runs, faults, decisions]
  Workers,
  Operators,
  Actions,           \* resolutions an operator chooses from
  FirstDay, LastDay,       \* the window of the runs, in days
  WindowStart, WindowEnd   \* and in instants: the ledger is read by these

\* A transaction as the repository has it.
IsTransaction(t) ==
  t = [id |-> t.id, pay |-> t.pay, e2e |-> t.e2e, ptx |-> t.ptx, at |-> t.at, day |-> t.day,
       direction |-> t.direction, cents |-> t.cents, type |-> t.type, status |-> t.status,
       party |-> t.party, ltx |-> t.ltx]

\* Books are finite, and an id is that of one record: it tells the record's day.
\* The id of an imported credit is made of the id of its entry.
ASSUME WorldsAssumption ==
  \A world \in Worlds :
    LET entries == world.statement \cup world.late
        transactions == world.txns
    IN  /\ world.runs \in Nat
        /\ IsFiniteSet(entries) /\ IsFiniteSet(transactions)
        /\ \A e \in entries : e.at \in Int /\ <<"import", e.id>> # None
        /\ \A t \in transactions : IsTransaction(t) /\ t.at \in Int /\ t.id # None
        /\ \A e, f \in entries : e.id = f.id => e.day = f.day
        /\ \A t, u \in transactions : t.id = u.id => t.day = u.day
        /\ \A t \in transactions, e \in entries : t.id = <<"import", e.id>> => t.day = e.day

\* The absence of a field is no value of one.
ASSUME NoneAssumption == None # "IMPORT_FROM_PROVIDER"

VARIABLES
  now,
  statement,         \* the provider's statement of the window
  late,              \* entries the provider has still to post
  txns,              \* our transactions
  moves,             \* postings of the shadow ledger that mirror the provider
  adjustments,       \* RECONCILIATION_ADJUSTMENT postings: [break, pay, cents]
  runs,              \* run -> status
  jobs,              \* runs with a job in the queue
  worker,
  breaks,            \* rows of reconciliation_break
  opened,            \* bag of the break.opened events appended to the outbox
  operator,
  faults,            \* failures, deaths and stalls that may still happen
  decisions          \* resolutions that operators may still ask for

books == <<statement, late, txns, moves>>
vars == <<now, books, adjustments, runs, jobs, worker, breaks, opened, operator,
          faults, decisions>>

IdleWorker == [at |-> "idle", run |-> 0, provider |-> {}, local |-> {}, ledger |-> {},
               plan |-> {}, unwritten |-> {}, inserted |-> {}]
IdleOperator == [at |-> "idle", key |-> None, action |-> None]

Init ==
  /\ now = 0
  /\ \E world \in Worlds :
       /\ statement = world.statement
       /\ late = world.late
       /\ txns = world.txns
       /\ moves = world.moves
       /\ runs = [r \in 1..world.runs |-> "none"]
       /\ faults = world.faults
       /\ decisions = world.decisions
  /\ adjustments = {}
  /\ jobs = {}
  /\ worker = [w \in Workers |-> IdleWorker]
  /\ breaks = {}
  /\ opened = EmptyBag
  /\ operator = [o \in Operators |-> IdleOperator]

(************************** what the sides show ****************************)

\* Every run mints ids of its own: a ULID each, ordered only by chance among
\* the items minted in one millisecond. order numbers the records of a side.
ItemId(run, side, n) == (100 * run) + (10 * side) + n

fromStatementEntry(e, id) ==
  [id |-> id, side |-> "PROVIDER", externalId |-> e.id, pay |-> e.pay,
   endToEndId |-> e.e2e, providerTransactionId |-> e.id, postedAt |-> e.at,
   effectiveDate |-> e.day, direction |-> e.direction, amountCents |-> e.cents,
   type |-> e.type, status |-> None, party |-> None, ledgerTransactionId |-> None]

fromTransaction(t, id) ==
  [id |-> id, side |-> "LOCAL", externalId |-> t.id, pay |-> t.pay,
   endToEndId |-> t.e2e, providerTransactionId |-> t.ptx, postedAt |-> t.at,
   effectiveDate |-> t.day, direction |-> t.direction, amountCents |-> t.cents,
   type |-> t.type, status |-> t.status, party |-> t.party, ledgerTransactionId |-> t.ltx]

fromLedgerMovement(l, id) ==
  [id |-> id, side |-> "LEDGER", externalId |-> l.id, pay |-> l.pay,
   endToEndId |-> None, providerTransactionId |-> None, postedAt |-> l.at,
   effectiveDate |-> l.day, direction |-> l.direction, amountCents |-> l.cents,
   type |-> l.type, status |-> None, party |-> None, ledgerTransactionId |-> l.id]

\* Nothing moved in a transaction of another status.
RECONCILIATION_STATUSES ==
  {"PENDING", "PROCESSING", "UNKNOWN", "SETTLED", "REVERSED", "PARTIALLY_REVERSED"}

mirrorsProviderMovement(type) ==
  type \in {"PIX_IN_RECEIVE", "PIX_OUT_SETTLE", "PIX_REFUND_IN", "PIX_REFUND_OUT",
            "FEE_CHARGE", "FEE_REVERSAL"}

Orders(records) == {f \in [records -> 1..Cardinality(records)] : IsInjective(f)}

(******************************** the runs *********************************)

At(w, at) == [worker EXCEPT ![w].at = at]

Post(e) ==
  /\ late' = late \ {e}
  /\ statement' = statement \cup {e}
  /\ UNCHANGED <<now, txns, moves, adjustments, runs, jobs, worker, breaks, opened,
                 operator, faults, decisions>>

\* Time passes: what is recent grows older than the grace of settlement.
Pass ==
  /\ now = 0
  /\ now' = SettlementGrace
  /\ UNCHANGED <<books, adjustments, runs, jobs, worker, breaks, opened, operator,
                 faults, decisions>>

startRun(r) == [runs EXCEPT ![r] = "QUEUED"]

\* The run is written, then its job is queued; the process may end between
\* the two (lost), and the next sweep of the window leaves the run alone.
Sweep(r, lost) ==
  /\ runs[r] = "none" /\ \A q \in 1..(r - 1) : runs[q] # "none"
  /\ lost => faults > 0
  /\ runs' = startRun(r)
  /\ jobs' = IF lost THEN jobs ELSE jobs \cup {r}
  /\ faults' = IF lost THEN faults - 1 ELSE faults
  /\ UNCHANGED <<now, books, adjustments, worker, breaks, opened, operator, decisions>>

\* run(): a run that is not QUEUED is left alone. The status is read here and
\* written in the next step.
TakeJob(w, r) ==
  /\ worker[w].at = "idle" /\ r \in jobs
  /\ jobs' = jobs \ {r}
  /\ worker' = IF runs[r] = "QUEUED"
               THEN [worker EXCEPT ![w].at = "taken", ![w].run = r]
               ELSE worker
  /\ UNCHANGED <<now, books, adjustments, runs, breaks, opened, operator, faults, decisions>>

MarkRunning(w) ==
  /\ worker[w].at = "taken"
  /\ runs' = [runs EXCEPT ![worker[w].run] = "RUNNING"]
  /\ worker' = At(w, "provider")
  /\ UNCHANGED <<now, books, adjustments, jobs, breaks, opened, operator, faults, decisions>>

FetchProvider(w) ==
  /\ worker[w].at = "provider"
  /\ \E order \in Orders(statement) :
       worker' = [worker EXCEPT ![w].at = "local",
         ![w].provider = {fromStatementEntry(e, ItemId(worker[w].run, 0, order[e])) :
                            e \in statement}]
  /\ UNCHANGED <<now, books, adjustments, runs, jobs, breaks, opened, operator, faults,
                 decisions>>

FetchLocal(w) ==
  /\ worker[w].at = "local"
  /\ LET shown == {t \in txns : t.status \in RECONCILIATION_STATUSES}
     IN  \E order \in Orders(shown) :
           worker' = [worker EXCEPT ![w].at = "ledger",
             ![w].local = {fromTransaction(t, ItemId(worker[w].run, 1, order[t])) : t \in shown}]
  /\ UNCHANGED <<now, books, adjustments, runs, jobs, breaks, opened, operator, faults,
                 decisions>>

\* The provider's statement and our transactions are read by day, the ledger by
\* instant: the hours of an intraday run end the ledger's side before its day.
InWindow(m) == WindowStart <= m.at /\ m.at <= WindowEnd

fetchLedger(run, order) ==
  {fromLedgerMovement(l, ItemId(run, 2, order[l])) :
     l \in {m \in moves : InWindow(m) /\ mirrorsProviderMovement(m.type)}}

\* The last side is read and the engine runs; nothing is written yet. The
\* provider's statement carries the balances around its own entries.
FetchLedger(w) ==
  /\ worker[w].at = "ledger"
  /\ \E order \in Orders(moves) :
       LET ledger == fetchLedger(worker[w].run, order)
           closing == FoldSet(LAMBDA p, sum : sum + Signed(p), 0, worker[w].provider)
           plan == reconcile(worker[w].provider, worker[w].local, ledger, 0, closing, LastDay, now)
       IN  worker' = [worker EXCEPT ![w].at = "persist", ![w].ledger = ledger,
                                    ![w].plan = plan, ![w].unwritten = plan.breaks]
  /\ UNCHANGED <<now, books, adjustments, runs, jobs, breaks, opened, operator, faults,
                 decisions>>

RowKey(d) == <<d.type, d.effectiveDate, d.dedupeKey>>

\* Mutant: a break that recurs is a new one.
StatusOnConflictReset(status) == "OPEN"
StatusOnConflict(status) ==
  IF status \in {"RESOLVED", "AUTO_RESOLVED"} THEN "OPEN" ELSE status

\* The statement of one draft: its row is new, or the one with its key.
Upserted(rows, d) ==
  LET known == {row \in rows : row.key = RowKey(d)}
  IN  (rows \ known)
      \cup (IF known = {} THEN {[key |-> RowKey(d), status |-> "OPEN", draft |-> d]}
            ELSE {[row EXCEPT !.status = StatusOnConflict(@), !.draft = d] : row \in known})

Inserted(rows, new) == {row \in new : row.key \notin {old.key : old \in rows}}

\* upsertMany awaits each draft; those of pass 4 come last.
UpsertBreaks(w) ==
  /\ worker[w].at = "persist"
  /\ \E d \in worker[w].unwritten :
       /\ d.ledger # None => \A e \in worker[w].unwritten : e.ledger # None
       /\ breaks' = Upserted(breaks, d)
       /\ worker' = [worker EXCEPT ![w].unwritten = @ \ {d},
                                   ![w].inserted = @ \cup Inserted(breaks, breaks')]
  /\ UNCHANGED <<now, books, adjustments, runs, jobs, opened, operator, faults, decisions>>

\* What a break is about, whatever ids the run gave its items.
External(i) == IF i = None THEN None ELSE i.externalId
Problem(d) == [type |-> d.type, e2e |-> d.endToEndId, provider |-> External(d.provider),
               local |-> External(d.local)]

\* When all are written, an event for each row that was inserted, one by one.
EmitOpened(w) ==
  /\ worker[w].at = "persist" /\ worker[w].unwritten = {}
  /\ \E row \in worker[w].inserted :
       /\ opened' = opened (+) SetToBag({Problem(row.draft)})
       /\ worker' = [worker EXCEPT ![w].inserted = @ \ {row}]
  /\ UNCHANGED <<now, books, adjustments, runs, jobs, breaks, operator, faults, decisions>>

closeNotRecurring(rows, keep) ==
  {IF /\ row.status \in {"OPEN", "INVESTIGATING"}
      /\ row.key[2] \in FirstDay..LastDay /\ row.key[3] \notin keep
   THEN [row EXCEPT !.status = "AUTO_RESOLVED"] ELSE row : row \in rows}

CloseNotRecurring(w) ==
  /\ worker[w].at = "persist" /\ worker[w].unwritten = {} /\ worker[w].inserted = {}
  /\ breaks' = closeNotRecurring(breaks, {d.dedupeKey : d \in worker[w].plan.breaks})
  /\ worker' = At(w, "complete")
  /\ UNCHANGED <<now, books, adjustments, runs, jobs, opened, operator, faults, decisions>>

Complete(w) ==
  /\ worker[w].at = "complete"
  /\ runs' = [runs EXCEPT ![worker[w].run] =
       IF worker[w].plan.breaks = {} THEN "COMPLETED" ELSE "COMPLETED_WITH_BREAKS"]
  /\ worker' = At(w, "resolve")
  /\ UNCHANGED <<now, books, adjustments, jobs, breaks, opened, operator, faults, decisions>>

\* importFromProvider: the credit goes down the path of a webhook (module
\* CreditIn); here it is one step. A payment that is known is only recorded.
Imported(items) ==
  {i \in items : ~\E t \in txns : t.ptx = i.externalId \/ (t.e2e # None /\ t.e2e = i.endToEndId)}

\* The intentions of the plan are applied; each may fail and leaves its break
\* open. Ignoring a difference of timing writes an audit record and no more.
AutoResolve(w) ==
  /\ worker[w].at = "resolve"
  /\ LET wanted == {d.provider : d \in {b \in worker[w].plan.breaks :
                                         b.autoResolution = "IMPORT_FROM_PROVIDER"}}
     IN  \E done \in SUBSET Imported(wanted) :
           /\ txns' = txns \cup
                {[id |-> <<"import", i.externalId>>, pay |-> i.pay, e2e |-> i.endToEndId,
                  ptx |-> i.externalId, at |-> i.postedAt, day |-> i.effectiveDate,
                  direction |-> "CREDIT", cents |-> i.amountCents, type |-> "PIX_IN",
                  status |-> "SETTLED", party |-> None, ltx |-> <<"pix-in", i.externalId>>] :
                   i \in done}
           /\ moves' = moves \cup
                {[id |-> <<"pix-in", i.externalId>>, pay |-> i.pay, at |-> i.postedAt,
                  day |-> i.effectiveDate, direction |-> "CREDIT", cents |-> i.amountCents,
                  type |-> "PIX_IN_RECEIVE"] : i \in done}
  /\ worker' = [worker EXCEPT ![w] = IdleWorker]
  /\ UNCHANGED <<now, statement, late, adjustments, runs, jobs, breaks, opened, operator,
                 faults, decisions>>

Working(w) == worker[w].at \notin {"idle", "resolve"}

\* An error before the run is complete: FAILED, and the retries of the job
\* find it so and stop. A process that dies leaves the run as it is.
Fail(w, dies) ==
  /\ Working(w) /\ faults > 0
  /\ faults' = faults - 1
  /\ runs' = IF dies \/ worker[w].at = "taken" THEN runs
             ELSE [runs EXCEPT ![worker[w].run] = "FAILED"]
  /\ jobs' = jobs \cup {worker[w].run}
  /\ worker' = [worker EXCEPT ![w] = IdleWorker]
  /\ UNCHANGED <<now, books, adjustments, breaks, opened, operator, decisions>>

\* The lock of a job expires and the queue offers it again.
Stall(w) ==
  /\ Working(w) /\ faults > 0
  /\ faults' = faults - 1
  /\ jobs' = jobs \cup {worker[w].run}
  /\ UNCHANGED <<now, books, adjustments, runs, worker, breaks, opened, operator, decisions>>

(***************************** the operators *******************************)

Row(key) == CHOOSE row \in breaks : row.key = key

\* resolve() reads the break and refuses one that is closed.
OpenBreak(o, row, action) ==
  /\ operator[o].at = "idle" /\ decisions > 0
  /\ row.status \notin {"RESOLVED", "WRITTEN_OFF"}
  /\ operator' = [operator EXCEPT ![o] = [at |-> "apply", key |-> row, action |-> action]]
  /\ decisions' = decisions - 1
  /\ UNCHANGED <<now, books, adjustments, runs, jobs, worker, breaks, opened, faults>>

\* How much the client's balance must change, and which way; None is a
\* refusal. An item missing at the provider is undone, any other is applied.
signedDelta(d) ==
  LET undo == d.type = "MISSING_ON_PROVIDER"
      item == IF undo THEN d.local ELSE IF d.provider # None THEN d.provider ELSE d.ledger
  IN  IF d.deltaCents \notin {None, 0} THEN d.deltaCents
      ELSE IF item = None \/ d.type \notin {"MISSING_ON_PROVIDER", "MISSING_ON_LOCAL",
                                            "MISSING_ON_LEDGER"}
      THEN None
      ELSE IF undo THEN -Signed(item) ELSE Signed(item)

PayOf(d) == IF d.local # None THEN d.local.pay
            ELSE IF d.provider # None THEN d.provider.pay
            ELSE IF d.ledger # None THEN d.ledger.pay ELSE None

\* The ledger answers a second call with the key of a break with the first
\* posting.
PostAdjustment(o) ==
  LET row == operator[o].key
      cents == signedDelta(row.draft)
      known == \E a \in adjustments : a.break = row.key
  IN  /\ operator[o].at = "apply" /\ operator[o].action = "CREATE_LEDGER_ADJUSTMENT"
      /\ adjustments' = IF cents = None \/ known THEN adjustments
                        ELSE adjustments \cup {[break |-> row.key, pay |-> PayOf(row.draft),
                                                cents |-> cents]}
      /\ operator' = [operator EXCEPT ![o] =
           IF cents = None THEN IdleOperator ELSE [@ EXCEPT !.at = "write"]]
      /\ UNCHANGED <<now, books, runs, jobs, worker, breaks, opened, faults, decisions>>

\* The status machine lets only a pending or unknown payment be cancelled;
\* otherwise the resolution is refused.
CancelLocalRecord(o) ==
  LET item == operator[o].key.draft.local
      hit == {t \in txns : item # None /\ t.id = item.externalId
                           /\ t.status \in {"PENDING", "UNKNOWN"}}
  IN  /\ operator[o].at = "apply" /\ operator[o].action = "CANCEL_LOCAL_RECORD"
      /\ txns' = (txns \ hit) \cup {[t EXCEPT !.status = "CANCELLED"] : t \in hit}
      /\ operator' = [operator EXCEPT ![o] =
           IF hit = {} THEN IdleOperator ELSE [@ EXCEPT !.at = "write"]]
      /\ UNCHANGED <<now, statement, late, moves, adjustments, runs, jobs, worker, breaks,
                     opened, faults, decisions>>

NoEffect(o) ==
  /\ operator[o].at = "apply"
  /\ operator[o].action \notin {"CREATE_LEDGER_ADJUSTMENT", "CANCEL_LOCAL_RECORD"}
  /\ operator' = [operator EXCEPT ![o].at = "write"]
  /\ UNCHANGED <<now, books, adjustments, runs, jobs, worker, breaks, opened, faults,
                 decisions>>

StatusOf(action) ==
  CASE action = "ESCALATE_TO_PROVIDER" -> "INVESTIGATING"
    [] action = "WRITE_OFF" -> "WRITTEN_OFF"
    [] OTHER -> "RESOLVED"

\* resolveManually writes whatever the status is by now.
ResolveManually(o) ==
  /\ operator[o].at = "write"
  /\ breaks' = {IF row.key = operator[o].key.key
                THEN [row EXCEPT !.status = StatusOf(operator[o].action)] ELSE row :
                  row \in breaks}
  /\ operator' = [operator EXCEPT ![o] = IdleOperator]
  /\ UNCHANGED <<now, books, adjustments, runs, jobs, worker, opened, faults, decisions>>

RunStep(w) ==
  \/ \E r \in DOMAIN runs : TakeJob(w, r)
  \/ MarkRunning(w) \/ FetchProvider(w) \/ FetchLocal(w) \/ FetchLedger(w)
  \/ UpsertBreaks(w) \/ EmitOpened(w) \/ CloseNotRecurring(w) \/ Complete(w)
  \/ AutoResolve(w)

Next ==
  \/ \E e \in late : Post(e)
  \/ Pass
  \/ \E r \in DOMAIN runs, lost \in BOOLEAN : Sweep(r, lost)
  \/ \E w \in Workers : RunStep(w) \/ Stall(w) \/ \E dies \in BOOLEAN : Fail(w, dies)
  \/ \E o \in Operators :
       \/ \E row \in breaks, action \in Actions : OpenBreak(o, row, action)
       \/ PostAdjustment(o) \/ CancelLocalRecord(o) \/ NoEffect(o) \/ ResolveManually(o)

Spec == Init /\ [][Next]_vars

(****************************** properties *********************************)

Planned == {w \in Workers : worker[w].at = "persist"}

\* Times an item of the provider's or of our side appears in the conclusion
\* of a plan: in a pair, as an item without a pair, or as a duplicate.
ProviderUses(plan, i) ==
  Cardinality({m \in plan.matches : m.provider = i})
    + Cardinality({d \in plan.breaks : d.provider = i /\ d.local = None})
LocalUses(plan, i) ==
  Cardinality({m \in plan.matches : m.local = i})
    + Cardinality({d \in plan.breaks : d.local = i /\ d.type \in {"DUPLICATE_LOCAL",
                                                                  "MISSING_ON_PROVIDER"}})
    + Cardinality(plan.pendingSettlement \cap {i})

\* Every item of the window is concluded about exactly once, whichever pass
\* does it: no movement of the provider and none of our transactions is paired
\* twice, reported twice or dropped, and a posting of the ledger is tied to a
\* transaction or reported (engine.ts: each pass consumes from the pool).
EveryItemAccounted ==
  \A w \in Planned :
    LET plan == worker[w].plan IN
    /\ \A i \in worker[w].provider : ProviderUses(plan, i) = 1
    /\ \A i \in worker[w].local : LocalUses(plan, i) = 1
    /\ \A l \in worker[w].ledger :
         \/ \E c \in worker[w].local : c.ledgerTransactionId = l.ledgerTransactionId
         \/ \E d \in plan.breaks : d.ledger = l

\* A pair made by likeness never takes an item that has a partner with its own
\* end-to-end id (strong.ts: pass 1 goes first because the fuzzy pass would
\* steal the match).
CertainPairsFirst ==
  \A w \in Planned : \A m \in worker[w].plan.matches :
    m.pass > 1 =>
      /\ ~\E c \in worker[w].local : strongKey(c) # None /\ strongKey(c) = strongKey(m.provider)
      /\ ~\E p \in worker[w].provider : strongKey(p) # None /\ strongKey(p) = strongKey(m.local)

\* The client hears once of a problem with an end-to-end id, over all the runs
\* of the window, through retries and workers on the same run, and after the
\* problem went and came back (reconciliation.service.ts:300).
OpenedOnce == \A p \in BagToSet(opened) : p.e2e # None => opened[p] = 1

\* No run takes back what an operator wrote off; only an operator who had read
\* the break before may still do so (reconciliation.repositories.ts:208).
RunsRespectWriteOff ==
  [][\A row \in breaks : row.status = "WRITTEN_OFF" =>
       \/ \E new \in breaks' : new.key = row.key /\ new.status = "WRITTEN_OFF"
       \/ \E o \in Operators : operator[o].at = "write" /\ operator[o].key.key = row.key]_vars

Net(records, pay) ==
  FoldSet(LAMBDA r, sum : sum + (IF r.direction = "CREDIT" THEN r.cents ELSE -r.cents), 0,
          {r \in records : r.pay = pay})
Adjusted(pay) ==
  FoldSet(LAMBDA a, sum : sum + a.cents, 0, {a \in adjustments : a.pay = pay})
Gap(pay) == Abs(Net(statement, pay) - (Net(moves, pay) + Adjusted(pay)))

\* An adjustment never takes the shadow ledger farther from the provider: it
\* corrects an error of money and does not make a second one
\* (break-resolution.service.ts:164-170, 211-232).
AdjustmentCorrects ==
  [][adjustments' # adjustments => \A a \in adjustments' \ adjustments :
       Gap(a.pay)' <= Gap(a.pay)]_vars
=============================================================================
