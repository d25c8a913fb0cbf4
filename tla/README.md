# BaaS-Connector: TLA+ models, checks and proofs

BaaS-Connector puts one API in front of several Brazilian banking providers. A
client asks for a Pix payment once; the connector reserves the money in its own
shadow ledger, calls the provider, and follows the payment through webhooks,
lookups and sweepers until it is final. Around that it opens accounts, registers
keys, issues charges, serves balances and statements, announces events to its
clients and reconciles three sets of books. This project models what happens to
all of that when answers are lost, requests repeated, events reordered, handlers
interleaved and processes killed.

Paths below are relative to `src/`. Every definition that stands for code is
listed with its lines in `PROJECT.json` under `map`, every component under
`components`, every place that is hard to test under `hazards`.

## 1. Inventory

| Component | State | Operations | Interacts with |
|---|---|---|---|
| Ledger engine `packages/ledger` | counters per account, transactions by idempotency key, entries with a running balance | open accounts, post, commitPending, voidPending | store (a port) |
| Ledger store on Postgres `packages/db`, `apps/api/src/ledger`, `post_transaction` | the same tables; row locks; the field `scoped` | runExclusive, lockAccounts, find*, persist | engine, Postgres |
| Shadow ledger service `apps/api/src/ledger/shadow-ledger.service.ts` | none of its own | authorizeOut, settleOut, voidOut, creditIn, refund*, adjust, moveBlocked | engine |
| HTTP client, circuit breaker, token store `packages/adapter-kit` | attempts of a call; bucket of the circuit; cached token | request, assertClosed, record*, getToken, invalidate | provider |
| Idempotency `apps/api/src/idempotency` | one record per key: state, lease, operationId, answer | claim, stealLease, complete, fail, release | every write endpoint |
| Outgoing Pix, send `apps/api/src/pix` | transaction row, operation row, outbox | send, onUnknownOutcome, recordSent, lookupAtProvider | idempotency, ledger, provider |
| Outgoing Pix, settlement `pix/operation-reconciler.ts`, `webhooks/webhook-apply.service.ts` | the same rows | resolve, applyTransaction | ledger, status machines, outbox |
| Unknown-outcome ladder `apps/worker/src/operations`, `queues`, `maintenance` | operation row, jobs, break | step, exhaust, sweepStuck | reconciler, BullMQ |
| Status machines `packages/taxonomy/src/fsm` | status and last_event_at of a row | decideMonotonic, checkTransition | every event |
| Inbound webhooks `apps/api/src/webhooks`, `events` | stored events, jobs, aggregate lock | receive, process, sweep | status machines, all aggregates |
| Outbox `apps/worker/src/outbox` | outbox rows, deliveries, endpoints, jobs | claim, fan out, deliver, retry, suspend | clients |
| Incoming Pix and poller `webhook-apply.service.ts`, `apps/worker/src/poller` | credits, transactions, claimed entries, watermark | receiveInbound, poll, import | ledger, provider |
| Refunds `pix-transfers.service.ts` | hold and row of a refund | refund | ledger, provider |
| Three-way reconciliation `packages/reconciliation`, `apps/worker/src/reconciliation` | runs, items, breaks | plan, run, resolve | statement, rows, ledger, operators |
| Accounts and onboarding `apps/api/src/accounts`, `onboarding` | account, case, requirements | create, changeStatus, documents, events | provider |
| Pix keys, charges `apps/api/src/pix` | rows, the bank's DICT and charges | create, remove, cancel, pay | provider |
| Balance `apps/api/src/balance`, `cache` | cache entry, flight lock | get, invalidate | provider, ledger |
| Connections `apps/api/src/admin`, `providers` | row, cache of each pod | create, rotate, edit, resolve | every call |
| Console sessions, HTTP surface, API keys `apps/api/src/admin`, `auth`, `apps/web` | sessions, cookies, keys, nonces | login, refresh, logout, mint, revoke, guards | every request |
| Repositories and doubles `apps/api/src/persistence` | every table | all | everything |
| Mock bank `apps/mock-bank` | payments, books, cases, keys, charges, webhooks | its HTTP API | the adapters |
| Adapters, SDK, docs, console pages, observability, cryptography | none that a protocol depends on | | |

What makes each of them hard, and what makes it correct:

* **Engine.** A long sequence of legal calls must keep counters, holds and
  entries in step. A hold is resolved once; no overdraft with pending money
  counted; a hold can always be resolved; statements add up.
* **Store.** Concurrent sessions, READ COMMITTED, lock timeouts. It behaves as
  the atomic engine, and no call waits for ever.
* **HTTP client.** Silence after a write, calls that share a circuit and a token.
  No write is repeated unless it provably did not happen; silence is told apart
  from refusal; an open circuit closes again.
* **Idempotency and send.** Two requests on one key, a pod that dies anywhere.
  One payment per key, reserved before it is sent; the answer given stays true;
  nothing is left behind.
* **Settlement.** Webhook and reconciler race, three separate writes each. Ledger
  before status, each final status once and for good.
* **Ladder.** Delayed jobs whose identity may block the sweeper. Every unknown
  outcome is concluded or handed to a person.
* **Inbound events.** Reordering, duplication, two jobs of one event, an expiring
  lock. We end where the provider is, and no stored event is forgotten.
* **Outbox.** A claim that commits before the plan, retries as new rows, jobs with
  identity. No event is lost by a living process; every delivery ends.
* **Credits and refunds.** One Pix comes by three ways; four writes with no
  transaction around them. Credited once and in the end; money asked back stays
  reserved.
* **Reconciliation.** Three sides read at three moments, two workers, an operator.
  Every item is concluded about once; one row per problem; a person's word stays.
* **The rest.** The bank first and the row afterwards, caches in several pods,
  tokens that rotate, doubles that must behave as the tables they stand for.

## 2. Modules

| Module | Models | Uses |
|---|---|---|
| `LedgerOps` | counters, balances, overdraft guard, effect of a posting and a resolution | |
| `Ledger` | the engine as an atomic machine; the abstract specification of the store | `LedgerOps` |
| `LedgerServices` | the shadow ledger service and the mock bank's ledger service, call by call on the engine | `Ledger` |
| `LedgerSessions` | sessions on Postgres, statement by statement; `ImplementsEngine` is `Ledger` by INSTANCE | `LedgerOps`, `Ledger` |
| `HttpCall`, `Circuit`, `ProviderCall` | the loop of one call; the bucket of the breaker; calls that share circuit and token | the first two by the third |
| `PixSend` | the interceptor around `send`, for the requests of one key | |
| `StatusFsm` | transition tables, ranks, the monotonic guard | |
| `PixSettle` | one sent payment, webhook against reconciler | `StatusFsm` |
| `Ladder` | one operation of unknown outcome, its jobs and the sweeper | |
| `Inbound` | events of one aggregate, from the provider to the row | `StatusFsm` |
| `Outbox` | events of one subject, from the outbox to the endpoints | |
| `Bank` | the mock bank's payments, books and webhooks | `LedgerOps` |
| `CreditIn` | a received Pix: webhook, poller, import | `Bank` |
| `Refunds` | a client's refund, with the bank and the credits | `CreditIn` |
| `Calendar`, `ReconEngine`, `Reconciliation` | business days; the five passes; runs, breaks, operators | in that order |
| `BankOnboarding`, `Accounts` | the bank's side of opening an account; ours | `StatusFsm` |
| `PixKeys`, `PixCharges` | keys and the DICT; charges, payers and their events | `StatusFsm` |
| `Balance`, `Connections`, `ConsoleSessions`, `Surface` | cache; credentials; sessions; routes and guards | |
| `Rows`, `MemoryRepositories`, `PrismaRepositories`, `Doubles` | the two sets of repositories and their comparison | |
| `SumTheorems` | sums over finite sets: lemmas the proofs about books share | |
| `LedgerProofs`, `LedgerSessionsProofs`, `PixSendProofs`, `OutboxProofs`, `RefundsProofs`, `ReconciliationProofs`, `PlatformProofs` | theorems | the modules they are named after; `LedgerProofs` also `LedgerServices`, `PixSendProofs` also `ProviderCall`, `RefundsProofs` also `Bank` and `CreditIn`, `PlatformProofs` the parts that `MCPlatform` composes but for `Doubles`, and `PixSettle` and `Inbound` |
| `MC*` | instances for TLC (`Inbound`, `ProviderCall` and `PixSend` need none) | |

### Ledger, LedgerOps, LedgerServices

`acct[a]` holds the four counters of `LedgerAccount`; `txn` maps an idempotency
key to status, legs, phase and the hold it resolves; `book[a]` is the sequence of
entries of the account with the resulting balance. Amounts are integers (the
code uses bigint, so no width). `OpenAccounts`, `Post`, `CommitPending` and
`VoidPending` are the public calls, each with its replays, early errors and the
guard. A call that throws changes nothing and is a stuttering step. `LedgerServices`
has an action per posting and resolution of `ShadowLedgerService` and of the bank's
`LedgerService`, with the legs each builds. The bank settles in two calls of the
engine: `owed` is what is between them, and other calls interleave there.

### LedgerSessions

One step per statement: begin, lookups, each row lock in id order, computation
from the locked copies, `post_transaction` with its constraints, commit, and the
ways out: lock timeout, expiry of the interactive transaction, exceptions. Every
statement goes through the handle `scoped` names at that moment, as in the code;
`ProcessOf` says which sessions share that field: in `sessions` each has a process of its
own, in `oneProcess` both run in the one Nest process the API is.

### HttpCall, Circuit, ProviderCall

Attempt number, outcome of each attempt, the single renewal of the token after
401 or 403, `canRetry` with the class of the outcome, `terminalError`. `executed`
counts what the provider did: a timeout or a reset may come before or after it.
`ProviderCall` cuts a pass of the loop at its awaits (assertClosed, the token, the
exchange), repeats calls, and runs another one beside them that counts in the same
bucket and fetches under the same key. Times are ages of the window and of the
opening, in units.

### PixSend

Per request a program counter over the awaits of `handle`, `send` and
`onFailure`; the record of the key, holds, transactions, operations keyed by the
operationId the record mints. The provider executes an operationId at most once
(it is the key sent to it), answers, refuses, stays silent, and may execute after
the caller gave up. Errors raised before the call carry their code, because
`isDeterministic` decides by it whether the record keeps the refusal or is released.
`Faults` selects what else goes wrong, and `faulted` keeps what did, so every
property says what it withstands: `AtMostOnePayment` and `AnswerIsFinal` withstand
deaths anywhere and thefts by who comes after (a request that outlives its own lease is
another fault, which they except); of `PaymentsAreBacked`, that the ledger knows every payment
withstands all five faults and that a payment is reserved and linked is stated for
requests in which nothing but refusals, losses and silence happened; so is, of
`NothingIsForgotten`, that holds and unknown outcomes are tracked (section 6 says
what happens otherwise).

### PixSettle, Ladder

`PixSettle` goes from the write of the row to the final status. Both handlers
write the ledger, then status and outbox in one transaction, then (resolve) the
operation; a worker may die between any two. `misled` records that the statement
scan took another transfer's debit. `Answers` is what the answer to `send` may say: every
status, the final ones too, since recordSent writes what it was told and leaves the hold as
it is. `tx.source` tells who wrote the status, so that `StatusBackedByLedger` can say what
each writer owes the ledger: a handler has resolved the hold the same way before, and an
answer finds it pending, or resolved the same way by an event that came first.
`Ladder` has jobs per step with BullMQ's identity rule: an enqueue whose identity
exists is ignored, also when that job is completed (kept an hour) or failed (kept
seven days). A job whose worker died is given back to the queue once (`stalled`), and failed
at the second death. `lookup` says whether the adapter can be asked.

### Inbound

The provider walks the machine of `Kind` and reports each move. `stored[i]` is the
status of the stored event, `job` its queued or running jobs (several per event: the queue in the
process knows no identity), `lock` the aggregate lock, which may expire under its
holder. Steps of a job: claim by compare-and-set, lock, apply, mark; it may throw
or die at each. The row is written late, after the call that created the aggregate was
answered, and events may come before: such a draft is `ignored`, and the event ends
DISCARDED without touching any row. `rowAt` keeps how much had been reported when the row
was written, and `Converges` is about the events sent after that. `RedisAnswers = FALSE` lets
the lock be refused although free.

### Outbox

`outbox[e]`, the batch each pod has `claimed`, the fan-out it is at, one `row` and one
`job` per event, endpoint and attempt, what the worker of a row is doing (`work`), the
endpoint's status and failures. `abandoned` records what was in the hands of a process
when it died, so that `NothingLost` names exactly the losses a death causes.

### Bank, CreditIn, Refunds

`Bank` cuts each request of the mock bank at its awaits. `CreditIn` has a job per way
and payment through applyDrafts: lock, lookup, credit, transaction, event; the
watermark and the claimed entries of the poller; the import. `posted` is what the engine
knows of idempotency keys and `credits[p]` counts the postings to the balance: that two ways
build one key for a payment, each from the id it was given, is what makes it one. `Refunds` adds the
service's refund, whose original must have been credited.

### Calendar, ReconEngine, Reconciliation

`ReconEngine` is `reconcile()` as operators, pass by pass, over items whose ids are
ordered numbers. `Reconciliation` runs it on what a worker read, side after side (statement
and rows by whole days, the ledger by the instants of the window), and persists: the
breaks row by row, each with the rule for conflicts, then the event of each row that was
new, the automatic resolution, and the closing of what does not recur in the days of the
window. Other workers and operators come between any two of these writes.

### Accounts, keys, charges, balance, connections, sessions, surface

Each models the service await by await, the bank's part where there is one, and
the events that come back. `Surface` has a clock of half seconds, because the guard of
the signatures compares whole ones: the timestamp against a floored clock, and the nonce,
which is kept for twice the tolerance, against the true one. `MCPlatform` composes these
parts and the settlement: they share no state, so one part at a time has the `focus` and the
others rest in an initial state.

### Repositories and doubles

The end-to-end suites of the repository run on in-memory repositories. Both sets
are operators of the same names, one over sequences in order of insertion, one over
sets with an ORDER BY. `Doubles` makes the same calls to both and compares rows and
answers, and `AskBoth` puts every query to both; a client walks a statement meanwhile. The
two do not agree on everything. A call they are known to take differently is made all the
same and ends the comparison (`parted`): the five of `CallUnless`, and the writes that a
constraint of Postgres refuses (`CallIf`). Four columns are hidden by `Seen`. `TwinsAgree` is
about what comes before and beside these; section 6 lists them.

## 3. Runs

| Run | Question | Instance |
|---|---|---|
| `ledger` | does any order of post, commit, void and replay break counters, holds or statements? | 5 accounts, 6 symmetric keys, amounts 1 and 2, fee 0 and 1; called by each service or by anyone (3 transactions, one leg set unbalanced) |
| `sessions` | do concurrent sessions implement the engine, and end? | 2 sessions, 2 processes, 2 calls each |
| `oneProcess` | two calls that share `scoped` | 2 sessions, 1 process; expects a violation |
| `http` | is a write repeated, silence hidden, a circuit shut for ever? | 2 attempts, a second call, 1 probe |
| `send` | all five faults together, with liveness | 2 requests |
| `sendTwice` | an executed payment answered 5xx | 2 requests; expects a violation |
| `ladder` | does every operation end? | 4 steps, delays 0 to 3, clock to 3; workers die once or twice in a job |
| `inbound` | events reordered, repeated, ahead of the row; two jobs each, a lost lock | 2 moves, 1 fault |
| `outbox` | fan-out, retries, suspension, deaths | 2 events, 1 endpoint, 2 attempts, 1 fault |
| `recon` | runs, breaks and an operator | 10 stories of a payment, in pairs or with a second run |
| `credits` | three ways of a credit, a refund, the bank's books | 2 payments, 5 scenarios, 2 faults |
| `platform` | the parts around the payments; the settlement, webhook against reconciler | per part, see `MCPlatform.cfg` |

All hold but `sendTwice` and `oneProcess`. Why these bounds are enough for the cases that matter:

* `ledger`: a credit, two competing holds and the resolution of each need five
  keys; the sixth moves blocked money in between. Amounts 1 and 2 let two holds fit
  or not fit. `MaxEngineCalls` bounds only the caller that may post anything; all five
  properties are proved for every caller.
* `sessions`: two reserves that together exceed the balance, and both resolutions
  of one of them, contend for both rows. That the store implements the engine is
  proved for every instance.
* `http`: one attempt that is retried and one that is the last; a window that ends
  while a probe is out. The proofs of the loop hold for any number of attempts.
* `send`: an owner and one repeat reach every pair of program counters. Three
  requests with `Faults = {"crash"}` add two thieves of one lease and a new operationId
  after a release; that passes too, and the proofs hold for any number of requests.
* `ladder`: a first step, two in the middle, a last one; delays longer than one
  period of the sweeper, as the later ones of the code. Beyond the third tick the clock
  only feeds `PatientLadder`.
* `inbound`: two events may arrive in either order, twice, before or after the row; two
  jobs contend for one event and for the aggregate. `Converges` is proved for any number of
  moves, jobs and faults.
* `outbox`: two events of one subject are what order is about; the second attempt is
  the last; the threshold is reached by two deliveries. Two pods give the same result
  on 153,228 states, in two and a half minutes.
* `recon`: each story is one way in which the three books of a payment disagree;
  pairs of like amounts make the fuzzy passes choose; two runs, with a fault or a
  decision between them, make a break recur; one story has its posting before the
  instants and within the days of the window. The three properties are proved for all books.
* `credits`: one credit and one debit at the bank, each scenario of a Pix out, a
  failure at two of the steps.
* `platform`: two actors of each kind, three where a third may meet two (keys), and
  three calls per table, each table with rows that a query tells apart. Settlement: two
  workers cover the three pairs of handlers, two ticks separate the event from the row and
  from the lookup; the proofs hold for any workers and clock. Signatures: a tolerance of one
  second and five half seconds reach both ends of a window and the expiry of a nonce.

`CHECK_DEADLOCK FALSE` everywhere: calls, payments and bounds come to an end.
`MaxClock`, `MaxFaults`, `MaxCalls` and the like only stop counters.

### Fairness

* `sessions`: weak fairness of the steps of a call already started (event loop,
  database timeouts). None for new calls.
* `send`: weak fairness of a handler that has started, none of the provider and none
  of the client's repeats.
* `ladder`: weak fairness of the sweeper (a repeating timer), of workers, of the
  removal of completed jobs, and of a provider that concludes payments. None of the removal
  of failed jobs, which are kept for seven days.
* `inbound`: queued jobs run, the sweeper runs every 15 seconds, a lock expires.
* `outbox`: a pod that has claimed goes on, workers and the sweeper run, BullMQ
  forgets old jobs. None for new events or for the client's endpoint.
* `http`: calls keep coming and end, time passes. That the provider is well is the
  premise of the property (`healthy`) and not an assumption.
* `credits`: the bank finishes what it began, jobs go on, the schedules of poller and
  reconciliation come round. None for webhooks, which may be lost.

## 4. Proofs

All for arbitrary constants under the named ASSUMEs: types of the constants, bounds
that are natural numbers, finite sets of accounts and of records, marks such as `NoKey`
and `None` that are no member of the set they stand beside, and tables (a chart of
accounts, routes, the calls of a session) with the shape the code gives them. Each
invariant that a run checks is proved of the specification that the run, or the part of
it that has the focus, takes its steps from.

* `SumTheorems`. What a sum over a finite set does when one member changes, joins or
  leaves, and that equal functions have equal sums. The sum is a fold, defined by
  recursion over subsets; the prover has no induction over data, so each fact is
  shown from a least counterexample: among the subsets where it fails there is one
  with no smaller one (`LeastSubset`), and one unfolding contradicts it.
* `LedgerProofs`. `Typing` first. `RecordInv` (types, positive legs, `ResolvedOnce`)
  is inductive and gives `EveryHoldResolvedOnce`. `BalanceInv` is `RecordInv` and
  `NoOverdraft`: it needs the records because the legs a resolution applies are those
  of the hold, known to be positive. Its key lemma is that releasing a leg, and
  posting it again when committing, never lowers the available balance of its
  account, since available already counts a pending debit and not a pending credit.
  It gives `NeverOverdrawn` and `HoldsStayResolvable` together. `StatementsAddUp` goes
  by the entries each action appends, `HistoryNeverRewritten` by one step per action.
  `ShadowUsesTheEngine` and `BankUsesTheEngine` show that every action of either service
  is a call of the engine or a stutter: the legs balance and are among those the engine
  takes. For the second half of the bank's settlement that needs `OwedInv`: only
  authorizePixOut posts a hold, so what waits in the clearing account is a payment's.
  `BooksAlwaysClose` needs `CloseInv`: the two sides of every recorded transaction are
  equal, so applying, committing or voiding its legs moves the totals of both sides by
  the same sum, and the pending counters by the legs of that one transaction.
  `ServicesKeepTheBooks` carries the invariants over.
* `LedgerSessionsProofs`. `SessionsInv` is the argument of two-phase locking. `Scoping`:
  from BEGIN to the `finally` the process's `scoped` names the session. `Current`: the
  copies a session has read are of rows it has locked, and are what is committed.
  `Computed`: what it will write is what the engine makes of them, and passes the guard.
  `Ready`: what is written and not committed is exactly that, under a key nobody else
  has, for a hold still pending. Then a COMMIT is one `Post` or one resolution of `Ledger`
  and every other statement is a stutter: `StoreImplementsEngine`. Its hypothesis
  `OneCallPerProcess`, that no process has two calls inside runExclusive at once, is a condition
  on the behaviour and not on the constants: sessions may share processes. Nothing in the
  API ensures it, and `oneProcess` is what happens without it. What holds without it is
  `StoreNeverOverdraws`: the constraints of the tables refuse a write that would overdraw an
  account or make a pending counter negative, so no row that is or may be committed does
  (`RowsInv`), whoever's transaction carried it.
* `PixSendProofs`. `AtMostOnePayment` says nothing of a request between its awaits, and
  what is true there depends on what has failed. `SendInv` has three layers. `Always`
  holds under all five faults: types, what each program counter says of record, hold
  and row, that an id not minted has left no trace, `LedgerKnowsEveryPayment`.
  `Exclusive` holds while nothing worse than a dead pod happened: who runs has the
  lease and runs alone (`Alone`), every payment is of the record's operation
  (`PaidIsRecorded`), a request that fails has not paid (`FailureUnpaid`). `Clean` holds while nothing failed: no
  lease is stolen, the reserve is there from the call on, the acceptance is linked. Each action is one lemma,
  each layer a step under it. `OnePayment`, `BackedPayments` and, from the same
  invariant, the action property `FinalAnswer`.
* `PixSendProofs`, the client's call. They speak of `ProviderCall`'s specification, where
  circuit, token and other calls interfere. `CallInv`: a write in course has not been
  executed, since what is retried provably was not. `RequestsCounted` ties the requests
  to the loop counter and the one renewal, for `CallsAreBounded`. `TokensApart`: one token
  at a time is cached or on its way, and the refused one is none of them, for
  `TokenNotSentAgain`. Any `MaxAttempts`, window and opening.
* `OutboxProofs`. The rows of an event at an endpoint are a `Chain`, all failed but the
  last; `WorkersKnow` what the row under them may say; `PlannedIsFollowed`,
  a first attempt that was written has a successor, a last word or a recorded death;
  `FansKnow`, a fan-out that wrote its rows wrote one per target. With them
  `NothingLost` is inductive. `SuccessIsLast` reads off the chain: who is about to post
  holds the last attempt. `OneRunner`, a job that somebody runs is active and is not
  taken again, comes with it.
* `RefundsProofs`. `OneKey`: whatever a way was given (the payment's id in the webhook, an
  entry of the statement in the other two), the key it builds names the payment and not the
  way. So `CreditsInv`: the postings to a payment's balance are one if its key was posted and
  none otherwise, and nothing is written before it was; `OneCredit`. `RefundsInv` follows a refund
  through both sides: `RefundShape` (the steps of a refund at the bank), `CalledOnce`
  (a request calls the bank once, and not before it holds the money), `HoldsInv` (the
  hold is released only when the bank has refused, for good): `RefundsAreHeld`.
  `StatementAlwaysCloses` has `BooksFollow`: the posted balance of a customer is the
  opening one and the lines of the payments whose money has moved; `Shape` says which
  steps those are, `OriginalsDone` and `OriginsInv` that what is refunded was received.
* `ReconciliationProofs`. The engine first: every pass keeps `Accounted`, that an item is
  in a pool and nothing is concluded about it, or out of the pools and exactly one thing
  is; after the third pass the pools are empty. The folds of the fuzzy passes are
  followed along the sorted list of their items (`FoldRuns`, again by a least
  counterexample). `BooksInv` and `WorkersInv` carry that to every run, whatever the
  workers read while books change: `EveryItemIsAccounted`. For `ProblemIsOpenedOnce`,
  `OpenedInv`: a problem with an end-to-end id has one key in every run, because what
  a worker holds comes from records whose id tells their day (`WorldsAssumption`); what
  was said has its row, and what a worker has inserted and not announced yet is there, was
  never said, and has a key that no other row of its own or of another worker has, however
  the rows of two workers are written in turn. Both take
  `NoneIsNoItem`: `None`, the absence of an item, is not itself an item. For
  `WriteOffIsRespected` only the shape of the breaks is needed (`BreaksInv`): each write of
  a run keeps a row WRITTEN_OFF under its key, for whatever the engine found.
* `PlatformProofs`, each part from its own specification. `KeysInv`: what a removal
  knows between its reading, the bank and the row. `LinkInv`: a call holds what its own
  reading found, and the cache holds what its version had. `ConsoleInv`: a refresh in
  flight has read a session that exists. `BalanceInv`: every entry, flight and answer
  carries what the account held at its instant. `SurfaceInv`: what each guard has let
  by at each stage, that a claimed nonce is kept for twice the tolerance, and that two
  requests that passed under one are as far `Apart`; since the whole window of a timestamp
  is less than a second longer, both fall in it only from its first second on
  (`AdmittedOnce`). `ChargesInv`: an event says no
  more than the bank has counted. `AccountsInv`: what a creation knows before
  and after the bank, that a reading of a case covers what the bank has open, and that
  one row at most is attached (`OneMirror`).
* `PlatformProofs`, settlement. `StatusBackedByLedger` says nothing of a worker between its
  two writes. `SettleInv` adds `KeyTellsPhase` (the key that resolved the hold tells its
  phase) and `SettleReady` (a worker past the ledger with a final status left the hold in
  the phase of that status) and `Backed` (a final status that a handler wrote has the hold in
  its phase), over typed workers. `Exact` adds `Truthful`: a final status in an event or
  in a worker is the provider's. `~misled => Exact` is inductive (`TracedInv`) and
  gives `HoldFollowsProvider`. `AnsweredInv` follows a final status that came with the
  answer: it is the provider's, and nobody asks the statement about it, so the hold is
  pending or in its phase. With `Backed` that is `FinalStatusBacked`, for every answer.
  `FinalStaysFinal` comes from the guard.
* `PlatformProofs`, events. `Converges` is false for a machine with moves that do not say
  more than the last (section 6), so `EventsConverge` and `AnomaliesAreReal` assume
  `Rising`: what the provider reports rises in rank, and what has a higher rank may follow.
  `PaymentsRise` proves that of a payment's walk, the one the run takes. `InboundInv`:
  our row says less than every report or is the one applied last; what was concluded of the
  events sent after it was written, processed or discarded, is no newer than that; and only
  an event sent before is ignored. `OneJobWorks`, for any machine, has `ClaimsAreExclusive`: the row
  of a claimed event is PROCESSING, which markProcessing does not take.

Only model-checked, and why:

* Liveness: `CircuitRecovers`, `EveryCallEnds`, `NothingIsForgotten`, `EveryOperationEnds`,
  `ReceivedIsTaken`, `EveryDeliveryEnds`, `EveryCreditRecorded`. Temporal reasoning under
  fairness is out of the prover's reach.
* `TwinsAgree` and `StatementWalkIsExact`: they are about what sorted pages and filters
  of sequences of rows compute, table by table, and `TwinsAgree` of comparisons between
  two such computations. The filter `SelectSeq` is recursive and takes its test as an
  operator, so a fact about it would have to be proved test by test.

## 5. Findings

`sendTwice`: a 5xx to an executed write is an ordinary error; the hold is voided, the
key released, and the repeat pays again.

`oneProcess`: the calls of one process share the field `scoped`
(`prisma-ledger-store.ts:39`), so a statement may go through another call's transaction, or
through none once the first to end cleared the field: the counters keep what a rollback
took from the entries, against the comment at its lines 18-20.

The texts with quotations are in `PROJECT.json`.

## 6. Other disagreements

Reproducible with the property or the constants named here in a configuration:

* `Inbound!EveryEventConcluded` with `MaxFaults = 0`: an event left PROCESSING after a
  lost lock, or by a dead pod, is never processed: markProcessing takes RECEIVED and
  FAILED only (`domain.repositories.ts:658-664`), against `webhook-apply.service.ts:206-208`
  and `webhook-sweeper.service.ts:19`.
* `Inbound!Converges` with `Kind = "onboarding"`: moves of equal rank are refused
  (`fsm/apply.ts:105`), against `fsm/transitions.ts:199-201`. With `"account"`: SUSPENDED to
  ACTIVE is legal in the table and refused by rank.
* `Outbox!InOrder`: between FAILED and the row of the retry nothing is PENDING, and a
  later event of the subject overtakes (`outbox-dispatcher.service.ts:93-95`, `:114`). A
  death after claimBatch loses the batch, against its comment at 53-54.
* `Reconciliation!AdjustmentCorrects` with `Worlds <- MCAdjusted` and one worker: the
  adjustment takes deltaCents as provider minus ours
  (`break-resolution.service.ts:217`, `:233-262`), but the fourth pass sets ledger minus
  row (`ledger-cross.ts:125`), and an orphan posting is repeated instead of reversed:
  the error doubles. Undoing a
  debit that is PENDING, missing at the provider, credits what was only reserved.
* `Refunds!RefundsAddUp` with two `Refunders`, three payments, no clock and no faults:
  refundedAmountCents is never incremented (`pix-transfers.service.ts:253-267`), against
  `docs/guides/money-flows.md:112-120`.
* `PixSettle!ToldFailedIsFailed`: the reconciler announces `pix_out.failed` for PROCESSING
  (`operation-reconciler.ts:250`).
* `PixSettle!OutcomeIsSeen`: an event that arrives before the row is ignored for good.
  `LedgerNotAhead`: the ledger moves, then the status is refused as stale_timestamp.
  `UnknownIsOnTheLadder` with UNKNOWN in `Answers`: a row UNKNOWN without operation, against
  `celcoin/src/mappers/pix.ts:28-30`. `HoldIsConfirmed`: the scan takes the only debit of the same
  amount, whoever made it. `SettledOperationIsFinal`: `exhaust` overwrites an operation
  another worker has concluded.
* `Ladder!InReach`: a job that threw, or whose worker died twice, is kept for seven days and
  blocks the sweeper.
  `ExhaustedIsHandedOver`: a death between FAILED and the break. `PatientLadder`:
  `next_try_at` is never written (`pix.repositories.ts:487`), so the sweeper runs ahead.
* `PixSend`: with "lookup" or "slow" the thief of a lease may send while the first
  request is still executing; with "database" a hold may stay that nothing names; a
  death between the transaction and its operation leaves an UNKNOWN row no sweeper
  looks for; a payment found after a theft is recorded without its hold. ADR 0015 says
  the record stays IN_FLIGHT for an unknown outcome; `send` answers 202 and completes it.

* `Surface`: the comment at `nonce.store.ts:13-17`, that no interval lets a repetition pass
  ("nao existe intervalo em que um replay passe"), holds but for the last second of a window whose
  first delivery came in its first: the nonce is kept for twice the tolerance and the window,
  floored, is almost a second longer (`api-key.service.ts:229-246`). `SignedOnce` says so.

Proved and not among the properties of a run: `Ledger!HistoryIsAppendOnly`,
`HttpCall!AttemptsBounded`, `ProviderCall!RefusedTokenNotSent`, `Inbound!NoFalseAnomaly` and
`OneWorkerPerEvent`. Holding on the instances of the runs, and kept beside them: the type
invariants, `Ladder!AttemptsCoverSteps` and `WithinReach`, `PixSettle!ToldOnce`,
`Outbox!DisabledIsEarned`, `CreditIn!PollerSkipsNothing` (while a poll stays within its page
limit), `Reconciliation!CertainPairsFirst`.

Met while reading, part of the models and of no property:

* Refunds and credits: the bank emits `pix_refund.settled` before it answers, so a
  refund row may be SETTLED with its hold pending; a refund of unknown outcome has
  neither row nor operation; the poller claims an entry before it applies it and skips
  what failed (`poll.service.ts:149`, comment 99-100), and stops at its page limit while
  the watermark moves; two requests with one key at the same moment are paid twice by the
  mock bank (`payments.service.ts:105`).
* Settlement: a final status in the answer to `send` is written with the row
  (`pix-transfers.service.ts:129-137`, `:487-502`) and the hold stays PENDING; an event of the
  same status is then no transition and does resolve it, but if none comes nobody does.
* Reconciliation: an intraday run asks the statement and our rows for whole days and the
  ledger for its last four hours (`reconciliation.service.ts:181-182`, `:218-219`, `:241-246`;
  `reconciliation-sweep.service.ts:111-119`), so it reports MISSING_ON_LEDGER, critical, for
  payments settled earlier that day. Without an E2EID the key of a break holds an item id minted per run
  (`match-key.ts:63`), so a problem opens a new row each run; automatic resolution closes
  no break; a run that died RUNNING is not taken again; a torn read reports a false
  orphan; a manual adjustment followed by an import credits twice.
* Accounts: unblocking (rank 5 to 4) and closing an active account are refused by the
  guard and answered 200 with the old status; an event before the attachment is ignored
  and the attachment overwrites the status; a delayed approval re-approves a case that
  was rejected by force; events that list pending codes meet `onboarding_requirement_uq`.
* Keys and charges: a death between the bank and the row leaves PIX_KEY_ALREADY_EXISTS
  for ever, or a row ACTIVE whose removal answers 404; the bank deletes by value, so a
  late removal deletes a key registered again; a payment during a cancellation is dropped
  as stale.
* Balance: the loser of the single flight returns the old entry, for a strong read too;
  an entry fetched before a movement may be stored after its invalidation.
* Console: `rotate` does not compare the hash (`console.repository.ts:129`), so two tabs
  that refresh together both succeed and the next refresh revokes the user's sessions.
  A key of HOMOLOGACAO minted without signing is refused by every signed route.
* Connections: webhookSecret decrypts with version 1 (`credential.resolver.ts:221`);
  updateSettings clears no cache. `isDeterministic` does not list INVALID_EMV_PAYLOAD.
* `findStuck` (`pix.repositories.ts:505`) orders by an enum in which SUBMITTED comes first,
  against its comment.
* Doubles that differ from Postgres, by call: a case opened for an account that has one,
  resolveManually without the adjustment the row has, complete of a delivery that says less
  than the row, a second revokeSession, stealLease of a completed record; a write that a unique
  index or a missing row refuses. By column: credentialsVersion, which the doubles never
  increment, so the suites cannot see the rotation of `Connections`; the item id upsert keeps;
  resolvedBy of closeNotRecurring; processingAt, which toTransaction
  does not return. Left out of both sets: a
  cursor whose row left the filter, the filter holderType, the other fields of api keys and
  connections, the order of findStale.

## 7. Not modelled

Fingerprint mismatch and TTL of idempotency records, the fan-out of the poll schedule,
back-off times and the times of the retry schedule, the history rows of status changes,
the token endpoint and the control panel of the mock
bank. Adapters of other providers map fields and keep no state. Cryptography,
validation, money and BR Code formats, metrics and pages are outside what a model of
states can say anything about, and are covered by the repository's unit tests.

## 8. Plan

1. `ToldOnce` of `PixSettle`, `CertainPairsFirst` of `Reconciliation` and
   `PollerSkipsNothing` of `CreditIn` as theorems.
2. `StatementWalkIsExact`: the pages of the statement as functions of the set of rows and
   the cursor, and a walk proved to visit every row that keeps its place.
3. Rows of the inbound events that arrive before the answer of the call they are about.

## 9. Running

    tlc -workers 2 -config PixSend.cfg PixSend
    tlapm LedgerProofs.tla
