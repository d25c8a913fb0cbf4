------------------------------ MODULE PixSettle ------------------------------
(***************************************************************************)
(* The second half of an outgoing Pix: one payment that was sent, with its *)
(* hold in the shadow ledger, from the write of the local transaction to a *)
(* final status. Workers run two handlers concurrently:                    *)
(*                                                                         *)
(*   webhook   WebhookApplyService.applyTransaction, for an event of the   *)
(*             provider; the time of the event is the provider's;          *)
(*   resolve   OperationReconciler.resolve, called by the ladder for an    *)
(*             operation whose outcome is unknown, and exhaust() when the  *)
(*             ladder ends; the time of the change is ours.                *)
(*                                                                         *)
(* Each handler makes three separate writes: the ledger, then the status   *)
(* with its outbox row in one database transaction, then (resolve only)    *)
(* the operation. Workers interleave between them and may die between      *)
(* them. The aggregate lock of applyDrafts is left out: the code states    *)
(* that correctness does not depend on it, and resolve does not take it.   *)
(***************************************************************************)
EXTENDS StatusFsm, Sequences, FiniteSets

CONSTANTS
  Workers,         \* concurrent handlers
  MaxClock,        \* bound on the clock shared by the provider and us
  Outcomes,        \* final statuses the provider may report
  Answers          \* statuses an adapter may read in the answer to send()

ASSUME WorkersAssumption == IsFiniteSet(Workers) /\ Workers # {}
ASSUME ClockAssumption == MaxClock \in Nat \ {0}
ASSUME OutcomesAssumption == Outcomes \subseteq {"SETTLED", "FAILED", "CANCELLED"}
ASSUME AnswersAssumption ==
  Answers \subseteq {"PENDING", "PROCESSING", "SETTLED", "FAILED", "CANCELLED", "UNKNOWN"}

VARIABLES
  settleClock,
  payment,         \* status of the payment at the provider
  events,          \* events not yet consumed: [status, at]
  hold,            \* the PIX_OUT_AUTHORIZE transaction: its phase
  resolvedBy,      \* idempotency key of the ledger call that resolved it
  tx,              \* the transaction row; source: who wrote its status, the answer to
                   \* send(), its silence or a handler's job
  operation,       \* status of the provider_operation row
  worker,          \* what each worker is doing
  outbox,          \* events appended for the client: [type, status]
  misled           \* a statement scan took another debit for this payment

settleVars ==
  <<settleClock, payment, events, hold, resolvedBy, tx, operation, worker, outbox, misled>>

Final == {"SETTLED", "FAILED", "CANCELLED"}
Reports == {"PROCESSING"} \cup Final
Times == 0..MaxClock
NoTx == [status |-> "none", lastEventAt |-> NoEvent, ref |-> FALSE, source |-> "none"]
Idle == [job |-> "idle", at |-> "done", status |-> "none", time |-> 0]

\* Worker w goes on to its next write, or is done with its job.
Goto(w, at) == [worker EXCEPT ![w] = [worker[w] EXCEPT !.at = at]]
Done(w) == [worker EXCEPT ![w] = Idle]

SettleInit ==
  /\ settleClock = 0
  /\ payment = "PROCESSING"
  /\ events = {}
  /\ hold = "PENDING"
  /\ resolvedBy = <<>>
  /\ tx = NoTx
  /\ operation = "none"
  /\ worker = [w \in Workers |-> Idle]
  /\ outbox = <<>>
  /\ misled = FALSE

SettleTick ==
  /\ settleClock < MaxClock
  /\ settleClock' = settleClock + 1
  /\ UNCHANGED <<payment, events, hold, resolvedBy, tx, operation, worker, outbox, misled>>

\* The provider concludes the payment and emits the event.
Conclude(s) ==
  /\ payment = "PROCESSING"
  /\ payment' = s
  /\ events' = events \cup {[status |-> s, at |-> settleClock]}
  /\ UNCHANGED <<settleClock, hold, resolvedBy, tx, operation, worker, outbox, misled>>

\* send() had an answer: recordSent writes the status of the answer, final or
\* not, which may be older than the payment's by now, and stamps the row with
\* our clock. It makes no call to the ledger: the hold stays as it is. UNKNOWN
\* is the adapter's reading of a status it has no name for.
RecordSent(s) ==
  /\ tx = NoTx
  /\ s \in Final => s = payment
  /\ tx' = [status |-> s, lastEventAt |-> settleClock, ref |-> TRUE, source |-> "answer"]
  /\ outbox' = Append(outbox, [type |-> "pix_out.pending", status |-> s])
  /\ UNCHANGED <<settleClock, payment, events, hold, resolvedBy, operation, worker, misled>>

\* send() had no answer: onUnknownOutcome writes the transaction without any
\* reference to the provider, then the operation.
RecordUnknown ==
  /\ tx = NoTx
  /\ tx' = [status |-> "UNKNOWN", lastEventAt |-> settleClock, ref |-> FALSE,
             source |-> "silence"]
  /\ operation' = "UNKNOWN"
  /\ outbox' = Append(outbox, [type |-> "pix_out.pending", status |-> "UNKNOWN"])
  /\ UNCHANGED <<settleClock, payment, events, hold, resolvedBy, worker, misled>>

\* A worker takes an event. findTransaction needs the provider's id or the
\* end-to-end id on the row; without it an outgoing payment is unknown to us
\* and the event is ignored. The event may be offered again (kept).
Deliver(w, e, kept) ==
  /\ worker[w] = Idle
  /\ events' = IF kept THEN events ELSE events \ {e}
  /\ worker' = [worker EXCEPT ![w] =
       IF tx.ref
       THEN [job |-> "webhook", at |-> "ledger", status |-> e.status, time |-> e.at]
       ELSE Idle]
  /\ UNCHANGED <<settleClock, payment, hold, resolvedBy, tx, operation, outbox, misled>>

\* The ladder takes a step: resolve() goes on only for a stuck operation.
Resolve(w) ==
  /\ worker[w] = Idle
  /\ operation \in {"UNKNOWN", "SUBMITTED"}
  /\ worker' = [worker EXCEPT ![w] =
       [job |-> "resolve", at |-> "lookup", status |-> "none", time |-> 0]]
  /\ UNCHANGED <<settleClock, payment, events, hold, resolvedBy, tx, operation, outbox, misled>>

\* Mutant: what is not settled is taken for failed.
FoundOrFailed(w, s) ==
  /\ worker[w].at = "lookup"
  /\ s = IF payment = "SETTLED" THEN "SETTLED" ELSE "FAILED"
  /\ worker' = [worker EXCEPT ![w] =
       [job |-> "resolve", at |-> "ledger", status |-> s, time |-> settleClock]]
  /\ UNCHANGED <<settleClock, payment, events, hold, resolvedBy, tx, operation, outbox, misled>>

\* The payment is found by the key, by its reference or on the statement.
Found(w, s) ==
  /\ worker[w].at = "lookup"
  /\ s = payment
  /\ worker' = [worker EXCEPT ![w] =
       [job |-> "resolve", at |-> "ledger", status |-> s, time |-> settleClock]]
  /\ UNCHANGED <<settleClock, payment, events, hold, resolvedBy, tx, operation, outbox, misled>>

\* The exact lookups found nothing and the statement scan matched the only
\* debit of this amount, which is another transfer's.
FoundOther(w) ==
  /\ worker[w].at = "lookup"
  /\ payment # "SETTLED"
  /\ worker' = [worker EXCEPT ![w] =
       [job |-> "resolve", at |-> "ledger", status |-> "SETTLED", time |-> settleClock]]
  /\ misled' = TRUE
  /\ UNCHANGED <<settleClock, payment, events, hold, resolvedBy, tx, operation, outbox>>

\* Nothing found (not indexed yet, or the lookup failed): the next step of
\* the ladder is scheduled, or this was the last one.
NotFound(w, last) ==
  /\ worker[w].at = "lookup"
  /\ worker' = [worker EXCEPT ![w] =
       IF last
       THEN [job |-> "exhaust", at |-> "operation", status |-> "none", time |-> 0]
       ELSE Idle]
  /\ UNCHANGED <<settleClock, payment, events, hold, resolvedBy, tx, operation, outbox, misled>>

\* The idempotency key each handler gives settleOut and voidOut.
LedgerKey(w) == <<IF worker[w].status = "SETTLED" THEN "settle" ELSE "void", worker[w].job>>

\* Mutant: the engine's refusal is swallowed.
SettledSomehow(w) == hold # "PENDING"

\* The engine has seen this key: it answers as it did then.
Replays(w) == resolvedBy = LedgerKey(w)

\* settleOut or voidOut, for a final status. The engine replays the same key
\* and throws when the hold is no longer pending.
Ledger(w) ==
  /\ worker[w].at = "ledger"
  /\ \/ /\ worker[w].status \notin Final
        /\ worker' = Goto(w, "status")
        /\ UNCHANGED <<hold, resolvedBy>>
     \/ /\ worker[w].status \in Final
        /\ hold = "PENDING"
        /\ hold' = IF worker[w].status = "SETTLED" THEN "POSTED" ELSE "VOIDED"
        /\ resolvedBy' = LedgerKey(w)
        /\ worker' = Goto(w, "status")
     \/ /\ worker[w].status \in Final
        /\ hold # "PENDING"
        /\ worker' = IF Replays(w) THEN Goto(w, "status") ELSE Done(w)
        /\ UNCHANGED <<hold, resolvedBy>>
  /\ UNCHANGED <<settleClock, payment, events, tx, operation, outbox, misled>>

\* Mutant: the newest report wins.
AcceptsNewest(s, time) == time >= tx.lastEventAt

\* transactions.applyStatusChange under SELECT ... FOR UPDATE.
Accepts(s, time) ==
  /\ decideMonotonic(TRANSACTION_STATUS_RANKS, tx.status, s, time, tx.lastEventAt)
  /\ checkTransition(TRANSACTION_STATUS_TRANSITIONS, tx.status, s)

\* The type of the outbox row: the webhook forwards the one the adapter read
\* (eventTypeFor, which has no type for CANCELLED), resolve has only two.
ClientEvent(job, s) ==
  IF s = "SETTLED" THEN "pix_out.settled"
  ELSE IF job = "resolve" \/ s = "FAILED" THEN "pix_out.failed"
  ELSE "pix_out.pending"

\* The end-to-end id, by which a later event finds the row, comes with
\* PROCESSING or SETTLED. The alert that handleRejection raises for an illegal
\* transition is raised as an anomaly (Inbound).
ApplyStatus(w) ==
  /\ worker[w].at = "status"
  /\ LET s == worker[w].status IN
     IF Accepts(s, worker[w].time)
     THEN /\ tx' = [status |-> s, lastEventAt |-> worker[w].time,
                    ref |-> tx.ref \/ s \in {"PROCESSING", "SETTLED"},
                    source |-> worker[w].job]
          /\ outbox' = Append(outbox, [type |-> ClientEvent(worker[w].job, s), status |-> s])
     ELSE UNCHANGED <<tx, outbox>>
  /\ worker' = IF worker[w].job = "resolve" THEN Goto(w, "operation") ELSE Done(w)
  /\ UNCHANGED <<settleClock, payment, events, hold, resolvedBy, operation, misled>>

\* The last write of applyOutcome, or the write of exhaust(): the operation
\* is updated by id, whatever its status is by now.
UpdateOperation(w) ==
  /\ worker[w].at = "operation"
  /\ operation' = CASE worker[w].job = "exhaust"            -> "FAILED"
                    [] worker[w].status = "SETTLED"         -> "SETTLED"
                    [] worker[w].status \in {"FAILED", "CANCELLED"} -> "FAILED"
                    [] OTHER                                -> "SUBMITTED"
  /\ worker' = Done(w)
  /\ UNCHANGED <<settleClock, payment, events, hold, resolvedBy, tx, outbox, misled>>

\* The process dies between two writes; the event is offered again by the
\* sweeper, the operation by sweepStuck.
Crash(w) ==
  /\ worker[w] # Idle
  /\ worker' = Done(w)
  /\ events' = IF worker[w].job = "webhook"
               THEN events \cup {[status |-> worker[w].status, at |-> worker[w].time]}
               ELSE events
  /\ UNCHANGED <<settleClock, payment, hold, resolvedBy, tx, operation, outbox, misled>>

Step(w) ==
  \/ \E s \in Reports : Found(w, s)
  \/ FoundOther(w)
  \/ \E last \in BOOLEAN : NotFound(w, last)
  \/ Ledger(w)
  \/ ApplyStatus(w)
  \/ UpdateOperation(w)

SettleNext ==
  \/ SettleTick
  \/ \E s \in Outcomes : Conclude(s)
  \/ \E s \in Answers : RecordSent(s)
  \/ RecordUnknown
  \/ \E w \in Workers :
       \/ \E e \in events, kept \in BOOLEAN : Deliver(w, e, kept)
       \/ Resolve(w)
       \/ Step(w)
       \/ Crash(w)

SettleSpec == SettleInit /\ [][SettleNext]_settleVars

(***************************************************************************)
(* Properties                                                              *)
(***************************************************************************)

SettleTypeOK ==
  /\ settleClock \in Times
  /\ payment \in Reports
  /\ events \subseteq [status : Final, at : Times]
  /\ hold \in {"PENDING", "POSTED", "VOIDED"}
  /\ resolvedBy \in {<<>>} \cup ({"settle", "void"} \X {"webhook", "resolve"})
  /\ tx \in [status : DOMAIN TRANSACTION_STATUS_RANKS, lastEventAt : Times, ref : BOOLEAN,
             source : {"answer", "silence", "webhook", "resolve"}]
         \cup {NoTx}
  /\ operation \in {"none", "UNKNOWN", "SUBMITTED", "SETTLED", "FAILED"}
  /\ worker \in [Workers -> [job : {"idle", "webhook", "resolve", "exhaust"},
                             at : {"done", "lookup", "ledger", "status", "operation"},
                             status : Reports \cup {"none"}, time : Times]]
  /\ outbox \in Seq([type : {"pix_out.pending", "pix_out.settled", "pix_out.failed"},
                     status : DOMAIN TRANSACTION_STATUS_RANKS])
  /\ misled \in BOOLEAN

\* The phase a hold must be in for a final status to be true.
HoldOf(s) == IF s = "SETTLED" THEN "POSTED" ELSE "VOIDED"

\* A final status never stands against the ledger: whoever wrote it, the hold was
\* not resolved the other way. When a handler wrote it, the ledger has already
\* moved or released the money: both handlers write the ledger first, and no
\* interleaving of the two lets a status overtake it. When it came with the
\* answer to send(), the hold may still be pending: recordSent leaves it to an
\* event that is still to come.
StatusBackedByLedger ==
  tx.status \in Final =>
    \/ hold = HoldOf(tx.status)
    \/ tx.source = "answer" /\ hold = "PENDING"

\* ADR 0015: commitPending on a confirmed settlement, voidPending on a
\* confirmed failure.
HoldIsConfirmed ==
  /\ hold = "POSTED" => payment = "SETTLED"
  /\ hold = "VOIDED" => payment \in {"FAILED", "CANCELLED"}

\* The hold is committed only for a payment the provider settled and voided
\* only for one it refused: no lookup that finds nothing, no exhausted ladder
\* and no late event resolves it the wrong way, as long as no statement scan
\* took another debit for this payment.
LedgerFollowsProvider == ~misled => HoldIsConfirmed

\* The client is told a final status once, though the event and the lookup
\* both report it, each possibly several times.
ToldOnce == Cardinality({i \in DOMAIN outbox : outbox[i].status \in Final}) <= 1

\* A final status is never replaced by another, whichever handler is late.
FinalStatusIsFinal == [][tx.status \in Final => tx'.status = tx.status]_settleVars

AllQuiet == tx # NoTx /\ events = {} /\ \A w \in Workers : worker[w] = Idle

\* webhook-apply.service.ts: "a correcao ... vem do SELECT ... FOR UPDATE e do
\* guard monotonico". Once nothing is in flight the transaction tells what the
\* ledger already did.
LedgerNotAhead == AllQuiet /\ hold # "PENDING" => tx.status \in Final

\* webhook-apply.service.ts: an event of an outgoing payment with no local row
\* means that "o provedor pagou algo que nao pedimos, ou que perdemos a escrita".
\* So for our own payment, written by us, no event is ever ignored: once all
\* is quiet and no operation is left to the ladder, the outcome has been seen.
OutcomeIsSeen ==
  AllQuiet /\ payment \in Final /\ operation = "none" => hold # "PENDING"

\* mock-bank/src/facets/webhooks.ts (eventTypeFor): pix_out.failed is the event of
\* a payment that FAILED, and what is still in course is pix_out.pending. The
\* client is told of a failure only when there was one.
ToldFailedIsFailed ==
  \A i \in DOMAIN outbox :
    outbox[i].type = "pix_out.failed" => outbox[i].status \in {"FAILED", "CANCELLED"}

\* celcoin/src/mappers/pix.ts: "UNKNOWN leva a escada de reconsulta".
UnknownIsOnTheLadder == tx.status = "UNKNOWN" => operation # "none"

\* ladder.service.ts: exhausting the ladder "conclui que NOS nao conseguimos
\* descobrir"; an operation whose settlement was found stays settled.
SettledOperationIsFinal == [][operation = "SETTLED" => operation' = "SETTLED"]_settleVars
=============================================================================
