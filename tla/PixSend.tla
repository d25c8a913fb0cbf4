------------------------------- MODULE PixSend ------------------------------
(***************************************************************************)
(* One outgoing PIX, asked for by a client that repeats the request with   *)
(* the same Idempotency-Key: IdempotencyInterceptor around                 *)
(* PixTransfersService.send, await by await, with several requests in      *)
(* course on one or more pods.                                             *)
(*                                                                         *)
(* The record of the key mints an operationId; the hold in the ledger, the *)
(* transaction, the operation and the payment at the provider are all      *)
(* keyed by it.  A released record is deleted, and the next claim mints a  *)
(* new operationId.  All requests carry the same body, so the fingerprint  *)
(* never differs.                                                          *)
(*                                                                         *)
(* The provider is external: it executes each operationId at most once,    *)
(* answers, refuses or stays silent, and a request that timed out may      *)
(* still arrive.  Faults names what else may go wrong, and `faulted` keeps *)
(* what did, so that a property can say what it withstands:                *)
(*   "crash"      a pod dies between two awaits;                           *)
(*   "lookup"     the provider cannot be asked for an earlier attempt;     *)
(*   "slow"       a lease (90 s) expires while its owner is still running, *)
(*                e.g. in the Retry-After waits of HttpClient, or while    *)
(*                its request is still on its way;                         *)
(*   "database"   a statement on Postgres fails;                           *)
(*   "5xx"        the provider executes the payment and answers 500, 502   *)
(*                or 504, which HttpClient reports as an ordinary error    *)
(*                (ErrorMeansNotExecuted in HttpCall).                     *)
(*                                                                         *)
(* Settling the hold is PixSettle's: here a hold is PENDING or VOIDED.     *)
(***************************************************************************)
EXTENDS Naturals, FiniteSets

CONSTANTS
    Requests,      \* the client's attempts
    MaxOps,        \* bound: operation ids minted
    Faults

ASSUME PixSendAssumption ==
    /\ MaxOps \in Nat
    /\ Faults \subseteq {"crash", "lookup", "slow", "database", "5xx"}

Ops == 1..MaxOps
NoOp == 0

VARIABLES
    record,      \* the IdempotencyRecord of the key, or NoRecord
    minted,      \* operation ids minted so far
    pc, op, reconcile, error, linked,   \* per request
    answer,      \* answer[r]: what the client of r was told
    hold,        \* hold[o]: the ledger transaction pix-out:o
    tx,          \* tx[o]: the transaction row with idempotencyKey o
    operation,   \* the operations recorded for the reconciler
    wire,        \* requests on their way to the provider
    paid,        \* payments the provider executed
    reply,       \* reply[r]: the provider's answer to r
    faulted      \* the faults that have happened

local == <<pc, op, reconcile, error, linked, answer>>
world == <<wire, paid, reply, faulted>>
vars == <<record, minted, pc, op, reconcile, error, linked, answer, hold, tx,
          operation, wire, paid, reply, faulted>>

NoRecord == [op |-> NoOp, state |-> "none", leased |-> FALSE]
NoTx == [status |-> "none", hold |-> FALSE]

Init ==
    /\ record = NoRecord
    /\ minted = 0
    /\ pc = [r \in Requests |-> "idle"]
    /\ op = [r \in Requests |-> NoOp]
    /\ reconcile = [r \in Requests |-> FALSE]
    /\ error = [r \in Requests |-> "none"]
    /\ linked = [r \in Requests |-> FALSE]
    /\ answer = [r \in Requests |-> "none"]
    /\ hold = [o \in Ops |-> "none"]
    /\ tx = [o \in Ops |-> NoTx]
    /\ operation = {}
    /\ wire = {}
    /\ paid = {}
    /\ reply = [r \in Requests |-> "none"]
    /\ faulted = {}

Happens(fault) ==
    /\ fault \in Faults
    /\ faulted' = faulted \cup {fault}

Goto(r, label) == pc' = [pc EXCEPT ![r] = label]

\* The handler threw: onFailure looks at the class of the error.
Throw(r, class) ==
    /\ error' = [error EXCEPT ![r] = class]
    /\ Goto(r, "failed")

Answered(r, what) ==
    /\ answer' = [answer EXCEPT ![r] = what]
    /\ Goto(r, "done")

-----------------------------------------------------------------------------
(* IdempotencyInterceptor.handle and resolveConflict.                      *)

\* Mutant: the INSERT replaces a record that failed, for the client to try again.
ClaimOverFailure(r) ==
    /\ pc[r] = "idle"
    /\ record = NoRecord \/ record.state = "FAILED"
    /\ minted < MaxOps
    /\ minted' = minted + 1
    /\ record' = [op |-> minted', state |-> "IN_FLIGHT", leased |-> TRUE]
    /\ op' = [op EXCEPT ![r] = minted']
    /\ Goto(r, "authorize")
    /\ UNCHANGED <<reconcile, error, linked, answer, hold, tx, operation, world>>

\* claim: the INSERT wins when there is no record.
Claim(r) ==
    /\ pc[r] = "idle"
    /\ record = NoRecord
    /\ minted < MaxOps
    /\ minted' = minted + 1
    /\ record' = [op |-> minted', state |-> "IN_FLIGHT", leased |-> TRUE]
    /\ op' = [op EXCEPT ![r] = minted']
    /\ Goto(r, "authorize")
    /\ UNCHANGED <<reconcile, error, linked, answer, hold, tx, operation, world>>

\* The INSERT met a record: its outcome is replayed, or the request must wait, or
\* the lease it found expired may be stolen.
Conflict(r) ==
    /\ pc[r] = "idle"
    /\ record # NoRecord
    /\ \/ /\ record.state = "COMPLETED"
          /\ Answered(r, "accepted") /\ UNCHANGED op
       \/ /\ record.state = "FAILED"
          /\ Answered(r, "refused") /\ UNCHANGED op
       \/ /\ record.state = "IN_FLIGHT" /\ record.leased
          /\ Answered(r, "inProgress") /\ UNCHANGED op
       \/ /\ record.state = "IN_FLIGHT" /\ ~record.leased
          /\ op' = [op EXCEPT ![r] = record.op]
          /\ Goto(r, "steal") /\ UNCHANGED answer
    /\ UNCHANGED <<record, minted, reconcile, error, linked, hold, tx, operation, world>>

\* stealLease: a conditional update, so that one of several thieves wins.
StealLease(r) ==
    /\ pc[r] = "steal"
    /\ \/ /\ record = [op |-> op[r], state |-> "IN_FLIGHT", leased |-> FALSE]
          /\ record' = [record EXCEPT !.leased = TRUE]
          /\ reconcile' = [reconcile EXCEPT ![r] = TRUE]
          /\ Goto(r, "findLocal") /\ UNCHANGED answer
       \/ /\ record # [op |-> op[r], state |-> "IN_FLIGHT", leased |-> FALSE]
          /\ Answered(r, "inProgress") /\ UNCHANGED <<record, reconcile>>
    /\ UNCHANGED <<minted, op, error, linked, hold, tx, operation, world>>

Running(r) == pc[r] \notin {"idle", "steal", "done", "crashed"}

\* The lease runs out: its owner is gone or, with the fault "slow", late.
LeaseExpires ==
    /\ record.leased
    /\ IF \E r \in Requests : op[r] = record.op /\ (Running(r) \/ r \in wire)
       THEN Happens("slow")
       ELSE UNCHANGED faulted
    /\ record' = [record EXCEPT !.leased = FALSE]
    /\ UNCHANGED <<minted, local, hold, tx, operation, wire, paid, reply>>

-----------------------------------------------------------------------------
(* PixTransfersService.send.                                               *)

\* reconcileFirst: the previous attempt may already have recorded the payment.
FindLocal(r) ==
    /\ pc[r] = "findLocal"
    /\ Goto(r, IF tx[op[r]] # NoTx THEN "complete" ELSE "findRemote")
    /\ UNCHANGED <<record, minted, op, reconcile, error, linked, answer, hold, tx,
                   operation, world>>

\* The codes of the errors that end a request before anything happens: what
\* requireAccount and requireLedgerAccount find missing, a destination that cannot
\* be read, and a connection that cannot be resolved (providers.require).
requireAccount == {"ACCOUNT_NOT_FOUND", "ACCOUNT_NOT_ACTIVE", "INTERNAL_ERROR"}

resolveDestination == {"INVALID_PIX_KEY", "INVALID_EMV_PAYLOAD"}

requireProvider ==
    {"CONNECTION_NOT_FOUND", "PROVIDER_CREDENTIALS_INVALID", "CAPABILITY_NOT_SUPPORTED"}

\* Of the codes of this path, the ones whose failure the record keeps.
isDeterministic(code) ==
    code \in {"INVALID_PIX_KEY", "INSUFFICIENT_FUNDS", "ACCOUNT_NOT_ACTIVE",
              "CAPABILITY_NOT_SUPPORTED"}

\* A thief runs the same body on the same account, so only the connection may be
\* refused to it and not to the owner.
Reject(r, code) ==
    /\ \/ pc[r] = "authorize" /\ ~reconcile[r] /\ UNCHANGED faulted
       \/ pc[r] = "findRemote" /\ code \in requireProvider /\ Happens("lookup")
    /\ Throw(r, IF isDeterministic(code) THEN "deterministic" ELSE "transient")
    /\ UNCHANGED <<record, minted, op, reconcile, linked, answer, hold, tx, operation,
                   wire, paid, reply>>

\* lookupAtProvider: what it finds is recorded without a hold; an error of the
\* lookup, or a provider without one, counts as not found.
FindRemote(r) ==
    /\ pc[r] = "findRemote"
    /\ \/ op[r] \in paid /\ Goto(r, "record") /\ UNCHANGED faulted
       \/ op[r] \in paid /\ Goto(r, "authorize") /\ Happens("lookup")
       \/ op[r] \notin paid /\ Goto(r, "authorize") /\ UNCHANGED faulted
    /\ UNCHANGED <<record, minted, op, reconcile, error, linked, answer, hold, tx,
                   operation, wire, paid, reply>>

\* authorizeOut under the key pix-out:op.  A key already used replays the first
\* result, whatever became of that hold since.  A new hold is refused when other
\* transfers of the account have taken the balance.
Authorize(r) ==
    /\ pc[r] = "authorize"
    /\ \/ /\ hold' = [hold EXCEPT ![op[r]] = IF @ = "none" THEN "PENDING" ELSE @]
          /\ linked' = [linked EXCEPT ![r] = TRUE]
          /\ Goto(r, "send") /\ UNCHANGED error
       \/ /\ hold[op[r]] = "none"
          /\ Throw(r, "deterministic") /\ UNCHANGED <<hold, linked>>
    /\ UNCHANGED <<record, minted, op, reconcile, answer, tx, operation, world>>

Send(r) ==
    /\ pc[r] = "send"
    /\ wire' = wire \cup {r}
    /\ Goto(r, "await")
    /\ UNCHANGED <<record, minted, op, reconcile, error, linked, answer, hold, tx,
                   operation, paid, reply, faulted>>

\* Mutant: the reserve of what was not sent stays.
NotSentKeepsHold(r) ==
    /\ pc[r] = "send"
    /\ Throw(r, "transient")
    /\ UNCHANGED <<record, minted, op, reconcile, linked, answer, hold, tx, operation, world>>

\* A provably pre-commit failure, or an open circuit: nothing was sent.
NotSent(r) ==
    /\ pc[r] = "send"
    /\ error' = [error EXCEPT ![r] = "transient"]
    /\ Goto(r, "void")
    /\ UNCHANGED <<record, minted, op, reconcile, linked, answer, hold, tx, operation, world>>

\* The provider gets the request, possibly after the caller gave up on it.
ProviderExecutes(r) ==
    /\ r \in wire
    /\ wire' = wire \ {r}
    /\ paid' = paid \cup {op[r]}
    /\ \/ reply' = [reply EXCEPT ![r] = "ok"] /\ UNCHANGED faulted
       \/ reply' = [reply EXCEPT ![r] = "transient"] /\ Happens("5xx")
    /\ UNCHANGED <<record, minted, local, hold, tx, operation>>

\* A refusal is deterministic (INSUFFICIENT_FUNDS, INVALID_PIX_KEY, ...) or not.
ProviderRefuses(r, class) ==
    /\ r \in wire
    /\ op[r] \notin paid
    /\ wire' = wire \ {r}
    /\ reply' = [reply EXCEPT ![r] = class]
    /\ UNCHANGED <<record, minted, local, hold, tx, operation, paid, faulted>>

Lost(r) ==
    /\ r \in wire
    /\ wire' = wire \ {r}
    /\ UNCHANGED <<record, minted, local, hold, tx, operation, paid, reply, faulted>>

Receive(r) ==
    /\ pc[r] = "await"
    /\ reply[r] # "none"
    /\ IF reply[r] = "ok"
       THEN Goto(r, "record") /\ UNCHANGED error
       ELSE Goto(r, "void") /\ error' = [error EXCEPT ![r] = reply[r]]
    /\ UNCHANGED <<record, minted, op, reconcile, linked, answer, hold, tx, operation, world>>

\* Mutant: no answer is taken for a failure.
GiveUpAsError(r) ==
    /\ pc[r] = "await"
    /\ error' = [error EXCEPT ![r] = "transient"]
    /\ Goto(r, "void")
    /\ UNCHANGED <<record, minted, op, reconcile, linked, answer, hold, tx, operation, world>>

\* ProviderOutcomeUnknownError: no answer, whether or not one is on its way.
GiveUp(r) ==
    /\ pc[r] = "await"
    /\ Goto(r, "recordUnknown")
    /\ UNCHANGED <<record, minted, op, reconcile, error, linked, answer, hold, tx,
                   operation, world>>

\* transactions.create: idempotencyKey is unique, and a second row is an error
\* that no one expects.
CreateTx(r, from, status, next) ==
    /\ pc[r] = from
    /\ \/ /\ tx[op[r]] = NoTx
          /\ tx' = [tx EXCEPT ![op[r]] = [status |-> status, hold |-> linked[r]]]
          /\ Goto(r, next) /\ UNCHANGED error
       \/ /\ tx[op[r]] # NoTx
          /\ Throw(r, "transient") /\ UNCHANGED tx
    /\ UNCHANGED <<record, minted, op, reconcile, linked, answer, hold, operation, world>>

\* Mutant: the client is answered before the transaction is written.
RecordSentLater(r) ==
    /\ pc[r] = "record"
    /\ Goto(r, "complete")
    /\ UNCHANGED <<record, minted, op, reconcile, error, linked, answer, hold, tx,
                   operation, world>>

RecordSent(r) == CreateTx(r, "record", "PROCESSING", "complete")

RecordUnknown(r) == CreateTx(r, "recordUnknown", "UNKNOWN", "createOperation")

\* The rest of onUnknownOutcome: the operation, its event and step 0 of the ladder.
CreateOperation(r) ==
    /\ pc[r] = "createOperation"
    /\ operation' = operation \cup {op[r]}
    /\ Goto(r, "complete")
    /\ UNCHANGED <<record, minted, op, reconcile, error, linked, answer, hold, tx, world>>

\* voidOut under pix-out-void:op, then the error is thrown again.
Void(r) ==
    /\ pc[r] = "void"
    /\ hold' = [hold EXCEPT ![op[r]] = "VOIDED"]
    /\ Goto(r, "failed")
    /\ UNCHANGED <<record, minted, op, reconcile, error, linked, answer, tx, operation, world>>

-----------------------------------------------------------------------------
(* IdempotencyInterceptor.execute and onFailure.                           *)

\* complete updates by id, whoever holds the lease; a record that is gone is an
\* error, and then release finds nothing to delete.
Complete(r) ==
    /\ pc[r] = "complete"
    /\ IF record.op = op[r]
       THEN /\ record' = [op |-> op[r], state |-> "COMPLETED", leased |-> FALSE]
            /\ Answered(r, "accepted")
       ELSE /\ Answered(r, "error")
            /\ UNCHANGED record
    /\ UNCHANGED <<minted, op, reconcile, error, linked, hold, tx, operation, world>>

\* A deterministic failure is kept for the replay.
KeepFailure(r) ==
    /\ pc[r] = "failed"
    /\ error[r] = "deterministic"
    /\ IF record.op = op[r]
       THEN /\ record' = [op |-> op[r], state |-> "FAILED", leased |-> FALSE]
            /\ Answered(r, "refused")
       ELSE /\ Answered(r, "error")
            /\ UNCHANGED record
    /\ UNCHANGED <<minted, op, reconcile, error, linked, hold, tx, operation, world>>

\* Any other failure deletes the record, again by id.
Release(r) ==
    /\ pc[r] = "failed"
    /\ error[r] = "transient"
    /\ record' = IF record.op = op[r] THEN NoRecord ELSE record
    /\ Answered(r, "error")
    /\ UNCHANGED <<minted, op, reconcile, error, linked, hold, tx, operation, world>>

-----------------------------------------------------------------------------
Crash(r) ==
    /\ Happens("crash")
    /\ Running(r)
    /\ Goto(r, "crashed")
    /\ UNCHANGED <<record, minted, op, reconcile, error, linked, answer, hold, tx,
                   operation, wire, paid, reply>>

\* A statement of the handler, or complete itself, fails: neither an unknown
\* outcome nor a deterministic error.
DatabaseFails(r) ==
    /\ Happens("database")
    /\ pc[r] \in {"findLocal", "authorize", "record", "recordUnknown", "createOperation",
                   "void", "complete"}
    /\ Throw(r, "transient")
    /\ UNCHANGED <<record, minted, op, reconcile, linked, answer, hold, tx, operation,
                   wire, paid, reply>>

\* onFailure itself fails: the record stays as it is (release swallows the error).
RecordNotUpdated(r) ==
    /\ Happens("database")
    /\ pc[r] = "failed"
    /\ Answered(r, "error")
    /\ UNCHANGED <<record, minted, op, reconcile, error, linked, hold, tx, operation,
                   wire, paid, reply>>

Provider ==
    \E r \in Requests :
        \/ ProviderExecutes(r)
        \/ \E class \in {"deterministic", "transient"} : ProviderRefuses(r, class)
        \/ Lost(r)

Handler(r) ==
    \/ Claim(r) \/ Conflict(r) \/ StealLease(r)
    \/ \E code \in requireAccount \cup resolveDestination \cup requireProvider : Reject(r, code)
    \/ FindLocal(r) \/ FindRemote(r) \/ Authorize(r) \/ Send(r) \/ NotSent(r)
    \/ Receive(r) \/ GiveUp(r) \/ RecordSent(r) \/ RecordUnknown(r)
    \/ CreateOperation(r) \/ Void(r) \/ Complete(r) \/ KeepFailure(r) \/ Release(r)

Next ==
    \/ \E r \in Requests : 
           Handler(r) \/ Crash(r) \/ DatabaseFails(r) \/ RecordNotUpdated(r)
    \/ LeaseExpires
    \/ Provider

\* A request that runs goes on; whether the client repeats it is up to the client.
Fairness == \A r \in Requests : WF_vars(pc[r] # "idle" /\ Handler(r))

Spec == Init /\ [][Next]_vars /\ Fairness

-----------------------------------------------------------------------------
(* What the two layers of idempotency promise.                             *)

TypeOK ==
    /\ record \in [op : Ops \cup {NoOp}, leased : BOOLEAN,
                   state : {"none", "IN_FLIGHT", "COMPLETED", "FAILED"}]
    /\ minted \in 0..MaxOps
    /\ \A r \in Requests :
           /\ pc[r] \in {"idle", "steal", "findLocal", "findRemote", "authorize", "send",
                         "await", "record", "recordUnknown", "createOperation", "void",
                         "complete", "failed", "done", "crashed"}
           /\ op[r] \in 0..minted
           /\ error[r] \in {"none", "deterministic", "transient"}
           /\ answer[r] \in {"none", "accepted", "refused", "inProgress", "error"}
           /\ reply[r] \in {"none", "ok", "deterministic", "transient"}
    /\ hold \in [Ops -> {"none", "PENDING", "VOIDED"}]
    /\ tx \in [Ops -> [status : {"none", "PROCESSING", "UNKNOWN"}, hold : BOOLEAN]]
    /\ paid \subseteq Ops /\ operation \subseteq Ops
    /\ faulted \subseteq Faults

\* ADR 0010: the client repeating the request cannot duplicate its effect.
OneEffectPerKey == Cardinality(paid) <= 1

\* However often the client repeats the request, whatever the provider refused or
\* left unanswered, and wherever a pod died, the provider executes one payment for
\* the key: the record keeps the operationId, the thief of a lease looks for the
\* earlier payment first, and the record goes only when nothing was executed.
AtMostOnePayment == faulted \subseteq {"crash"} => OneEffectPerKey

\* Money that left is money that is reserved: the hold comes before the call, and
\* it is not released while the payment it covers was executed.
PaidIsReserved == faulted = {} => \A o \in paid : hold[o] = "PENDING"

\* A client told that the payment failed has nothing paid and nothing held.
RefusedIsFinal ==
    /\ faulted \subseteq {"crash"}
    /\ record.state = "FAILED"
    => record.op \notin paid /\ hold[record.op] # "PENDING"

\* A payment the client was told is accepted has a transaction, and the transaction
\* names its hold: settling or voiding it later goes through that link.
AcceptedIsLinked ==
    /\ faulted = {}
    /\ record.state = "COMPLETED"
    => tx[record.op] # NoTx /\ tx[record.op].hold

\* Whatever fails, the ledger knows of every payment that was executed, and a
\* transaction of unknown outcome names the hold that covers it: authorizeOut
\* always ran first, also for the thief of a lease.
LedgerKnowsEveryPayment ==
    \A o \in Ops : /\ o \in paid => hold[o] # "none"
                   /\ tx[o].status = "UNKNOWN" => tx[o].hold /\ hold[o] # "none"

\* What the client was told and what the provider did stand on the ledger: a
\* payment has its hold, an acceptance its linked transaction, a refusal neither.
PaymentsAreBacked ==
    LedgerKnowsEveryPayment /\ PaidIsReserved /\ AcceptedIsLinked /\ RefusedIsFinal

\* What the key answered once, it answers for ever, also when requests die and their
\* leases are taken: none overwrites or deletes the record another one concluded.
\* Stated for deaths only: a request that outlives its own lease (fault "slow") and
\* the other faults are not covered, because complete, fail and release find the
\* record by its id and not by its lease.
AnswerIsFinal ==
    [][/\ faulted \subseteq {"crash"}
       /\ record.state \in {"COMPLETED", "FAILED"}
       => record' = record]_vars

\* No reserve is forgotten: it ends in a transaction that names it, or is voided.
EveryHoldExplained ==
    \A o \in Ops : hold[o] = "PENDING" ~> tx[o].hold \/ hold[o] = "VOIDED" \/ faulted # {}

\* No request waits for ever, on another request, on a lease or on the provider.
EveryRequestEnds ==
    \A r \in Requests : pc[r] # "idle" ~> pc[r] \in {"done", "crashed"}

\* An unknown outcome always reaches the reconciler.
UnknownIsTracked ==
    \A o \in Ops : tx[o].status = "UNKNOWN" ~> o \in operation \/ faulted # {}

\* Nothing is forgotten on the way: neither a request, nor the reserve it made,
\* nor an outcome it could not learn.
NothingIsForgotten == EveryRequestEnds /\ EveryHoldExplained /\ UnknownIsTracked
=============================================================================
