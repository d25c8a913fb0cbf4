---------------------------- MODULE PixSendProofs ----------------------------
(***************************************************************************)
(* Proofs about one outgoing PIX under its Idempotency-Key, for any number *)
(* of repeats and of operation ids, and whatever goes wrong.  The          *)
(* inductive invariant has three layers: what holds whatever fails         *)
(* (Always), what holds while nothing worse than a dead pod has happened   *)
(* (Exclusive: the record's operation has one runner at a time, and the    *)
(* payment belongs to it), and what holds while nothing failed (Clean).    *)
(*                                                                         *)
(* The last part is about the HTTP client the payment is sent through.     *)
(***************************************************************************)
EXTENDS PixSend, ProviderCall, FiniteSetTheorems, TLAPS

Labels == {"idle", "steal", "findLocal", "findRemote", "authorize", "send", "await",
           "record", "recordUnknown", "createOperation", "void", "complete", "failed",
           "done", "crashed"}

\* Where a request is that has not sent yet.
BeforeSend == {"idle", "steal", "findLocal", "findRemote", "authorize", "send"}

\* Where a request is whose operation has no row yet, and where it has made its reserve.
BeforeRow == {"findRemote", "authorize", "send", "await", "record", "recordUnknown", "void"}
AfterHold == {"send", "await", "recordUnknown", "createOperation", "void"}

Types ==
    /\ record \in [op : Ops \cup {NoOp}, leased : BOOLEAN,
                   state : {"none", "IN_FLIGHT", "COMPLETED", "FAILED"}]
    /\ minted \in 0..MaxOps
    /\ pc \in [Requests -> Labels]
    /\ op \in [Requests -> 0..MaxOps]
    /\ reconcile \in [Requests -> BOOLEAN]
    /\ error \in [Requests -> {"none", "deterministic", "transient"}]
    /\ linked \in [Requests -> BOOLEAN]
    /\ answer \in [Requests -> {"none", "accepted", "refused", "inProgress", "error"}]
    /\ reply \in [Requests -> {"none", "ok", "deterministic", "transient"}]
    /\ hold \in [Ops -> {"none", "PENDING", "VOIDED"}]
    /\ tx \in [Ops -> [status : {"none", "PROCESSING", "UNKNOWN"}, hold : BOOLEAN]]
    /\ wire \subseteq Requests
    /\ paid \subseteq Ops /\ operation \subseteq Ops
    /\ faulted \subseteq Faults

-----------------------------------------------------------------------------
(* The invariant. *)

\* The record is there whole or not at all, under an id that was minted.
RecordShape ==
    /\ record.state = "none" => record = NoRecord
    /\ record.state # "none" => record.op \in 1..minted
    /\ record.leased => record.state = "IN_FLIGHT"

\* A request works under a minted id, sends once, and only after its reserve.
RequestShape ==
    \A r \in Requests :
        /\ Running(r) \/ pc[r] = "steal" \/ r \in wire => op[r] \in 1..minted
        /\ r \in wire \/ reply[r] # "none" => pc[r] \notin BeforeSend
        /\ r \in wire => hold[op[r]] # "none"
        /\ pc[r] \in AfterHold => linked[r] /\ hold[op[r]] # "none"
        /\ op[r] \in 0..minted

\* What is not minted yet has left no trace.
Untouched == \A o \in Ops : o > minted => hold[o] = "none" /\ tx[o] = NoTx /\ o \notin paid

Always == Types /\ RecordShape /\ RequestShape /\ Untouched /\ LedgerKnowsEveryPayment

\* Nothing worse than dead pods.
Quiet == faulted \subseteq {"crash"}

\* Who runs has the lease, runs alone, and nothing of another is on its way.
Alone ==
    /\ \A r \in Requests :
           Running(r) => record.op = op[r] /\ record.state = "IN_FLIGHT" /\ record.leased
    /\ \A r, s \in Requests : Running(r) /\ (Running(s) \/ s \in wire) => r = s

\* A request on its way is of the record's operation, whose lease cannot expire.
OnTheWay ==
    \A r \in wire :
        /\ record.op = op[r]
        /\ record.leased \/ record.state = "COMPLETED"
        /\ reply[r] = "none"
        /\ pc[r] \in {"await", "recordUnknown", "createOperation", "complete", "done", "crashed"}

\* What was paid is the record's operation, and the record is neither failed nor gone.
PaidIsRecorded ==
    \A o \in paid : record.op = o /\ record.state \in {"IN_FLIGHT", "COMPLETED"}

\* Who may still send, and who is about to report a failure, has nothing paid.
Unpaid(r) ==
    /\ pc[r] \in {"authorize", "send", "void", "failed"} => op[r] \notin paid
    /\ pc[r] = "await" /\ reply[r] \in {"deterministic", "transient"} => op[r] \notin paid
    /\ pc[r] = "failed" => hold[op[r]] # "PENDING"
    /\ pc[r] = "authorize" /\ ~reconcile[r] => hold[op[r]] = "none"
    /\ pc[r] \in {"findLocal", "findRemote"} => reconcile[r]
    /\ pc[r] \in BeforeRow => tx[op[r]] = NoTx

FailureUnpaid == \A r \in Requests : Unpaid(r)

FailedReleased == record.state = "FAILED" => hold[record.op] # "PENDING"

Exclusive ==
    Quiet => Alone /\ OnTheWay /\ PaidIsRecorded /\ FailureUnpaid /\ FailedReleased

\* While nothing fails no lease expires, so that every reserve is its owner's first.
NoThief ==
    /\ record.state = "IN_FLIGHT" => \E r \in Requests : Running(r)
    /\ \A r \in Requests : ~reconcile[r] /\ pc[r] \notin {"findLocal", "findRemote", "crashed"}

Reserved ==
    /\ \A r \in Requests :
           /\ pc[r] \in AfterHold \cup {"record", "complete"} =>
                  linked[r] /\ hold[op[r]] = "PENDING"
           /\ r \in wire => hold[op[r]] = "PENDING"
           /\ pc[r] \in {"createOperation", "complete"} => tx[op[r]] # NoTx /\ tx[op[r]].hold
    /\ PaidIsReserved
    /\ AcceptedIsLinked

Clean == faulted = {} => NoThief /\ Reserved

SendInv == Always /\ Exclusive /\ Clean

-----------------------------------------------------------------------------
(* One lemma per action: the ways it can go, and the three layers in each. *)


\* Whoever works on the payment does so under an id that was minted.
LEMMA WorksUnderMinted ==
    ASSUME SendInv, NEW r \in Requests, Running(r) \/ pc[r] = "steal" \/ r \in wire
    PROVE  op[r] \in Ops /\ op[r] \in 1..minted
<1>1. minted \in 0..MaxOps /\ op[r] \in 1..minted
  BY DEF SendInv, Always, Types, RequestShape
<1>2. QED
  BY <1>1, PixSendAssumption DEF Ops

LEMMA ClaimStep ==
    ASSUME SendInv, NEW r \in Requests, Claim(r)
    PROVE  SendInv'
<1>1. ASSUME pc[r] = "idle",
           record = NoRecord,
           minted < MaxOps,
           minted' = minted + 1,
           record' = [op |-> minted + 1, state |-> "IN_FLIGHT", leased |-> TRUE],
           op' = [op EXCEPT ![r] = minted + 1],
           pc' = [pc EXCEPT ![r] = "authorize"],
           UNCHANGED <<reconcile, error, linked, answer, hold, tx, operation, wire, 
                        paid, reply, faulted>>
      PROVE  SendInv'
  <2>0. minted + 1 \in Ops /\ hold[minted + 1] = "none" /\ tx[minted + 1] = NoTx
        /\ minted + 1 \notin paid
    BY <1>1, PixSendAssumption DEF SendInv, Always, Types, Untouched, Ops
  <2>1. Always'
    BY <1>1, PixSendAssumption DEF SendInv, Always, Types, RecordShape, RequestShape,
       Untouched, LedgerKnowsEveryPayment, BeforeSend, BeforeRow, AfterHold, Labels,
       Running, NoRecord, NoTx, NoOp, Ops
  <2>2. Exclusive'
    <3> SUFFICES ASSUME Quiet'
        PROVE  (Alone /\ OnTheWay /\ PaidIsRecorded /\ FailureUnpaid /\ FailedReleased)'
      BY DEF Exclusive
    <3>0. Alone /\ OnTheWay /\ PaidIsRecorded /\ FailureUnpaid /\ FailedReleased
      BY <1>1 DEF SendInv, Exclusive, Quiet
    <3>r. \A s \in Requests : s \notin wire /\ ~Running(s)
      BY <1>1, <3>0, PixSendAssumption DEF SendInv, Always, Types, RecordShape,
         RequestShape, Alone, OnTheWay, NoRecord, NoOp, Ops
    <3>1. Alone'
      BY <1>1, <2>0, <3>0, <3>r DEF SendInv, Always, Types, RecordShape, RequestShape,
         Alone, OnTheWay, PaidIsRecorded, FailureUnpaid, Unpaid, FailedReleased,
         BeforeSend, BeforeRow, AfterHold, Labels, Running, NoRecord, NoTx, NoOp, Ops
    <3>2. OnTheWay'
      BY <1>1, <2>0, <3>0, <3>r DEF SendInv, Always, Types, RecordShape, RequestShape,
         Alone, OnTheWay, PaidIsRecorded, FailureUnpaid, Unpaid, FailedReleased,
         BeforeSend, BeforeRow, AfterHold, Labels, Running, NoRecord, NoTx, NoOp, Ops
    <3>3. PaidIsRecorded'
      BY <1>1, <2>0, <3>0, <3>r DEF SendInv, Always, Types, RecordShape, RequestShape,
         Alone, OnTheWay, PaidIsRecorded, FailureUnpaid, Unpaid, FailedReleased,
         BeforeSend, BeforeRow, AfterHold, Labels, Running, NoRecord, NoTx, NoOp, Ops
    <3>4. FailureUnpaid'
      <4> SUFFICES ASSUME NEW s \in Requests PROVE Unpaid(s)'
        BY DEF FailureUnpaid
      <4>1. CASE s = r
        BY <1>1, <2>0, <3>0, <3>r, <4>1 DEF SendInv, Always, Types, RequestShape, OnTheWay,
           PaidIsRecorded, FailureUnpaid, Unpaid, BeforeSend, BeforeRow, AfterHold, Labels,
           Running, NoRecord, NoTx, NoOp, Ops
      <4>2. CASE s # r
        BY <1>1, <3>r, <4>2 DEF SendInv, Always, Types, Unpaid, Running, BeforeRow
      <4>3. QED
        BY <4>1, <4>2
    <3>5. FailedReleased'
      BY <1>1, <2>0, <3>0, <3>r DEF SendInv, Always, Types, RecordShape, RequestShape,
         Alone, OnTheWay, PaidIsRecorded, FailureUnpaid, Unpaid, FailedReleased,
         BeforeSend, BeforeRow, AfterHold, Labels, Running, NoRecord, NoTx, NoOp, Ops
    <3>6. QED
      BY <3>1, <3>2, <3>3, <3>4, <3>5
  <2>3. Clean'
    BY <1>1, PixSendAssumption DEF SendInv, Always, Types, RecordShape, RequestShape,
       Untouched, LedgerKnowsEveryPayment, Exclusive, Quiet, Alone, OnTheWay,
       PaidIsRecorded, FailureUnpaid, Unpaid, FailedReleased, Clean, NoThief, Reserved,
       PaidIsReserved, AcceptedIsLinked, BeforeSend, BeforeRow, AfterHold, Labels, Running,
       NoRecord, NoTx, NoOp, Ops
  <2>4. QED
    BY <2>1, <2>2, <2>3 DEF SendInv
<1>2. QED
  BY <1>1 DEF Claim, Goto, world, SendInv, Always, Types, RecordShape, NoOp

LEMMA ConflictStep ==
    ASSUME SendInv, NEW r \in Requests, Conflict(r)
    PROVE  SendInv'
<1>1. ASSUME pc[r] = "idle",
           record.state = "COMPLETED",
           answer' = [answer EXCEPT ![r] = "accepted"],
           pc' = [pc EXCEPT ![r] = "done"],
           UNCHANGED <<record, minted, op, reconcile, error, linked, hold, tx, 
                        operation, wire, paid, reply, faulted>>
      PROVE  SendInv'
  <2>1. Always'
    BY <1>1, PixSendAssumption DEF SendInv, Always, Types, RecordShape, RequestShape,
       Untouched, LedgerKnowsEveryPayment, BeforeSend, BeforeRow, AfterHold, Labels,
       Running, NoRecord, NoTx, NoOp, Ops
  <2>2. Exclusive'
    BY <1>1, PixSendAssumption DEF SendInv, Always, Types, RecordShape, RequestShape,
       Untouched, LedgerKnowsEveryPayment, Exclusive, Quiet, Alone, OnTheWay,
       PaidIsRecorded, FailureUnpaid, Unpaid, FailedReleased, BeforeSend, BeforeRow,
       AfterHold, Labels, Running, NoRecord, NoTx, NoOp, Ops
  <2>3. Clean'
    BY <1>1, PixSendAssumption DEF SendInv, Always, Types, RecordShape, RequestShape,
       Untouched, LedgerKnowsEveryPayment, Exclusive, Quiet, Alone, OnTheWay,
       PaidIsRecorded, FailureUnpaid, Unpaid, FailedReleased, Clean, NoThief, Reserved,
       PaidIsReserved, AcceptedIsLinked, BeforeSend, BeforeRow, AfterHold, Labels, Running,
       NoRecord, NoTx, NoOp, Ops
  <2>4. QED
    BY <2>1, <2>2, <2>3 DEF SendInv
<1>2. ASSUME pc[r] = "idle",
           record.state = "FAILED",
           answer' = [answer EXCEPT ![r] = "refused"],
           pc' = [pc EXCEPT ![r] = "done"],
           UNCHANGED <<record, minted, op, reconcile, error, linked, hold, tx, 
                        operation, wire, paid, reply, faulted>>
      PROVE  SendInv'
  <2>1. Always'
    BY <1>2, PixSendAssumption DEF SendInv, Always, Types, RecordShape, RequestShape,
       Untouched, LedgerKnowsEveryPayment, BeforeSend, BeforeRow, AfterHold, Labels,
       Running, NoRecord, NoTx, NoOp, Ops
  <2>2. Exclusive'
    BY <1>2, PixSendAssumption DEF SendInv, Always, Types, RecordShape, RequestShape,
       Untouched, LedgerKnowsEveryPayment, Exclusive, Quiet, Alone, OnTheWay,
       PaidIsRecorded, FailureUnpaid, Unpaid, FailedReleased, BeforeSend, BeforeRow,
       AfterHold, Labels, Running, NoRecord, NoTx, NoOp, Ops
  <2>3. Clean'
    BY <1>2, PixSendAssumption DEF SendInv, Always, Types, RecordShape, RequestShape,
       Untouched, LedgerKnowsEveryPayment, Exclusive, Quiet, Alone, OnTheWay,
       PaidIsRecorded, FailureUnpaid, Unpaid, FailedReleased, Clean, NoThief, Reserved,
       PaidIsReserved, AcceptedIsLinked, BeforeSend, BeforeRow, AfterHold, Labels, Running,
       NoRecord, NoTx, NoOp, Ops
  <2>4. QED
    BY <2>1, <2>2, <2>3 DEF SendInv
<1>3. ASSUME pc[r] = "idle",
           record.leased,
           answer' = [answer EXCEPT ![r] = "inProgress"],
           pc' = [pc EXCEPT ![r] = "done"],
           UNCHANGED <<record, minted, op, reconcile, error, linked, hold, tx, 
                        operation, wire, paid, reply, faulted>>
      PROVE  SendInv'
  <2>1. Always'
    BY <1>3, PixSendAssumption DEF SendInv, Always, Types, RecordShape, RequestShape,
       Untouched, LedgerKnowsEveryPayment, BeforeSend, BeforeRow, AfterHold, Labels,
       Running, NoRecord, NoTx, NoOp, Ops
  <2>2. Exclusive'
    BY <1>3, PixSendAssumption DEF SendInv, Always, Types, RecordShape, RequestShape,
       Untouched, LedgerKnowsEveryPayment, Exclusive, Quiet, Alone, OnTheWay,
       PaidIsRecorded, FailureUnpaid, Unpaid, FailedReleased, BeforeSend, BeforeRow,
       AfterHold, Labels, Running, NoRecord, NoTx, NoOp, Ops
  <2>3. Clean'
    BY <1>3, PixSendAssumption DEF SendInv, Always, Types, RecordShape, RequestShape,
       Untouched, LedgerKnowsEveryPayment, Exclusive, Quiet, Alone, OnTheWay,
       PaidIsRecorded, FailureUnpaid, Unpaid, FailedReleased, Clean, NoThief, Reserved,
       PaidIsReserved, AcceptedIsLinked, BeforeSend, BeforeRow, AfterHold, Labels, Running,
       NoRecord, NoTx, NoOp, Ops
  <2>4. QED
    BY <2>1, <2>2, <2>3 DEF SendInv
<1>4. ASSUME pc[r] = "idle",
           record.state = "IN_FLIGHT" /\ ~record.leased,
           op' = [op EXCEPT ![r] = record.op],
           pc' = [pc EXCEPT ![r] = "steal"],
           UNCHANGED <<record, minted, reconcile, error, linked, answer, hold, tx, 
                        operation, wire, paid, reply, faulted>>
      PROVE  SendInv'
  <2>1. Always'
    BY <1>4, PixSendAssumption DEF SendInv, Always, Types, RecordShape, RequestShape,
       Untouched, LedgerKnowsEveryPayment, BeforeSend, BeforeRow, AfterHold, Labels,
       Running, NoRecord, NoTx, NoOp, Ops
  <2>2. Exclusive'
    BY <1>4, PixSendAssumption DEF SendInv, Always, Types, RecordShape, RequestShape,
       Untouched, LedgerKnowsEveryPayment, Exclusive, Quiet, Alone, OnTheWay,
       PaidIsRecorded, FailureUnpaid, Unpaid, FailedReleased, BeforeSend, BeforeRow,
       AfterHold, Labels, Running, NoRecord, NoTx, NoOp, Ops
  <2>3. Clean'
    BY <1>4, PixSendAssumption DEF SendInv, Always, Types, RecordShape, RequestShape,
       Untouched, LedgerKnowsEveryPayment, Exclusive, Quiet, Alone, OnTheWay,
       PaidIsRecorded, FailureUnpaid, Unpaid, FailedReleased, Clean, NoThief, Reserved,
       PaidIsReserved, AcceptedIsLinked, BeforeSend, BeforeRow, AfterHold, Labels, Running,
       NoRecord, NoTx, NoOp, Ops
  <2>4. QED
    BY <2>1, <2>2, <2>3 DEF SendInv
<1>5. QED
  BY <1>1, <1>2, <1>3, <1>4 DEF Conflict, Answered, Goto, NoRecord, world, SendInv, Always,
     Types, RecordShape, NoOp

LEMMA StealLeaseStep ==
    ASSUME SendInv, NEW r \in Requests, StealLease(r)
    PROVE  SendInv'
<1>1. ASSUME pc[r] = "steal",
           record = [op |-> op[r], state |-> "IN_FLIGHT", leased |-> FALSE],
           record' = [op |-> op[r], state |-> "IN_FLIGHT", leased |-> TRUE],
           reconcile' = [reconcile EXCEPT ![r] = TRUE],
           pc' = [pc EXCEPT ![r] = "findLocal"],
           UNCHANGED <<minted, op, error, linked, answer, hold, tx, operation, wire, 
                        paid, reply, faulted>>
      PROVE  SendInv'
  <2>1. Always'
    BY <1>1, PixSendAssumption DEF SendInv, Always, Types, RecordShape, RequestShape,
       Untouched, LedgerKnowsEveryPayment, BeforeSend, BeforeRow, AfterHold, Labels,
       Running, NoRecord, NoTx, NoOp, Ops
  <2>2. Exclusive'
    BY <1>1, PixSendAssumption DEF SendInv, Always, Types, RecordShape, RequestShape,
       Untouched, LedgerKnowsEveryPayment, Exclusive, Quiet, Alone, OnTheWay,
       PaidIsRecorded, FailureUnpaid, Unpaid, FailedReleased, BeforeSend, BeforeRow,
       AfterHold, Labels, Running, NoRecord, NoTx, NoOp, Ops
  <2>3. Clean'
    BY <1>1, PixSendAssumption DEF SendInv, Always, Types, RecordShape, RequestShape,
       Untouched, LedgerKnowsEveryPayment, Exclusive, Quiet, Alone, OnTheWay,
       PaidIsRecorded, FailureUnpaid, Unpaid, FailedReleased, Clean, NoThief, Reserved,
       PaidIsReserved, AcceptedIsLinked, BeforeSend, BeforeRow, AfterHold, Labels, Running,
       NoRecord, NoTx, NoOp, Ops
  <2>4. QED
    BY <2>1, <2>2, <2>3 DEF SendInv
<1>2. ASSUME pc[r] = "steal",
           answer' = [answer EXCEPT ![r] = "inProgress"],
           pc' = [pc EXCEPT ![r] = "done"],
           UNCHANGED <<record, minted, op, reconcile, error, linked, hold, tx, 
                        operation, wire, paid, reply, faulted>>
      PROVE  SendInv'
  <2>1. Always'
    BY <1>2, PixSendAssumption DEF SendInv, Always, Types, RecordShape, RequestShape,
       Untouched, LedgerKnowsEveryPayment, BeforeSend, BeforeRow, AfterHold, Labels,
       Running, NoRecord, NoTx, NoOp, Ops
  <2>2. Exclusive'
    BY <1>2, PixSendAssumption DEF SendInv, Always, Types, RecordShape, RequestShape,
       Untouched, LedgerKnowsEveryPayment, Exclusive, Quiet, Alone, OnTheWay,
       PaidIsRecorded, FailureUnpaid, Unpaid, FailedReleased, BeforeSend, BeforeRow,
       AfterHold, Labels, Running, NoRecord, NoTx, NoOp, Ops
  <2>3. Clean'
    BY <1>2, PixSendAssumption DEF SendInv, Always, Types, RecordShape, RequestShape,
       Untouched, LedgerKnowsEveryPayment, Exclusive, Quiet, Alone, OnTheWay,
       PaidIsRecorded, FailureUnpaid, Unpaid, FailedReleased, Clean, NoThief, Reserved,
       PaidIsReserved, AcceptedIsLinked, BeforeSend, BeforeRow, AfterHold, Labels, Running,
       NoRecord, NoTx, NoOp, Ops
  <2>4. QED
    BY <2>1, <2>2, <2>3 DEF SendInv
<1>3. QED
  BY <1>1, <1>2 DEF StealLease, Answered, Goto, world, SendInv, Always, Types, RecordShape,
     NoOp

LEMMA RejectStep ==
    ASSUME SendInv, NEW r \in Requests, NEW code, Reject(r, code)
    PROVE  SendInv'
<1>1. ASSUME pc[r] = "authorize",
           ~reconcile[r],
           NEW class \in {"deterministic", "transient"},
           error' = [error EXCEPT ![r] = class],
           pc' = [pc EXCEPT ![r] = "failed"],
           UNCHANGED <<record, minted, op, reconcile, linked, answer, hold, tx, 
                        operation, wire, paid, reply, faulted>>
      PROVE  SendInv'
  <2>1. Always'
    BY <1>1, PixSendAssumption DEF SendInv, Always, Types, RecordShape, RequestShape,
       Untouched, LedgerKnowsEveryPayment, BeforeSend, BeforeRow, AfterHold, Labels,
       Running, NoRecord, NoTx, NoOp, Ops
  <2>2. Exclusive'
    BY <1>1, PixSendAssumption DEF SendInv, Always, Types, RecordShape, RequestShape,
       Untouched, LedgerKnowsEveryPayment, Exclusive, Quiet, Alone, OnTheWay,
       PaidIsRecorded, FailureUnpaid, Unpaid, FailedReleased, BeforeSend, BeforeRow,
       AfterHold, Labels, Running, NoRecord, NoTx, NoOp, Ops
  <2>3. Clean'
    BY <1>1, PixSendAssumption DEF SendInv, Always, Types, RecordShape, RequestShape,
       Untouched, LedgerKnowsEveryPayment, Exclusive, Quiet, Alone, OnTheWay,
       PaidIsRecorded, FailureUnpaid, Unpaid, FailedReleased, Clean, NoThief, Reserved,
       PaidIsReserved, AcceptedIsLinked, BeforeSend, BeforeRow, AfterHold, Labels, Running,
       NoRecord, NoTx, NoOp, Ops
  <2>4. QED
    BY <2>1, <2>2, <2>3 DEF SendInv
<1>2. ASSUME pc[r] = "findRemote",
           "lookup" \in Faults,
           NEW class \in {"deterministic", "transient"},
           error' = [error EXCEPT ![r] = class],
           pc' = [pc EXCEPT ![r] = "failed"],
           faulted' = faulted \cup {"lookup"},
           UNCHANGED <<record, minted, op, reconcile, linked, answer, hold, tx, 
                        operation, wire, paid, reply>>
      PROVE  SendInv'
  <2>1. Always'
    BY <1>2, PixSendAssumption DEF SendInv, Always, Types, RecordShape, RequestShape,
       Untouched, LedgerKnowsEveryPayment, BeforeSend, BeforeRow, AfterHold, Labels,
       Running, NoRecord, NoTx, NoOp, Ops
  <2>2. Exclusive'
    BY <1>2, PixSendAssumption DEF SendInv, Always, Types, RecordShape, RequestShape,
       Untouched, LedgerKnowsEveryPayment, Exclusive, Quiet, Alone, OnTheWay,
       PaidIsRecorded, FailureUnpaid, Unpaid, FailedReleased, BeforeSend, BeforeRow,
       AfterHold, Labels, Running, NoRecord, NoTx, NoOp, Ops
  <2>3. Clean'
    BY <1>2, PixSendAssumption DEF SendInv, Always, Types, RecordShape, RequestShape,
       Untouched, LedgerKnowsEveryPayment, Exclusive, Quiet, Alone, OnTheWay,
       PaidIsRecorded, FailureUnpaid, Unpaid, FailedReleased, Clean, NoThief, Reserved,
       PaidIsReserved, AcceptedIsLinked, BeforeSend, BeforeRow, AfterHold, Labels, Running,
       NoRecord, NoTx, NoOp, Ops
  <2>4. QED
    BY <2>1, <2>2, <2>3 DEF SendInv
<1>3. QED
  BY <1>1, <1>2 DEF Reject, Throw, Goto, Happens, requireProvider, isDeterministic, world,
     SendInv, Always, Types, RecordShape, NoOp

LEMMA FindLocalStep ==
    ASSUME SendInv, NEW r \in Requests, FindLocal(r)
    PROVE  SendInv'
<1>1. ASSUME pc[r] = "findLocal",
           NEW next \in {"complete", "findRemote"},
           next = IF tx[op[r]] # NoTx THEN "complete" ELSE "findRemote",
           pc' = [pc EXCEPT ![r] = next],
           UNCHANGED <<record, minted, op, reconcile, error, linked, answer, hold, tx, 
                        operation, wire, paid, reply, faulted>>
      PROVE  SendInv'
  <2>1. Always'
    BY <1>1, PixSendAssumption DEF SendInv, Always, Types, RecordShape, RequestShape,
       Untouched, LedgerKnowsEveryPayment, BeforeSend, BeforeRow, AfterHold, Labels,
       Running, NoRecord, NoTx, NoOp, Ops
  <2>2. Exclusive'
    BY <1>1, PixSendAssumption DEF SendInv, Always, Types, RecordShape, RequestShape,
       Untouched, LedgerKnowsEveryPayment, Exclusive, Quiet, Alone, OnTheWay,
       PaidIsRecorded, FailureUnpaid, Unpaid, FailedReleased, BeforeSend, BeforeRow,
       AfterHold, Labels, Running, NoRecord, NoTx, NoOp, Ops
  <2>3. Clean'
    BY <1>1, PixSendAssumption DEF SendInv, Always, Types, RecordShape, RequestShape,
       Untouched, LedgerKnowsEveryPayment, Exclusive, Quiet, Alone, OnTheWay,
       PaidIsRecorded, FailureUnpaid, Unpaid, FailedReleased, Clean, NoThief, Reserved,
       PaidIsReserved, AcceptedIsLinked, BeforeSend, BeforeRow, AfterHold, Labels, Running,
       NoRecord, NoTx, NoOp, Ops
  <2>4. QED
    BY <2>1, <2>2, <2>3 DEF SendInv
<1>2. QED
  BY <1>1 DEF FindLocal, Goto, world, SendInv, Always, Types, RecordShape, NoOp

LEMMA FindRemoteStep ==
    ASSUME SendInv, NEW r \in Requests, FindRemote(r)
    PROVE  SendInv'
<1>1. ASSUME pc[r] = "findRemote",
           op[r] \in paid,
           pc' = [pc EXCEPT ![r] = "record"],
           UNCHANGED <<record, minted, op, reconcile, error, linked, answer, hold, tx, 
                        operation, wire, paid, reply, faulted>>
      PROVE  SendInv'
  <2>1. Always'
    BY <1>1, PixSendAssumption DEF SendInv, Always, Types, RecordShape, RequestShape,
       Untouched, LedgerKnowsEveryPayment, BeforeSend, BeforeRow, AfterHold, Labels,
       Running, NoRecord, NoTx, NoOp, Ops
  <2>2. Exclusive'
    BY <1>1, PixSendAssumption DEF SendInv, Always, Types, RecordShape, RequestShape,
       Untouched, LedgerKnowsEveryPayment, Exclusive, Quiet, Alone, OnTheWay,
       PaidIsRecorded, FailureUnpaid, Unpaid, FailedReleased, BeforeSend, BeforeRow,
       AfterHold, Labels, Running, NoRecord, NoTx, NoOp, Ops
  <2>3. Clean'
    BY <1>1, PixSendAssumption DEF SendInv, Always, Types, RecordShape, RequestShape,
       Untouched, LedgerKnowsEveryPayment, Exclusive, Quiet, Alone, OnTheWay,
       PaidIsRecorded, FailureUnpaid, Unpaid, FailedReleased, Clean, NoThief, Reserved,
       PaidIsReserved, AcceptedIsLinked, BeforeSend, BeforeRow, AfterHold, Labels, Running,
       NoRecord, NoTx, NoOp, Ops
  <2>4. QED
    BY <2>1, <2>2, <2>3 DEF SendInv
<1>2. ASSUME pc[r] = "findRemote",
           "lookup" \in Faults,
           pc' = [pc EXCEPT ![r] = "authorize"],
           faulted' = faulted \cup {"lookup"},
           UNCHANGED <<record, minted, op, reconcile, error, linked, answer, hold, tx, 
                        operation, wire, paid, reply>>
      PROVE  SendInv'
  <2>1. Always'
    BY <1>2, PixSendAssumption DEF SendInv, Always, Types, RecordShape, RequestShape,
       Untouched, LedgerKnowsEveryPayment, BeforeSend, BeforeRow, AfterHold, Labels,
       Running, NoRecord, NoTx, NoOp, Ops
  <2>2. Exclusive'
    BY <1>2, PixSendAssumption DEF SendInv, Always, Types, RecordShape, RequestShape,
       Untouched, LedgerKnowsEveryPayment, Exclusive, Quiet, Alone, OnTheWay,
       PaidIsRecorded, FailureUnpaid, Unpaid, FailedReleased, BeforeSend, BeforeRow,
       AfterHold, Labels, Running, NoRecord, NoTx, NoOp, Ops
  <2>3. Clean'
    BY <1>2, PixSendAssumption DEF SendInv, Always, Types, RecordShape, RequestShape,
       Untouched, LedgerKnowsEveryPayment, Exclusive, Quiet, Alone, OnTheWay,
       PaidIsRecorded, FailureUnpaid, Unpaid, FailedReleased, Clean, NoThief, Reserved,
       PaidIsReserved, AcceptedIsLinked, BeforeSend, BeforeRow, AfterHold, Labels, Running,
       NoRecord, NoTx, NoOp, Ops
  <2>4. QED
    BY <2>1, <2>2, <2>3 DEF SendInv
<1>3. ASSUME pc[r] = "findRemote",
           op[r] \notin paid,
           pc' = [pc EXCEPT ![r] = "authorize"],
           UNCHANGED <<record, minted, op, reconcile, error, linked, answer, hold, tx, 
                        operation, wire, paid, reply, faulted>>
      PROVE  SendInv'
  <2>0. op[r] \in Ops /\ op[r] \in 1..minted
    BY <1>3, WorksUnderMinted DEF Running
  <2>1. Always'
    BY <1>3, PixSendAssumption DEF SendInv, Always, Types, RecordShape, RequestShape,
       Untouched, LedgerKnowsEveryPayment, BeforeSend, BeforeRow, AfterHold, Labels,
       Running, NoRecord, NoTx, NoOp, Ops
  <2>2. Exclusive'
    <3> SUFFICES ASSUME Quiet'
        PROVE  (Alone /\ OnTheWay /\ PaidIsRecorded /\ FailureUnpaid /\ FailedReleased)'
      BY DEF Exclusive
    <3>0. Alone /\ OnTheWay /\ PaidIsRecorded /\ FailureUnpaid /\ FailedReleased
      BY <1>3 DEF SendInv, Exclusive, Quiet
    <3>r. \A s \in Requests : s # r =>
             s \notin wire /\ pc[s] \in {"idle", "steal", "done", "crashed"}
      BY <1>3, <3>0 DEF SendInv, Always, Types, Labels, Alone, Running
    <3>1. Alone'
      BY <1>3, <2>0, <3>0, <3>r DEF SendInv, Always, Types, RecordShape, RequestShape,
         Alone, OnTheWay, PaidIsRecorded, FailureUnpaid, Unpaid, FailedReleased,
         BeforeSend, BeforeRow, AfterHold, Labels, Running, NoRecord, NoTx, NoOp, Ops
    <3>2. OnTheWay'
      BY <1>3, <2>0, <3>0, <3>r DEF SendInv, Always, Types, RecordShape, RequestShape,
         Alone, OnTheWay, PaidIsRecorded, FailureUnpaid, Unpaid, FailedReleased,
         BeforeSend, BeforeRow, AfterHold, Labels, Running, NoRecord, NoTx, NoOp, Ops
    <3>3. PaidIsRecorded'
      BY <1>3, <2>0, <3>0, <3>r DEF SendInv, Always, Types, RecordShape, RequestShape,
         Alone, OnTheWay, PaidIsRecorded, FailureUnpaid, Unpaid, FailedReleased,
         BeforeSend, BeforeRow, AfterHold, Labels, Running, NoRecord, NoTx, NoOp, Ops
    <3>4. FailureUnpaid'
      <4> SUFFICES ASSUME NEW s \in Requests PROVE Unpaid(s)'
        BY DEF FailureUnpaid
      <4>1. CASE s = r
        BY <1>3, <2>0, <3>0, <3>r, <4>1 DEF SendInv, Always, Types, RequestShape, OnTheWay,
           PaidIsRecorded, FailureUnpaid, Unpaid, BeforeSend, BeforeRow, AfterHold, Labels,
           Running, NoRecord, NoTx, NoOp, Ops
      <4>2. CASE s # r
        BY <1>3, <3>r, <4>2 DEF SendInv, Always, Types, Unpaid, Running, BeforeRow
      <4>3. QED
        BY <4>1, <4>2
    <3>5. FailedReleased'
      BY <1>3, <2>0, <3>0, <3>r DEF SendInv, Always, Types, RecordShape, RequestShape,
         Alone, OnTheWay, PaidIsRecorded, FailureUnpaid, Unpaid, FailedReleased,
         BeforeSend, BeforeRow, AfterHold, Labels, Running, NoRecord, NoTx, NoOp, Ops
    <3>6. QED
      BY <3>1, <3>2, <3>3, <3>4, <3>5
  <2>3. Clean'
    BY <1>3, PixSendAssumption DEF SendInv, Always, Types, RecordShape, RequestShape,
       Untouched, LedgerKnowsEveryPayment, Exclusive, Quiet, Alone, OnTheWay,
       PaidIsRecorded, FailureUnpaid, Unpaid, FailedReleased, Clean, NoThief, Reserved,
       PaidIsReserved, AcceptedIsLinked, BeforeSend, BeforeRow, AfterHold, Labels, Running,
       NoRecord, NoTx, NoOp, Ops
  <2>4. QED
    BY <2>1, <2>2, <2>3 DEF SendInv
<1>4. QED
  BY <1>1, <1>2, <1>3 DEF FindRemote, Happens, Goto, world, SendInv, Always, Types,
     RecordShape, NoOp

LEMMA AuthorizeStep ==
    ASSUME SendInv, NEW r \in Requests, Authorize(r)
    PROVE  SendInv'
<1>1. ASSUME pc[r] = "authorize",
           hold[op[r]] = "none",
           hold' = [hold EXCEPT ![op[r]] = "PENDING"],
           linked' = [linked EXCEPT ![r] = TRUE],
           pc' = [pc EXCEPT ![r] = "send"],
           UNCHANGED <<record, minted, op, reconcile, error, answer, tx, operation, 
                        wire, paid, reply, faulted>>
      PROVE  SendInv'
  <2>0. op[r] \in Ops /\ op[r] \in 1..minted
    BY <1>1, WorksUnderMinted DEF Running
  <2>1. Always'
    <3>1. Types'
      BY <1>1, <2>0, PixSendAssumption DEF SendInv, Always, Types, RecordShape,
         RequestShape, Untouched, LedgerKnowsEveryPayment, BeforeSend, BeforeRow,
         AfterHold, Labels, Running, NoRecord, NoTx, NoOp, Ops
    <3>2. RecordShape'
      BY <1>1, <2>0, PixSendAssumption DEF SendInv, Always, Types, RecordShape,
         RequestShape, Untouched, LedgerKnowsEveryPayment, BeforeSend, BeforeRow,
         AfterHold, Labels, Running, NoRecord, NoTx, NoOp, Ops
    <3>3. RequestShape'
      BY <1>1, <2>0, PixSendAssumption DEF SendInv, Always, Types, RecordShape,
         RequestShape, Untouched, LedgerKnowsEveryPayment, BeforeSend, BeforeRow,
         AfterHold, Labels, Running, NoRecord, NoTx, NoOp, Ops
    <3>4. Untouched'
      <4>1. \A o \in Ops : o > minted => o # op[r]
        BY <2>0, PixSendAssumption DEF SendInv, Always, Types, Ops
      <4>2. QED
        BY <1>1, <2>0, <4>1 DEF SendInv, Always, Types, Untouched
    <3>5. LedgerKnowsEveryPayment'
      BY <1>1, <2>0, PixSendAssumption DEF SendInv, Always, Types, RecordShape,
         RequestShape, Untouched, LedgerKnowsEveryPayment, BeforeSend, BeforeRow,
         AfterHold, Labels, Running, NoRecord, NoTx, NoOp, Ops
    <3>6. QED
      BY <3>1, <3>2, <3>3, <3>4, <3>5 DEF Always
  <2>2. Exclusive'
    <3> SUFFICES ASSUME Quiet'
        PROVE  (Alone /\ OnTheWay /\ PaidIsRecorded /\ FailureUnpaid /\ FailedReleased)'
      BY DEF Exclusive
    <3>0. Alone /\ OnTheWay /\ PaidIsRecorded /\ FailureUnpaid /\ FailedReleased
      BY <1>1 DEF SendInv, Exclusive, Quiet
    <3>r. \A s \in Requests : s # r =>
             s \notin wire /\ pc[s] \in {"idle", "steal", "done", "crashed"}
      BY <1>1, <3>0 DEF SendInv, Always, Types, Labels, Alone, Running
    <3>1. Alone'
      BY <1>1, <2>0, <3>0, <3>r DEF SendInv, Always, Types, RecordShape, RequestShape,
         Alone, OnTheWay, PaidIsRecorded, FailureUnpaid, Unpaid, FailedReleased,
         BeforeSend, BeforeRow, AfterHold, Labels, Running, NoRecord, NoTx, NoOp, Ops
    <3>2. OnTheWay'
      BY <1>1, <2>0, <3>0, <3>r DEF SendInv, Always, Types, RecordShape, RequestShape,
         Alone, OnTheWay, PaidIsRecorded, FailureUnpaid, Unpaid, FailedReleased,
         BeforeSend, BeforeRow, AfterHold, Labels, Running, NoRecord, NoTx, NoOp, Ops
    <3>3. PaidIsRecorded'
      BY <1>1, <2>0, <3>0, <3>r DEF SendInv, Always, Types, RecordShape, RequestShape,
         Alone, OnTheWay, PaidIsRecorded, FailureUnpaid, Unpaid, FailedReleased,
         BeforeSend, BeforeRow, AfterHold, Labels, Running, NoRecord, NoTx, NoOp, Ops
    <3>4. FailureUnpaid'
      <4> SUFFICES ASSUME NEW s \in Requests PROVE Unpaid(s)'
        BY DEF FailureUnpaid
      <4>1. CASE s = r
        BY <1>1, <2>0, <3>0, <3>r, <4>1 DEF SendInv, Always, Types, RequestShape, OnTheWay,
           PaidIsRecorded, FailureUnpaid, Unpaid, BeforeSend, BeforeRow, AfterHold, Labels,
           Running, NoRecord, NoTx, NoOp, Ops
      <4>2. CASE s # r
        BY <1>1, <3>r, <4>2 DEF SendInv, Always, Types, Unpaid, Running, BeforeRow
      <4>3. QED
        BY <4>1, <4>2
    <3>5. FailedReleased'
      BY <1>1, <2>0, <3>0, <3>r DEF SendInv, Always, Types, RecordShape, RequestShape,
         Alone, OnTheWay, PaidIsRecorded, FailureUnpaid, Unpaid, FailedReleased,
         BeforeSend, BeforeRow, AfterHold, Labels, Running, NoRecord, NoTx, NoOp, Ops
    <3>6. QED
      BY <3>1, <3>2, <3>3, <3>4, <3>5
  <2>3. Clean'
    <3> SUFFICES ASSUME (faulted = {})' PROVE (NoThief /\ Reserved)'
      BY DEF Clean
    <3>0. /\ NoThief /\ Reserved /\ faulted = {}
          /\ Alone /\ OnTheWay /\ PaidIsRecorded /\ FailureUnpaid
      BY <1>1 DEF SendInv, Exclusive, Quiet, Clean
    <3>r. \A s \in Requests : s # r =>
             s \notin wire /\ pc[s] \in {"idle", "steal", "done", "crashed"}
      BY <1>1, <3>0 DEF SendInv, Always, Types, Labels, Alone, Running
    <3>1. NoThief'
      BY <1>1, <2>0, <3>0, <3>r DEF SendInv, Always, Types, RecordShape, RequestShape,
         Alone, OnTheWay, PaidIsRecorded, FailureUnpaid, Unpaid, NoThief, Reserved,
         PaidIsReserved, AcceptedIsLinked, BeforeSend, BeforeRow, AfterHold, Labels,
         Running, NoRecord, NoTx, NoOp, Ops
    <3>2. Reserved'
      BY <1>1, <2>0, <3>0, <3>r DEF SendInv, Always, Types, RecordShape, RequestShape,
         Alone, OnTheWay, PaidIsRecorded, FailureUnpaid, Unpaid, NoThief, Reserved,
         PaidIsReserved, AcceptedIsLinked, BeforeSend, BeforeRow, AfterHold, Labels,
         Running, NoRecord, NoTx, NoOp, Ops
    <3>3. QED
      BY <3>1, <3>2
  <2>4. QED
    BY <2>1, <2>2, <2>3 DEF SendInv
<1>2. ASSUME pc[r] = "authorize",
           hold[op[r]] # "none",
           linked' = [linked EXCEPT ![r] = TRUE],
           pc' = [pc EXCEPT ![r] = "send"],
           UNCHANGED <<record, minted, op, reconcile, error, answer, hold, tx, 
                        operation, wire, paid, reply, faulted>>
      PROVE  SendInv'
  <2>1. Always'
    BY <1>2, PixSendAssumption DEF SendInv, Always, Types, RecordShape, RequestShape,
       Untouched, LedgerKnowsEveryPayment, BeforeSend, BeforeRow, AfterHold, Labels,
       Running, NoRecord, NoTx, NoOp, Ops
  <2>2. Exclusive'
    BY <1>2, PixSendAssumption DEF SendInv, Always, Types, RecordShape, RequestShape,
       Untouched, LedgerKnowsEveryPayment, Exclusive, Quiet, Alone, OnTheWay,
       PaidIsRecorded, FailureUnpaid, Unpaid, FailedReleased, BeforeSend, BeforeRow,
       AfterHold, Labels, Running, NoRecord, NoTx, NoOp, Ops
  <2>3. Clean'
    BY <1>2, PixSendAssumption DEF SendInv, Always, Types, RecordShape, RequestShape,
       Untouched, LedgerKnowsEveryPayment, Exclusive, Quiet, Alone, OnTheWay,
       PaidIsRecorded, FailureUnpaid, Unpaid, FailedReleased, Clean, NoThief, Reserved,
       PaidIsReserved, AcceptedIsLinked, BeforeSend, BeforeRow, AfterHold, Labels, Running,
       NoRecord, NoTx, NoOp, Ops
  <2>4. QED
    BY <2>1, <2>2, <2>3 DEF SendInv
<1>3. ASSUME pc[r] = "authorize",
           hold[op[r]] = "none",
           error' = [error EXCEPT ![r] = "deterministic"],
           pc' = [pc EXCEPT ![r] = "failed"],
           UNCHANGED <<record, minted, op, reconcile, linked, answer, hold, tx, 
                        operation, wire, paid, reply, faulted>>
      PROVE  SendInv'
  <2>1. Always'
    BY <1>3, PixSendAssumption DEF SendInv, Always, Types, RecordShape, RequestShape,
       Untouched, LedgerKnowsEveryPayment, BeforeSend, BeforeRow, AfterHold, Labels,
       Running, NoRecord, NoTx, NoOp, Ops
  <2>2. Exclusive'
    BY <1>3, PixSendAssumption DEF SendInv, Always, Types, RecordShape, RequestShape,
       Untouched, LedgerKnowsEveryPayment, Exclusive, Quiet, Alone, OnTheWay,
       PaidIsRecorded, FailureUnpaid, Unpaid, FailedReleased, BeforeSend, BeforeRow,
       AfterHold, Labels, Running, NoRecord, NoTx, NoOp, Ops
  <2>3. Clean'
    BY <1>3, PixSendAssumption DEF SendInv, Always, Types, RecordShape, RequestShape,
       Untouched, LedgerKnowsEveryPayment, Exclusive, Quiet, Alone, OnTheWay,
       PaidIsRecorded, FailureUnpaid, Unpaid, FailedReleased, Clean, NoThief, Reserved,
       PaidIsReserved, AcceptedIsLinked, BeforeSend, BeforeRow, AfterHold, Labels, Running,
       NoRecord, NoTx, NoOp, Ops
  <2>4. QED
    BY <2>1, <2>2, <2>3 DEF SendInv
<1>4. QED
  BY <1>1, <1>2, <1>3 DEF Authorize, Goto, Throw, world, SendInv, Always, Types,
     RecordShape, NoOp

LEMMA SendStep ==
    ASSUME SendInv, NEW r \in Requests, Send(r)
    PROVE  SendInv'
<1>1. ASSUME pc[r] = "send",
           wire' = wire \cup {r},
           pc' = [pc EXCEPT ![r] = "await"],
           UNCHANGED <<record, minted, op, reconcile, error, linked, answer, hold, tx, 
                        operation, paid, reply, faulted>>
      PROVE  SendInv'
  <2>1. Always'
    BY <1>1, PixSendAssumption DEF SendInv, Always, Types, RecordShape, RequestShape,
       Untouched, LedgerKnowsEveryPayment, BeforeSend, BeforeRow, AfterHold, Labels,
       Running, NoRecord, NoTx, NoOp, Ops
  <2>2. Exclusive'
    BY <1>1, PixSendAssumption DEF SendInv, Always, Types, RecordShape, RequestShape,
       Untouched, LedgerKnowsEveryPayment, Exclusive, Quiet, Alone, OnTheWay,
       PaidIsRecorded, FailureUnpaid, Unpaid, FailedReleased, BeforeSend, BeforeRow,
       AfterHold, Labels, Running, NoRecord, NoTx, NoOp, Ops
  <2>3. Clean'
    BY <1>1, PixSendAssumption DEF SendInv, Always, Types, RecordShape, RequestShape,
       Untouched, LedgerKnowsEveryPayment, Exclusive, Quiet, Alone, OnTheWay,
       PaidIsRecorded, FailureUnpaid, Unpaid, FailedReleased, Clean, NoThief, Reserved,
       PaidIsReserved, AcceptedIsLinked, BeforeSend, BeforeRow, AfterHold, Labels, Running,
       NoRecord, NoTx, NoOp, Ops
  <2>4. QED
    BY <2>1, <2>2, <2>3 DEF SendInv
<1>2. QED
  BY <1>1 DEF Send, Goto, world, SendInv, Always, Types, RecordShape, NoOp

LEMMA NotSentStep ==
    ASSUME SendInv, NEW r \in Requests, NotSent(r)
    PROVE  SendInv'
<1>1. ASSUME pc[r] = "send",
           error' = [error EXCEPT ![r] = "transient"],
           pc' = [pc EXCEPT ![r] = "void"],
           UNCHANGED <<record, minted, op, reconcile, linked, answer, hold, tx, 
                        operation, wire, paid, reply, faulted>>
      PROVE  SendInv'
  <2>1. Always'
    BY <1>1, PixSendAssumption DEF SendInv, Always, Types, RecordShape, RequestShape,
       Untouched, LedgerKnowsEveryPayment, BeforeSend, BeforeRow, AfterHold, Labels,
       Running, NoRecord, NoTx, NoOp, Ops
  <2>2. Exclusive'
    BY <1>1, PixSendAssumption DEF SendInv, Always, Types, RecordShape, RequestShape,
       Untouched, LedgerKnowsEveryPayment, Exclusive, Quiet, Alone, OnTheWay,
       PaidIsRecorded, FailureUnpaid, Unpaid, FailedReleased, BeforeSend, BeforeRow,
       AfterHold, Labels, Running, NoRecord, NoTx, NoOp, Ops
  <2>3. Clean'
    BY <1>1, PixSendAssumption DEF SendInv, Always, Types, RecordShape, RequestShape,
       Untouched, LedgerKnowsEveryPayment, Exclusive, Quiet, Alone, OnTheWay,
       PaidIsRecorded, FailureUnpaid, Unpaid, FailedReleased, Clean, NoThief, Reserved,
       PaidIsReserved, AcceptedIsLinked, BeforeSend, BeforeRow, AfterHold, Labels, Running,
       NoRecord, NoTx, NoOp, Ops
  <2>4. QED
    BY <2>1, <2>2, <2>3 DEF SendInv
<1>2. QED
  BY <1>1 DEF NotSent, Goto, world, SendInv, Always, Types, RecordShape, NoOp

LEMMA ReceiveStep ==
    ASSUME SendInv, NEW r \in Requests, Receive(r)
    PROVE  SendInv'
<1>1. ASSUME pc[r] = "await",
           reply[r] = "ok",
           pc' = [pc EXCEPT ![r] = "record"],
           UNCHANGED <<record, minted, op, reconcile, error, linked, answer, hold, tx, 
                        operation, wire, paid, reply, faulted>>
      PROVE  SendInv'
  <2>1. Always'
    BY <1>1, PixSendAssumption DEF SendInv, Always, Types, RecordShape, RequestShape,
       Untouched, LedgerKnowsEveryPayment, BeforeSend, BeforeRow, AfterHold, Labels,
       Running, NoRecord, NoTx, NoOp, Ops
  <2>2. Exclusive'
    BY <1>1, PixSendAssumption DEF SendInv, Always, Types, RecordShape, RequestShape,
       Untouched, LedgerKnowsEveryPayment, Exclusive, Quiet, Alone, OnTheWay,
       PaidIsRecorded, FailureUnpaid, Unpaid, FailedReleased, BeforeSend, BeforeRow,
       AfterHold, Labels, Running, NoRecord, NoTx, NoOp, Ops
  <2>3. Clean'
    BY <1>1, PixSendAssumption DEF SendInv, Always, Types, RecordShape, RequestShape,
       Untouched, LedgerKnowsEveryPayment, Exclusive, Quiet, Alone, OnTheWay,
       PaidIsRecorded, FailureUnpaid, Unpaid, FailedReleased, Clean, NoThief, Reserved,
       PaidIsReserved, AcceptedIsLinked, BeforeSend, BeforeRow, AfterHold, Labels, Running,
       NoRecord, NoTx, NoOp, Ops
  <2>4. QED
    BY <2>1, <2>2, <2>3 DEF SendInv
<1>2. ASSUME pc[r] = "await",
           reply[r] \in {"deterministic", "transient"},
           pc' = [pc EXCEPT ![r] = "void"],
           error' = [error EXCEPT ![r] = reply[r]],
           UNCHANGED <<record, minted, op, reconcile, linked, answer, hold, tx, 
                        operation, wire, paid, reply, faulted>>
      PROVE  SendInv'
  <2>1. Always'
    BY <1>2, PixSendAssumption DEF SendInv, Always, Types, RecordShape, RequestShape,
       Untouched, LedgerKnowsEveryPayment, BeforeSend, BeforeRow, AfterHold, Labels,
       Running, NoRecord, NoTx, NoOp, Ops
  <2>2. Exclusive'
    BY <1>2, PixSendAssumption DEF SendInv, Always, Types, RecordShape, RequestShape,
       Untouched, LedgerKnowsEveryPayment, Exclusive, Quiet, Alone, OnTheWay,
       PaidIsRecorded, FailureUnpaid, Unpaid, FailedReleased, BeforeSend, BeforeRow,
       AfterHold, Labels, Running, NoRecord, NoTx, NoOp, Ops
  <2>3. Clean'
    BY <1>2, PixSendAssumption DEF SendInv, Always, Types, RecordShape, RequestShape,
       Untouched, LedgerKnowsEveryPayment, Exclusive, Quiet, Alone, OnTheWay,
       PaidIsRecorded, FailureUnpaid, Unpaid, FailedReleased, Clean, NoThief, Reserved,
       PaidIsReserved, AcceptedIsLinked, BeforeSend, BeforeRow, AfterHold, Labels, Running,
       NoRecord, NoTx, NoOp, Ops
  <2>4. QED
    BY <2>1, <2>2, <2>3 DEF SendInv
<1>3. QED
  BY <1>1, <1>2 DEF Receive, Goto, world, SendInv, Always, Types, RecordShape, NoOp

LEMMA GiveUpStep ==
    ASSUME SendInv, NEW r \in Requests, GiveUp(r)
    PROVE  SendInv'
<1>1. ASSUME pc[r] = "await",
           pc' = [pc EXCEPT ![r] = "recordUnknown"],
           UNCHANGED <<record, minted, op, reconcile, error, linked, answer, hold, tx, 
                        operation, wire, paid, reply, faulted>>
      PROVE  SendInv'
  <2>1. Always'
    BY <1>1, PixSendAssumption DEF SendInv, Always, Types, RecordShape, RequestShape,
       Untouched, LedgerKnowsEveryPayment, BeforeSend, BeforeRow, AfterHold, Labels,
       Running, NoRecord, NoTx, NoOp, Ops
  <2>2. Exclusive'
    BY <1>1, PixSendAssumption DEF SendInv, Always, Types, RecordShape, RequestShape,
       Untouched, LedgerKnowsEveryPayment, Exclusive, Quiet, Alone, OnTheWay,
       PaidIsRecorded, FailureUnpaid, Unpaid, FailedReleased, BeforeSend, BeforeRow,
       AfterHold, Labels, Running, NoRecord, NoTx, NoOp, Ops
  <2>3. Clean'
    BY <1>1, PixSendAssumption DEF SendInv, Always, Types, RecordShape, RequestShape,
       Untouched, LedgerKnowsEveryPayment, Exclusive, Quiet, Alone, OnTheWay,
       PaidIsRecorded, FailureUnpaid, Unpaid, FailedReleased, Clean, NoThief, Reserved,
       PaidIsReserved, AcceptedIsLinked, BeforeSend, BeforeRow, AfterHold, Labels, Running,
       NoRecord, NoTx, NoOp, Ops
  <2>4. QED
    BY <2>1, <2>2, <2>3 DEF SendInv
<1>2. QED
  BY <1>1 DEF GiveUp, Goto, world, SendInv, Always, Types, RecordShape, NoOp

LEMMA RecordSentStep ==
    ASSUME SendInv, NEW r \in Requests, RecordSent(r)
    PROVE  SendInv'
<1>1. ASSUME pc[r] = "record",
           tx[op[r]] = NoTx,
           tx' = [tx EXCEPT ![op[r]] = [status |-> "PROCESSING", hold |-> linked[r]]],
           pc' = [pc EXCEPT ![r] = "complete"],
           UNCHANGED <<record, minted, op, reconcile, error, linked, answer, hold, 
                        operation, wire, paid, reply, faulted>>
      PROVE  SendInv'
  <2>0. op[r] \in Ops /\ op[r] \in 1..minted
    BY <1>1, WorksUnderMinted DEF Running
  <2>1. Always'
    <3>1. Types'
      BY <1>1, <2>0, PixSendAssumption DEF SendInv, Always, Types, RecordShape,
         RequestShape, Untouched, LedgerKnowsEveryPayment, BeforeSend, BeforeRow,
         AfterHold, Labels, Running, NoRecord, NoTx, NoOp, Ops
    <3>2. RecordShape'
      BY <1>1, <2>0, PixSendAssumption DEF SendInv, Always, Types, RecordShape,
         RequestShape, Untouched, LedgerKnowsEveryPayment, BeforeSend, BeforeRow,
         AfterHold, Labels, Running, NoRecord, NoTx, NoOp, Ops
    <3>3. RequestShape'
      BY <1>1, <2>0, PixSendAssumption DEF SendInv, Always, Types, RecordShape,
         RequestShape, Untouched, LedgerKnowsEveryPayment, BeforeSend, BeforeRow,
         AfterHold, Labels, Running, NoRecord, NoTx, NoOp, Ops
    <3>4. Untouched'
      <4>1. \A o \in Ops : o > minted => o # op[r]
        BY <2>0, PixSendAssumption DEF SendInv, Always, Types, Ops
      <4>2. QED
        BY <1>1, <2>0, <4>1 DEF SendInv, Always, Types, Untouched
    <3>5. LedgerKnowsEveryPayment'
      BY <1>1, <2>0, PixSendAssumption DEF SendInv, Always, Types, RecordShape,
         RequestShape, Untouched, LedgerKnowsEveryPayment, BeforeSend, BeforeRow,
         AfterHold, Labels, Running, NoRecord, NoTx, NoOp, Ops
    <3>6. QED
      BY <3>1, <3>2, <3>3, <3>4, <3>5 DEF Always
  <2>2. Exclusive'
    <3> SUFFICES ASSUME Quiet'
        PROVE  (Alone /\ OnTheWay /\ PaidIsRecorded /\ FailureUnpaid /\ FailedReleased)'
      BY DEF Exclusive
    <3>0. Alone /\ OnTheWay /\ PaidIsRecorded /\ FailureUnpaid /\ FailedReleased
      BY <1>1 DEF SendInv, Exclusive, Quiet
    <3>r. \A s \in Requests : s # r =>
             s \notin wire /\ pc[s] \in {"idle", "steal", "done", "crashed"}
      BY <1>1, <3>0 DEF SendInv, Always, Types, Labels, Alone, Running
    <3>1. Alone'
      BY <1>1, <2>0, <3>0, <3>r DEF SendInv, Always, Types, RecordShape, RequestShape,
         Alone, OnTheWay, PaidIsRecorded, FailureUnpaid, Unpaid, FailedReleased,
         BeforeSend, BeforeRow, AfterHold, Labels, Running, NoRecord, NoTx, NoOp, Ops
    <3>2. OnTheWay'
      BY <1>1, <2>0, <3>0, <3>r DEF SendInv, Always, Types, RecordShape, RequestShape,
         Alone, OnTheWay, PaidIsRecorded, FailureUnpaid, Unpaid, FailedReleased,
         BeforeSend, BeforeRow, AfterHold, Labels, Running, NoRecord, NoTx, NoOp, Ops
    <3>3. PaidIsRecorded'
      BY <1>1, <2>0, <3>0, <3>r DEF SendInv, Always, Types, RecordShape, RequestShape,
         Alone, OnTheWay, PaidIsRecorded, FailureUnpaid, Unpaid, FailedReleased,
         BeforeSend, BeforeRow, AfterHold, Labels, Running, NoRecord, NoTx, NoOp, Ops
    <3>4. FailureUnpaid'
      <4> SUFFICES ASSUME NEW s \in Requests PROVE Unpaid(s)'
        BY DEF FailureUnpaid
      <4>1. CASE s = r
        BY <1>1, <2>0, <3>0, <3>r, <4>1 DEF SendInv, Always, Types, RequestShape, OnTheWay,
           PaidIsRecorded, FailureUnpaid, Unpaid, BeforeSend, BeforeRow, AfterHold, Labels,
           Running, NoRecord, NoTx, NoOp, Ops
      <4>2. CASE s # r
        BY <1>1, <3>r, <4>2 DEF SendInv, Always, Types, Unpaid, Running, BeforeRow
      <4>3. QED
        BY <4>1, <4>2
    <3>5. FailedReleased'
      BY <1>1, <2>0, <3>0, <3>r DEF SendInv, Always, Types, RecordShape, RequestShape,
         Alone, OnTheWay, PaidIsRecorded, FailureUnpaid, Unpaid, FailedReleased,
         BeforeSend, BeforeRow, AfterHold, Labels, Running, NoRecord, NoTx, NoOp, Ops
    <3>6. QED
      BY <3>1, <3>2, <3>3, <3>4, <3>5
  <2>3. Clean'
    BY <1>1, PixSendAssumption DEF SendInv, Always, Types, RecordShape, RequestShape,
       Untouched, LedgerKnowsEveryPayment, Exclusive, Quiet, Alone, OnTheWay,
       PaidIsRecorded, FailureUnpaid, Unpaid, FailedReleased, Clean, NoThief, Reserved,
       PaidIsReserved, AcceptedIsLinked, BeforeSend, BeforeRow, AfterHold, Labels, Running,
       NoRecord, NoTx, NoOp, Ops
  <2>4. QED
    BY <2>1, <2>2, <2>3 DEF SendInv
<1>2. ASSUME pc[r] = "record",
           tx[op[r]] # NoTx,
           error' = [error EXCEPT ![r] = "transient"],
           pc' = [pc EXCEPT ![r] = "failed"],
           UNCHANGED <<record, minted, op, reconcile, linked, answer, hold, tx, 
                        operation, wire, paid, reply, faulted>>
      PROVE  SendInv'
  <2>1. Always'
    BY <1>2, PixSendAssumption DEF SendInv, Always, Types, RecordShape, RequestShape,
       Untouched, LedgerKnowsEveryPayment, BeforeSend, BeforeRow, AfterHold, Labels,
       Running, NoRecord, NoTx, NoOp, Ops
  <2>2. Exclusive'
    BY <1>2, PixSendAssumption DEF SendInv, Always, Types, RecordShape, RequestShape,
       Untouched, LedgerKnowsEveryPayment, Exclusive, Quiet, Alone, OnTheWay,
       PaidIsRecorded, FailureUnpaid, Unpaid, FailedReleased, BeforeSend, BeforeRow,
       AfterHold, Labels, Running, NoRecord, NoTx, NoOp, Ops
  <2>3. Clean'
    BY <1>2, PixSendAssumption DEF SendInv, Always, Types, RecordShape, RequestShape,
       Untouched, LedgerKnowsEveryPayment, Exclusive, Quiet, Alone, OnTheWay,
       PaidIsRecorded, FailureUnpaid, Unpaid, FailedReleased, Clean, NoThief, Reserved,
       PaidIsReserved, AcceptedIsLinked, BeforeSend, BeforeRow, AfterHold, Labels, Running,
       NoRecord, NoTx, NoOp, Ops
  <2>4. QED
    BY <2>1, <2>2, <2>3 DEF SendInv
<1>3. QED
  BY <1>1, <1>2 DEF RecordSent, CreateTx, Goto, Throw, world, SendInv, Always, Types,
     RecordShape, NoOp

LEMMA RecordUnknownStep ==
    ASSUME SendInv, NEW r \in Requests, RecordUnknown(r)
    PROVE  SendInv'
<1>1. ASSUME pc[r] = "recordUnknown",
           tx[op[r]] = NoTx,
           tx' = [tx EXCEPT ![op[r]] = [status |-> "UNKNOWN", hold |-> linked[r]]],
           pc' = [pc EXCEPT ![r] = "createOperation"],
           UNCHANGED <<record, minted, op, reconcile, error, linked, answer, hold, 
                        operation, wire, paid, reply, faulted>>
      PROVE  SendInv'
  <2>0. op[r] \in Ops /\ op[r] \in 1..minted
    BY <1>1, WorksUnderMinted DEF Running
  <2>1. Always'
    <3>1. Types'
      BY <1>1, <2>0, PixSendAssumption DEF SendInv, Always, Types, RecordShape,
         RequestShape, Untouched, LedgerKnowsEveryPayment, BeforeSend, BeforeRow,
         AfterHold, Labels, Running, NoRecord, NoTx, NoOp, Ops
    <3>2. RecordShape'
      BY <1>1, <2>0, PixSendAssumption DEF SendInv, Always, Types, RecordShape,
         RequestShape, Untouched, LedgerKnowsEveryPayment, BeforeSend, BeforeRow,
         AfterHold, Labels, Running, NoRecord, NoTx, NoOp, Ops
    <3>3. RequestShape'
      BY <1>1, <2>0, PixSendAssumption DEF SendInv, Always, Types, RecordShape,
         RequestShape, Untouched, LedgerKnowsEveryPayment, BeforeSend, BeforeRow,
         AfterHold, Labels, Running, NoRecord, NoTx, NoOp, Ops
    <3>4. Untouched'
      <4>1. \A o \in Ops : o > minted => o # op[r]
        BY <2>0, PixSendAssumption DEF SendInv, Always, Types, Ops
      <4>2. QED
        BY <1>1, <2>0, <4>1 DEF SendInv, Always, Types, Untouched
    <3>5. LedgerKnowsEveryPayment'
      BY <1>1, <2>0, PixSendAssumption DEF SendInv, Always, Types, RecordShape,
         RequestShape, Untouched, LedgerKnowsEveryPayment, BeforeSend, BeforeRow,
         AfterHold, Labels, Running, NoRecord, NoTx, NoOp, Ops
    <3>6. QED
      BY <3>1, <3>2, <3>3, <3>4, <3>5 DEF Always
  <2>2. Exclusive'
    <3> SUFFICES ASSUME Quiet'
        PROVE  (Alone /\ OnTheWay /\ PaidIsRecorded /\ FailureUnpaid /\ FailedReleased)'
      BY DEF Exclusive
    <3>0. Alone /\ OnTheWay /\ PaidIsRecorded /\ FailureUnpaid /\ FailedReleased
      BY <1>1 DEF SendInv, Exclusive, Quiet
    <3>r. \A s \in Requests : s # r =>
             s \notin wire /\ pc[s] \in {"idle", "steal", "done", "crashed"}
      BY <1>1, <3>0 DEF SendInv, Always, Types, Labels, Alone, Running
    <3>1. Alone'
      BY <1>1, <2>0, <3>0, <3>r DEF SendInv, Always, Types, RecordShape, RequestShape,
         Alone, OnTheWay, PaidIsRecorded, FailureUnpaid, Unpaid, FailedReleased,
         BeforeSend, BeforeRow, AfterHold, Labels, Running, NoRecord, NoTx, NoOp, Ops
    <3>2. OnTheWay'
      BY <1>1, <2>0, <3>0, <3>r DEF SendInv, Always, Types, RecordShape, RequestShape,
         Alone, OnTheWay, PaidIsRecorded, FailureUnpaid, Unpaid, FailedReleased,
         BeforeSend, BeforeRow, AfterHold, Labels, Running, NoRecord, NoTx, NoOp, Ops
    <3>3. PaidIsRecorded'
      BY <1>1, <2>0, <3>0, <3>r DEF SendInv, Always, Types, RecordShape, RequestShape,
         Alone, OnTheWay, PaidIsRecorded, FailureUnpaid, Unpaid, FailedReleased,
         BeforeSend, BeforeRow, AfterHold, Labels, Running, NoRecord, NoTx, NoOp, Ops
    <3>4. FailureUnpaid'
      <4> SUFFICES ASSUME NEW s \in Requests PROVE Unpaid(s)'
        BY DEF FailureUnpaid
      <4>1. CASE s = r
        BY <1>1, <2>0, <3>0, <3>r, <4>1 DEF SendInv, Always, Types, RequestShape, OnTheWay,
           PaidIsRecorded, FailureUnpaid, Unpaid, BeforeSend, BeforeRow, AfterHold, Labels,
           Running, NoRecord, NoTx, NoOp, Ops
      <4>2. CASE s # r
        BY <1>1, <3>r, <4>2 DEF SendInv, Always, Types, Unpaid, Running, BeforeRow
      <4>3. QED
        BY <4>1, <4>2
    <3>5. FailedReleased'
      BY <1>1, <2>0, <3>0, <3>r DEF SendInv, Always, Types, RecordShape, RequestShape,
         Alone, OnTheWay, PaidIsRecorded, FailureUnpaid, Unpaid, FailedReleased,
         BeforeSend, BeforeRow, AfterHold, Labels, Running, NoRecord, NoTx, NoOp, Ops
    <3>6. QED
      BY <3>1, <3>2, <3>3, <3>4, <3>5
  <2>3. Clean'
    <3> SUFFICES ASSUME (faulted = {})' PROVE (NoThief /\ Reserved)'
      BY DEF Clean
    <3>0. /\ NoThief /\ Reserved /\ faulted = {}
          /\ Alone /\ OnTheWay /\ PaidIsRecorded /\ FailureUnpaid
      BY <1>1 DEF SendInv, Exclusive, Quiet, Clean
    <3>r. \A s \in Requests : s # r =>
             s \notin wire /\ pc[s] \in {"idle", "steal", "done", "crashed"}
      BY <1>1, <3>0 DEF SendInv, Always, Types, Labels, Alone, Running
    <3>1. NoThief'
      BY <1>1, <2>0, <3>0, <3>r DEF SendInv, Always, Types, RecordShape, RequestShape,
         Alone, OnTheWay, PaidIsRecorded, FailureUnpaid, Unpaid, NoThief, Reserved,
         PaidIsReserved, AcceptedIsLinked, BeforeSend, BeforeRow, AfterHold, Labels,
         Running, NoRecord, NoTx, NoOp, Ops
    <3>2. Reserved'
      BY <1>1, <2>0, <3>0, <3>r DEF SendInv, Always, Types, RecordShape, RequestShape,
         Alone, OnTheWay, PaidIsRecorded, FailureUnpaid, Unpaid, NoThief, Reserved,
         PaidIsReserved, AcceptedIsLinked, BeforeSend, BeforeRow, AfterHold, Labels,
         Running, NoRecord, NoTx, NoOp, Ops
    <3>3. QED
      BY <3>1, <3>2
  <2>4. QED
    BY <2>1, <2>2, <2>3 DEF SendInv
<1>2. ASSUME pc[r] = "recordUnknown",
           tx[op[r]] # NoTx,
           error' = [error EXCEPT ![r] = "transient"],
           pc' = [pc EXCEPT ![r] = "failed"],
           UNCHANGED <<record, minted, op, reconcile, linked, answer, hold, tx, 
                        operation, wire, paid, reply, faulted>>
      PROVE  SendInv'
  <2>1. Always'
    BY <1>2, PixSendAssumption DEF SendInv, Always, Types, RecordShape, RequestShape,
       Untouched, LedgerKnowsEveryPayment, BeforeSend, BeforeRow, AfterHold, Labels,
       Running, NoRecord, NoTx, NoOp, Ops
  <2>2. Exclusive'
    BY <1>2, PixSendAssumption DEF SendInv, Always, Types, RecordShape, RequestShape,
       Untouched, LedgerKnowsEveryPayment, Exclusive, Quiet, Alone, OnTheWay,
       PaidIsRecorded, FailureUnpaid, Unpaid, FailedReleased, BeforeSend, BeforeRow,
       AfterHold, Labels, Running, NoRecord, NoTx, NoOp, Ops
  <2>3. Clean'
    BY <1>2, PixSendAssumption DEF SendInv, Always, Types, RecordShape, RequestShape,
       Untouched, LedgerKnowsEveryPayment, Exclusive, Quiet, Alone, OnTheWay,
       PaidIsRecorded, FailureUnpaid, Unpaid, FailedReleased, Clean, NoThief, Reserved,
       PaidIsReserved, AcceptedIsLinked, BeforeSend, BeforeRow, AfterHold, Labels, Running,
       NoRecord, NoTx, NoOp, Ops
  <2>4. QED
    BY <2>1, <2>2, <2>3 DEF SendInv
<1>3. QED
  BY <1>1, <1>2 DEF RecordUnknown, CreateTx, Goto, Throw, world, SendInv, Always, Types,
     RecordShape, NoOp

LEMMA CreateOperationStep ==
    ASSUME SendInv, NEW r \in Requests, CreateOperation(r)
    PROVE  SendInv'
<1>1. ASSUME pc[r] = "createOperation",
           operation' = operation \cup {op[r]},
           pc' = [pc EXCEPT ![r] = "complete"],
           UNCHANGED <<record, minted, op, reconcile, error, linked, answer, hold, tx, 
                        wire, paid, reply, faulted>>
      PROVE  SendInv'
  <2>0. op[r] \in Ops /\ op[r] \in 1..minted
    BY <1>1, WorksUnderMinted DEF Running
  <2>1. Always'
    <3>1. Types'
      BY ZenonT(60), <1>1, <2>0, PixSendAssumption DEF SendInv, Always, Types, RecordShape,
         RequestShape, Untouched, LedgerKnowsEveryPayment, BeforeSend, BeforeRow,
         AfterHold, Labels, Running, NoRecord, NoTx, NoOp, Ops
    <3>2. RecordShape'
      BY <1>1, <2>0, PixSendAssumption DEF SendInv, Always, Types, RecordShape,
         RequestShape, Untouched, LedgerKnowsEveryPayment, BeforeSend, BeforeRow,
         AfterHold, Labels, Running, NoRecord, NoTx, NoOp, Ops
    <3>3. RequestShape'
      BY <1>1, <2>0, PixSendAssumption DEF SendInv, Always, Types, RecordShape,
         RequestShape, Untouched, LedgerKnowsEveryPayment, BeforeSend, BeforeRow,
         AfterHold, Labels, Running, NoRecord, NoTx, NoOp, Ops
    <3>4. Untouched'
      <4>1. \A o \in Ops : o > minted => o # op[r]
        BY <2>0, PixSendAssumption DEF SendInv, Always, Types, Ops
      <4>2. QED
        BY <1>1, <2>0, <4>1 DEF SendInv, Always, Types, Untouched
    <3>5. LedgerKnowsEveryPayment'
      BY <1>1, <2>0, PixSendAssumption DEF SendInv, Always, Types, RecordShape,
         RequestShape, Untouched, LedgerKnowsEveryPayment, BeforeSend, BeforeRow,
         AfterHold, Labels, Running, NoRecord, NoTx, NoOp, Ops
    <3>6. QED
      BY <3>1, <3>2, <3>3, <3>4, <3>5 DEF Always
  <2>2. Exclusive'
    BY <1>1, PixSendAssumption DEF SendInv, Always, Types, RecordShape, RequestShape,
       Untouched, LedgerKnowsEveryPayment, Exclusive, Quiet, Alone, OnTheWay,
       PaidIsRecorded, FailureUnpaid, Unpaid, FailedReleased, BeforeSend, BeforeRow,
       AfterHold, Labels, Running, NoRecord, NoTx, NoOp, Ops
  <2>3. Clean'
    BY <1>1, PixSendAssumption DEF SendInv, Always, Types, RecordShape, RequestShape,
       Untouched, LedgerKnowsEveryPayment, Exclusive, Quiet, Alone, OnTheWay,
       PaidIsRecorded, FailureUnpaid, Unpaid, FailedReleased, Clean, NoThief, Reserved,
       PaidIsReserved, AcceptedIsLinked, BeforeSend, BeforeRow, AfterHold, Labels, Running,
       NoRecord, NoTx, NoOp, Ops
  <2>4. QED
    BY <2>1, <2>2, <2>3 DEF SendInv
<1>2. QED
  BY <1>1 DEF CreateOperation, Goto, world, SendInv, Always, Types, RecordShape, NoOp

LEMMA VoidStep ==
    ASSUME SendInv, NEW r \in Requests, Void(r)
    PROVE  SendInv'
<1>1. ASSUME pc[r] = "void",
           hold' = [hold EXCEPT ![op[r]] = "VOIDED"],
           pc' = [pc EXCEPT ![r] = "failed"],
           UNCHANGED <<record, minted, op, reconcile, error, linked, answer, tx, 
                        operation, wire, paid, reply, faulted>>
      PROVE  SendInv'
  <2>0. op[r] \in Ops /\ op[r] \in 1..minted
    BY <1>1, WorksUnderMinted DEF Running
  <2>1. Always'
    <3>1. Types'
      BY <1>1, <2>0, PixSendAssumption DEF SendInv, Always, Types, RecordShape,
         RequestShape, Untouched, LedgerKnowsEveryPayment, BeforeSend, BeforeRow,
         AfterHold, Labels, Running, NoRecord, NoTx, NoOp, Ops
    <3>2. RecordShape'
      BY <1>1, <2>0, PixSendAssumption DEF SendInv, Always, Types, RecordShape,
         RequestShape, Untouched, LedgerKnowsEveryPayment, BeforeSend, BeforeRow,
         AfterHold, Labels, Running, NoRecord, NoTx, NoOp, Ops
    <3>3. RequestShape'
      BY <1>1, <2>0, PixSendAssumption DEF SendInv, Always, Types, RecordShape,
         RequestShape, Untouched, LedgerKnowsEveryPayment, BeforeSend, BeforeRow,
         AfterHold, Labels, Running, NoRecord, NoTx, NoOp, Ops
    <3>4. Untouched'
      <4>1. \A o \in Ops : o > minted => o # op[r]
        BY <2>0, PixSendAssumption DEF SendInv, Always, Types, Ops
      <4>2. QED
        BY <1>1, <2>0, <4>1 DEF SendInv, Always, Types, Untouched
    <3>5. LedgerKnowsEveryPayment'
      BY <1>1, <2>0, PixSendAssumption DEF SendInv, Always, Types, RecordShape,
         RequestShape, Untouched, LedgerKnowsEveryPayment, BeforeSend, BeforeRow,
         AfterHold, Labels, Running, NoRecord, NoTx, NoOp, Ops
    <3>6. QED
      BY <3>1, <3>2, <3>3, <3>4, <3>5 DEF Always
  <2>2. Exclusive'
    <3> SUFFICES ASSUME Quiet'
        PROVE  (Alone /\ OnTheWay /\ PaidIsRecorded /\ FailureUnpaid /\ FailedReleased)'
      BY DEF Exclusive
    <3>0. Alone /\ OnTheWay /\ PaidIsRecorded /\ FailureUnpaid /\ FailedReleased
      BY <1>1 DEF SendInv, Exclusive, Quiet
    <3>r. \A s \in Requests : s # r =>
             s \notin wire /\ pc[s] \in {"idle", "steal", "done", "crashed"}
      BY <1>1, <3>0 DEF SendInv, Always, Types, Labels, Alone, Running
    <3>1. Alone'
      BY <1>1, <2>0, <3>0, <3>r DEF SendInv, Always, Types, RecordShape, RequestShape,
         Alone, OnTheWay, PaidIsRecorded, FailureUnpaid, Unpaid, FailedReleased,
         BeforeSend, BeforeRow, AfterHold, Labels, Running, NoRecord, NoTx, NoOp, Ops
    <3>2. OnTheWay'
      BY <1>1, <2>0, <3>0, <3>r DEF SendInv, Always, Types, RecordShape, RequestShape,
         Alone, OnTheWay, PaidIsRecorded, FailureUnpaid, Unpaid, FailedReleased,
         BeforeSend, BeforeRow, AfterHold, Labels, Running, NoRecord, NoTx, NoOp, Ops
    <3>3. PaidIsRecorded'
      BY <1>1, <2>0, <3>0, <3>r DEF SendInv, Always, Types, RecordShape, RequestShape,
         Alone, OnTheWay, PaidIsRecorded, FailureUnpaid, Unpaid, FailedReleased,
         BeforeSend, BeforeRow, AfterHold, Labels, Running, NoRecord, NoTx, NoOp, Ops
    <3>4. FailureUnpaid'
      <4> SUFFICES ASSUME NEW s \in Requests PROVE Unpaid(s)'
        BY DEF FailureUnpaid
      <4>1. CASE s = r
        BY <1>1, <2>0, <3>0, <3>r, <4>1 DEF SendInv, Always, Types, RequestShape, OnTheWay,
           PaidIsRecorded, FailureUnpaid, Unpaid, BeforeSend, BeforeRow, AfterHold, Labels,
           Running, NoRecord, NoTx, NoOp, Ops
      <4>2. CASE s # r
        BY <1>1, <3>r, <4>2 DEF SendInv, Always, Types, Unpaid, Running, BeforeRow
      <4>3. QED
        BY <4>1, <4>2
    <3>5. FailedReleased'
      BY <1>1, <2>0, <3>0, <3>r DEF SendInv, Always, Types, RecordShape, RequestShape,
         Alone, OnTheWay, PaidIsRecorded, FailureUnpaid, Unpaid, FailedReleased,
         BeforeSend, BeforeRow, AfterHold, Labels, Running, NoRecord, NoTx, NoOp, Ops
    <3>6. QED
      BY <3>1, <3>2, <3>3, <3>4, <3>5
  <2>3. Clean'
    <3> SUFFICES ASSUME (faulted = {})' PROVE (NoThief /\ Reserved)'
      BY DEF Clean
    <3>0. /\ NoThief /\ Reserved /\ faulted = {}
          /\ Alone /\ OnTheWay /\ PaidIsRecorded /\ FailureUnpaid
      BY <1>1 DEF SendInv, Exclusive, Quiet, Clean
    <3>r. \A s \in Requests : s # r =>
             s \notin wire /\ pc[s] \in {"idle", "steal", "done", "crashed"}
      BY <1>1, <3>0 DEF SendInv, Always, Types, Labels, Alone, Running
    <3>1. NoThief'
      BY <1>1, <2>0, <3>0, <3>r DEF SendInv, Always, Types, RecordShape, RequestShape,
         Alone, OnTheWay, PaidIsRecorded, FailureUnpaid, Unpaid, NoThief, Reserved,
         PaidIsReserved, AcceptedIsLinked, BeforeSend, BeforeRow, AfterHold, Labels,
         Running, NoRecord, NoTx, NoOp, Ops
    <3>2. Reserved'
      <4>1. wire = {} /\ \A s \in Requests : pc'[s] \notin AfterHold \cup {"record", "complete"}
        BY <1>1, <3>0, <3>r DEF SendInv, Always, Types, OnTheWay, AfterHold
      <4>2. PaidIsReserved'
        BY <1>1, <2>0, <3>0 DEF SendInv, Always, Types, FailureUnpaid, Unpaid, Reserved,
           PaidIsReserved
      <4>3. AcceptedIsLinked'
        BY <1>1, <3>0 DEF Reserved, AcceptedIsLinked
      <4>4. QED
        BY <1>1, <4>1, <4>2, <4>3 DEF Reserved, AfterHold
    <3>3. QED
      BY <3>1, <3>2
  <2>4. QED
    BY <2>1, <2>2, <2>3 DEF SendInv
<1>2. QED
  BY <1>1 DEF Void, Goto, world, SendInv, Always, Types, RecordShape, NoOp

LEMMA CompleteStep ==
    ASSUME SendInv, NEW r \in Requests, Complete(r)
    PROVE  SendInv'
<1>1. ASSUME pc[r] = "complete",
           record.op = op[r],
           answer' = [answer EXCEPT ![r] = "accepted"],
           pc' = [pc EXCEPT ![r] = "done"],
           record' = [op |-> op[r], state |-> "COMPLETED", leased |-> FALSE],
           UNCHANGED <<minted, op, reconcile, error, linked, hold, tx, operation, 
                        wire, paid, reply, faulted>>
      PROVE  SendInv'
  <2>0. op[r] \in Ops /\ op[r] \in 1..minted
    BY <1>1, WorksUnderMinted DEF Running
  <2>1. Always'
    <3>1. Types'
      BY <1>1, <2>0, PixSendAssumption DEF SendInv, Always, Types, RecordShape,
         RequestShape, Untouched, LedgerKnowsEveryPayment, BeforeSend, BeforeRow,
         AfterHold, Labels, Running, NoRecord, NoTx, NoOp, Ops
    <3>2. RecordShape'
      BY <1>1, <2>0, PixSendAssumption DEF SendInv, Always, Types, RecordShape,
         RequestShape, Untouched, LedgerKnowsEveryPayment, BeforeSend, BeforeRow,
         AfterHold, Labels, Running, NoRecord, NoTx, NoOp, Ops
    <3>3. RequestShape'
      BY <1>1, <2>0, PixSendAssumption DEF SendInv, Always, Types, RecordShape,
         RequestShape, Untouched, LedgerKnowsEveryPayment, BeforeSend, BeforeRow,
         AfterHold, Labels, Running, NoRecord, NoTx, NoOp, Ops
    <3>4. Untouched'
      <4>1. \A o \in Ops : o > minted => o # op[r]
        BY <2>0, PixSendAssumption DEF SendInv, Always, Types, Ops
      <4>2. QED
        BY <1>1, <2>0, <4>1 DEF SendInv, Always, Types, Untouched
    <3>5. LedgerKnowsEveryPayment'
      BY <1>1, <2>0, PixSendAssumption DEF SendInv, Always, Types, RecordShape,
         RequestShape, Untouched, LedgerKnowsEveryPayment, BeforeSend, BeforeRow,
         AfterHold, Labels, Running, NoRecord, NoTx, NoOp, Ops
    <3>6. QED
      BY <3>1, <3>2, <3>3, <3>4, <3>5 DEF Always
  <2>2. Exclusive'
    <3> SUFFICES ASSUME Quiet'
        PROVE  (Alone /\ OnTheWay /\ PaidIsRecorded /\ FailureUnpaid /\ FailedReleased)'
      BY DEF Exclusive
    <3>0. Alone /\ OnTheWay /\ PaidIsRecorded /\ FailureUnpaid /\ FailedReleased
      BY <1>1 DEF SendInv, Exclusive, Quiet
    <3>r. \A s \in Requests : s # r =>
             s \notin wire /\ pc[s] \in {"idle", "steal", "done", "crashed"}
      BY <1>1, <3>0 DEF SendInv, Always, Types, Labels, Alone, Running
    <3>1. Alone'
      BY <1>1, <2>0, <3>0, <3>r DEF SendInv, Always, Types, RecordShape, RequestShape,
         Alone, OnTheWay, PaidIsRecorded, FailureUnpaid, Unpaid, FailedReleased,
         BeforeSend, BeforeRow, AfterHold, Labels, Running, NoRecord, NoTx, NoOp, Ops
    <3>2. OnTheWay'
      BY <1>1, <2>0, <3>0, <3>r DEF SendInv, Always, Types, RecordShape, RequestShape,
         Alone, OnTheWay, PaidIsRecorded, FailureUnpaid, Unpaid, FailedReleased,
         BeforeSend, BeforeRow, AfterHold, Labels, Running, NoRecord, NoTx, NoOp, Ops
    <3>3. PaidIsRecorded'
      BY <1>1, <2>0, <3>0, <3>r DEF SendInv, Always, Types, RecordShape, RequestShape,
         Alone, OnTheWay, PaidIsRecorded, FailureUnpaid, Unpaid, FailedReleased,
         BeforeSend, BeforeRow, AfterHold, Labels, Running, NoRecord, NoTx, NoOp, Ops
    <3>4. FailureUnpaid'
      <4> SUFFICES ASSUME NEW s \in Requests PROVE Unpaid(s)'
        BY DEF FailureUnpaid
      <4>1. CASE s = r
        BY <1>1, <2>0, <3>0, <3>r, <4>1 DEF SendInv, Always, Types, RequestShape, OnTheWay,
           PaidIsRecorded, FailureUnpaid, Unpaid, BeforeSend, BeforeRow, AfterHold, Labels,
           Running, NoRecord, NoTx, NoOp, Ops
      <4>2. CASE s # r
        BY <1>1, <3>r, <4>2 DEF SendInv, Always, Types, Unpaid, Running, BeforeRow
      <4>3. QED
        BY <4>1, <4>2
    <3>5. FailedReleased'
      BY <1>1, <2>0, <3>0, <3>r DEF SendInv, Always, Types, RecordShape, RequestShape,
         Alone, OnTheWay, PaidIsRecorded, FailureUnpaid, Unpaid, FailedReleased,
         BeforeSend, BeforeRow, AfterHold, Labels, Running, NoRecord, NoTx, NoOp, Ops
    <3>6. QED
      BY <3>1, <3>2, <3>3, <3>4, <3>5
  <2>3. Clean'
    BY <1>1, PixSendAssumption DEF SendInv, Always, Types, RecordShape, RequestShape,
       Untouched, LedgerKnowsEveryPayment, Exclusive, Quiet, Alone, OnTheWay,
       PaidIsRecorded, FailureUnpaid, Unpaid, FailedReleased, Clean, NoThief, Reserved,
       PaidIsReserved, AcceptedIsLinked, BeforeSend, BeforeRow, AfterHold, Labels, Running,
       NoRecord, NoTx, NoOp, Ops
  <2>4. QED
    BY <2>1, <2>2, <2>3 DEF SendInv
<1>2. ASSUME pc[r] = "complete",
           record.op # op[r],
           answer' = [answer EXCEPT ![r] = "error"],
           pc' = [pc EXCEPT ![r] = "done"],
           UNCHANGED <<record, minted, op, reconcile, error, linked, hold, tx, 
                        operation, wire, paid, reply, faulted>>
      PROVE  SendInv'
  <2>1. Always'
    BY <1>2, PixSendAssumption DEF SendInv, Always, Types, RecordShape, RequestShape,
       Untouched, LedgerKnowsEveryPayment, BeforeSend, BeforeRow, AfterHold, Labels,
       Running, NoRecord, NoTx, NoOp, Ops
  <2>2. Exclusive'
    BY <1>2, PixSendAssumption DEF SendInv, Always, Types, RecordShape, RequestShape,
       Untouched, LedgerKnowsEveryPayment, Exclusive, Quiet, Alone, OnTheWay,
       PaidIsRecorded, FailureUnpaid, Unpaid, FailedReleased, BeforeSend, BeforeRow,
       AfterHold, Labels, Running, NoRecord, NoTx, NoOp, Ops
  <2>3. Clean'
    BY <1>2, PixSendAssumption DEF SendInv, Always, Types, RecordShape, RequestShape,
       Untouched, LedgerKnowsEveryPayment, Exclusive, Quiet, Alone, OnTheWay,
       PaidIsRecorded, FailureUnpaid, Unpaid, FailedReleased, Clean, NoThief, Reserved,
       PaidIsReserved, AcceptedIsLinked, BeforeSend, BeforeRow, AfterHold, Labels, Running,
       NoRecord, NoTx, NoOp, Ops
  <2>4. QED
    BY <2>1, <2>2, <2>3 DEF SendInv
<1>3. QED
  BY <1>1, <1>2 DEF Complete, Answered, Goto, world, SendInv, Always, Types, RecordShape,
     NoOp

LEMMA KeepFailureStep ==
    ASSUME SendInv, NEW r \in Requests, KeepFailure(r)
    PROVE  SendInv'
<1>1. ASSUME pc[r] = "failed",
           record.op = op[r],
           answer' = [answer EXCEPT ![r] = "refused"],
           pc' = [pc EXCEPT ![r] = "done"],
           record' = [op |-> op[r], state |-> "FAILED", leased |-> FALSE],
           UNCHANGED <<minted, op, reconcile, error, linked, hold, tx, operation, 
                        wire, paid, reply, faulted>>
      PROVE  SendInv'
  <2>0. op[r] \in Ops /\ op[r] \in 1..minted
    BY <1>1, WorksUnderMinted DEF Running
  <2>1. Always'
    <3>1. Types'
      BY <1>1, <2>0, PixSendAssumption DEF SendInv, Always, Types, RecordShape,
         RequestShape, Untouched, LedgerKnowsEveryPayment, BeforeSend, BeforeRow,
         AfterHold, Labels, Running, NoRecord, NoTx, NoOp, Ops
    <3>2. RecordShape'
      BY <1>1, <2>0, PixSendAssumption DEF SendInv, Always, Types, RecordShape,
         RequestShape, Untouched, LedgerKnowsEveryPayment, BeforeSend, BeforeRow,
         AfterHold, Labels, Running, NoRecord, NoTx, NoOp, Ops
    <3>3. RequestShape'
      BY <1>1, <2>0, PixSendAssumption DEF SendInv, Always, Types, RecordShape,
         RequestShape, Untouched, LedgerKnowsEveryPayment, BeforeSend, BeforeRow,
         AfterHold, Labels, Running, NoRecord, NoTx, NoOp, Ops
    <3>4. Untouched'
      <4>1. \A o \in Ops : o > minted => o # op[r]
        BY <2>0, PixSendAssumption DEF SendInv, Always, Types, Ops
      <4>2. QED
        BY <1>1, <2>0, <4>1 DEF SendInv, Always, Types, Untouched
    <3>5. LedgerKnowsEveryPayment'
      BY <1>1, <2>0, PixSendAssumption DEF SendInv, Always, Types, RecordShape,
         RequestShape, Untouched, LedgerKnowsEveryPayment, BeforeSend, BeforeRow,
         AfterHold, Labels, Running, NoRecord, NoTx, NoOp, Ops
    <3>6. QED
      BY <3>1, <3>2, <3>3, <3>4, <3>5 DEF Always
  <2>2. Exclusive'
    <3> SUFFICES ASSUME Quiet'
        PROVE  (Alone /\ OnTheWay /\ PaidIsRecorded /\ FailureUnpaid /\ FailedReleased)'
      BY DEF Exclusive
    <3>0. Alone /\ OnTheWay /\ PaidIsRecorded /\ FailureUnpaid /\ FailedReleased
      BY <1>1 DEF SendInv, Exclusive, Quiet
    <3>r. \A s \in Requests : s # r =>
             s \notin wire /\ pc[s] \in {"idle", "steal", "done", "crashed"}
      BY <1>1, <3>0 DEF SendInv, Always, Types, Labels, Alone, Running
    <3>1. Alone'
      BY <1>1, <2>0, <3>0, <3>r DEF SendInv, Always, Types, RecordShape, RequestShape,
         Alone, OnTheWay, PaidIsRecorded, FailureUnpaid, Unpaid, FailedReleased,
         BeforeSend, BeforeRow, AfterHold, Labels, Running, NoRecord, NoTx, NoOp, Ops
    <3>2. OnTheWay'
      BY <1>1, <2>0, <3>0, <3>r DEF SendInv, Always, Types, RecordShape, RequestShape,
         Alone, OnTheWay, PaidIsRecorded, FailureUnpaid, Unpaid, FailedReleased,
         BeforeSend, BeforeRow, AfterHold, Labels, Running, NoRecord, NoTx, NoOp, Ops
    <3>3. PaidIsRecorded'
      BY <1>1, <2>0, <3>0, <3>r DEF SendInv, Always, Types, RecordShape, RequestShape,
         Alone, OnTheWay, PaidIsRecorded, FailureUnpaid, Unpaid, FailedReleased,
         BeforeSend, BeforeRow, AfterHold, Labels, Running, NoRecord, NoTx, NoOp, Ops
    <3>4. FailureUnpaid'
      <4> SUFFICES ASSUME NEW s \in Requests PROVE Unpaid(s)'
        BY DEF FailureUnpaid
      <4>1. CASE s = r
        BY <1>1, <2>0, <3>0, <3>r, <4>1 DEF SendInv, Always, Types, RequestShape, OnTheWay,
           PaidIsRecorded, FailureUnpaid, Unpaid, BeforeSend, BeforeRow, AfterHold, Labels,
           Running, NoRecord, NoTx, NoOp, Ops
      <4>2. CASE s # r
        BY <1>1, <3>r, <4>2 DEF SendInv, Always, Types, Unpaid, Running, BeforeRow
      <4>3. QED
        BY <4>1, <4>2
    <3>5. FailedReleased'
      BY <1>1, <2>0, <3>0, <3>r DEF SendInv, Always, Types, RecordShape, RequestShape,
         Alone, OnTheWay, PaidIsRecorded, FailureUnpaid, Unpaid, FailedReleased,
         BeforeSend, BeforeRow, AfterHold, Labels, Running, NoRecord, NoTx, NoOp, Ops
    <3>6. QED
      BY <3>1, <3>2, <3>3, <3>4, <3>5
  <2>3. Clean'
    BY <1>1, PixSendAssumption DEF SendInv, Always, Types, RecordShape, RequestShape,
       Untouched, LedgerKnowsEveryPayment, Exclusive, Quiet, Alone, OnTheWay,
       PaidIsRecorded, FailureUnpaid, Unpaid, FailedReleased, Clean, NoThief, Reserved,
       PaidIsReserved, AcceptedIsLinked, BeforeSend, BeforeRow, AfterHold, Labels, Running,
       NoRecord, NoTx, NoOp, Ops
  <2>4. QED
    BY <2>1, <2>2, <2>3 DEF SendInv
<1>2. ASSUME pc[r] = "failed",
           record.op # op[r],
           answer' = [answer EXCEPT ![r] = "error"],
           pc' = [pc EXCEPT ![r] = "done"],
           UNCHANGED <<record, minted, op, reconcile, error, linked, hold, tx, 
                        operation, wire, paid, reply, faulted>>
      PROVE  SendInv'
  <2>1. Always'
    BY <1>2, PixSendAssumption DEF SendInv, Always, Types, RecordShape, RequestShape,
       Untouched, LedgerKnowsEveryPayment, BeforeSend, BeforeRow, AfterHold, Labels,
       Running, NoRecord, NoTx, NoOp, Ops
  <2>2. Exclusive'
    BY <1>2, PixSendAssumption DEF SendInv, Always, Types, RecordShape, RequestShape,
       Untouched, LedgerKnowsEveryPayment, Exclusive, Quiet, Alone, OnTheWay,
       PaidIsRecorded, FailureUnpaid, Unpaid, FailedReleased, BeforeSend, BeforeRow,
       AfterHold, Labels, Running, NoRecord, NoTx, NoOp, Ops
  <2>3. Clean'
    BY <1>2, PixSendAssumption DEF SendInv, Always, Types, RecordShape, RequestShape,
       Untouched, LedgerKnowsEveryPayment, Exclusive, Quiet, Alone, OnTheWay,
       PaidIsRecorded, FailureUnpaid, Unpaid, FailedReleased, Clean, NoThief, Reserved,
       PaidIsReserved, AcceptedIsLinked, BeforeSend, BeforeRow, AfterHold, Labels, Running,
       NoRecord, NoTx, NoOp, Ops
  <2>4. QED
    BY <2>1, <2>2, <2>3 DEF SendInv
<1>3. QED
  BY <1>1, <1>2 DEF KeepFailure, Answered, Goto, world, SendInv, Always, Types,
     RecordShape, NoOp

LEMMA ReleaseStep ==
    ASSUME SendInv, NEW r \in Requests, Release(r)
    PROVE  SendInv'
<1>1. ASSUME pc[r] = "failed",
           record.op = op[r],
           answer' = [answer EXCEPT ![r] = "error"],
           pc' = [pc EXCEPT ![r] = "done"],
           record' = NoRecord,
           UNCHANGED <<minted, op, reconcile, error, linked, hold, tx, operation, 
                        wire, paid, reply, faulted>>
      PROVE  SendInv'
  <2>0. op[r] \in Ops /\ op[r] \in 1..minted
    BY <1>1, WorksUnderMinted DEF Running
  <2>1. Always'
    BY <1>1, PixSendAssumption DEF SendInv, Always, Types, RecordShape, RequestShape,
       Untouched, LedgerKnowsEveryPayment, BeforeSend, BeforeRow, AfterHold, Labels,
       Running, NoRecord, NoTx, NoOp, Ops
  <2>2. Exclusive'
    <3> SUFFICES ASSUME Quiet'
        PROVE  (Alone /\ OnTheWay /\ PaidIsRecorded /\ FailureUnpaid /\ FailedReleased)'
      BY DEF Exclusive
    <3>0. Alone /\ OnTheWay /\ PaidIsRecorded /\ FailureUnpaid /\ FailedReleased
      BY <1>1 DEF SendInv, Exclusive, Quiet
    <3>r. \A s \in Requests : s # r =>
             s \notin wire /\ pc[s] \in {"idle", "steal", "done", "crashed"}
      BY <1>1, <3>0 DEF SendInv, Always, Types, Labels, Alone, Running
    <3>1. Alone'
      BY <1>1, <2>0, <3>0, <3>r DEF SendInv, Always, Types, RecordShape, RequestShape,
         Alone, OnTheWay, PaidIsRecorded, FailureUnpaid, Unpaid, FailedReleased,
         BeforeSend, BeforeRow, AfterHold, Labels, Running, NoRecord, NoTx, NoOp, Ops
    <3>2. OnTheWay'
      BY <1>1, <2>0, <3>0, <3>r DEF SendInv, Always, Types, RecordShape, RequestShape,
         Alone, OnTheWay, PaidIsRecorded, FailureUnpaid, Unpaid, FailedReleased,
         BeforeSend, BeforeRow, AfterHold, Labels, Running, NoRecord, NoTx, NoOp, Ops
    <3>3. PaidIsRecorded'
      BY <1>1, <2>0, <3>0, <3>r DEF SendInv, Always, Types, RecordShape, RequestShape,
         Alone, OnTheWay, PaidIsRecorded, FailureUnpaid, Unpaid, FailedReleased,
         BeforeSend, BeforeRow, AfterHold, Labels, Running, NoRecord, NoTx, NoOp, Ops
    <3>4. FailureUnpaid'
      <4> SUFFICES ASSUME NEW s \in Requests PROVE Unpaid(s)'
        BY DEF FailureUnpaid
      <4>1. CASE s = r
        BY <1>1, <2>0, <3>0, <3>r, <4>1 DEF SendInv, Always, Types, RequestShape, OnTheWay,
           PaidIsRecorded, FailureUnpaid, Unpaid, BeforeSend, BeforeRow, AfterHold, Labels,
           Running, NoRecord, NoTx, NoOp, Ops
      <4>2. CASE s # r
        BY <1>1, <3>r, <4>2 DEF SendInv, Always, Types, Unpaid, Running, BeforeRow
      <4>3. QED
        BY <4>1, <4>2
    <3>5. FailedReleased'
      BY <1>1, <2>0, <3>0, <3>r DEF SendInv, Always, Types, RecordShape, RequestShape,
         Alone, OnTheWay, PaidIsRecorded, FailureUnpaid, Unpaid, FailedReleased,
         BeforeSend, BeforeRow, AfterHold, Labels, Running, NoRecord, NoTx, NoOp, Ops
    <3>6. QED
      BY <3>1, <3>2, <3>3, <3>4, <3>5
  <2>3. Clean'
    BY <1>1, PixSendAssumption DEF SendInv, Always, Types, RecordShape, RequestShape,
       Untouched, LedgerKnowsEveryPayment, Exclusive, Quiet, Alone, OnTheWay,
       PaidIsRecorded, FailureUnpaid, Unpaid, FailedReleased, Clean, NoThief, Reserved,
       PaidIsReserved, AcceptedIsLinked, BeforeSend, BeforeRow, AfterHold, Labels, Running,
       NoRecord, NoTx, NoOp, Ops
  <2>4. QED
    BY <2>1, <2>2, <2>3 DEF SendInv
<1>2. ASSUME pc[r] = "failed",
           record.op # op[r],
           answer' = [answer EXCEPT ![r] = "error"],
           pc' = [pc EXCEPT ![r] = "done"],
           UNCHANGED <<record, minted, op, reconcile, error, linked, hold, tx, 
                        operation, wire, paid, reply, faulted>>
      PROVE  SendInv'
  <2>1. Always'
    BY <1>2, PixSendAssumption DEF SendInv, Always, Types, RecordShape, RequestShape,
       Untouched, LedgerKnowsEveryPayment, BeforeSend, BeforeRow, AfterHold, Labels,
       Running, NoRecord, NoTx, NoOp, Ops
  <2>2. Exclusive'
    BY <1>2, PixSendAssumption DEF SendInv, Always, Types, RecordShape, RequestShape,
       Untouched, LedgerKnowsEveryPayment, Exclusive, Quiet, Alone, OnTheWay,
       PaidIsRecorded, FailureUnpaid, Unpaid, FailedReleased, BeforeSend, BeforeRow,
       AfterHold, Labels, Running, NoRecord, NoTx, NoOp, Ops
  <2>3. Clean'
    BY <1>2, PixSendAssumption DEF SendInv, Always, Types, RecordShape, RequestShape,
       Untouched, LedgerKnowsEveryPayment, Exclusive, Quiet, Alone, OnTheWay,
       PaidIsRecorded, FailureUnpaid, Unpaid, FailedReleased, Clean, NoThief, Reserved,
       PaidIsReserved, AcceptedIsLinked, BeforeSend, BeforeRow, AfterHold, Labels, Running,
       NoRecord, NoTx, NoOp, Ops
  <2>4. QED
    BY <2>1, <2>2, <2>3 DEF SendInv
<1>3. QED
  BY <1>1, <1>2 DEF Release, Answered, Goto, world, SendInv, Always, Types, RecordShape,
     NoOp

LEMMA CrashStep ==
    ASSUME SendInv, NEW r \in Requests, Crash(r)
    PROVE  SendInv'
<1>1. ASSUME Running(r),
           "crash" \in Faults,
           pc' = [pc EXCEPT ![r] = "crashed"],
           faulted' = faulted \cup {"crash"},
           UNCHANGED <<record, minted, op, reconcile, error, linked, answer, hold, tx, 
                        operation, wire, paid, reply>>
      PROVE  SendInv'
  <2>1. Always'
    BY <1>1, PixSendAssumption DEF SendInv, Always, Types, RecordShape, RequestShape,
       Untouched, LedgerKnowsEveryPayment, BeforeSend, BeforeRow, AfterHold, Labels,
       Running, NoRecord, NoTx, NoOp, Ops
  <2>2. Exclusive'
    BY <1>1, PixSendAssumption DEF SendInv, Always, Types, RecordShape, RequestShape,
       Untouched, LedgerKnowsEveryPayment, Exclusive, Quiet, Alone, OnTheWay,
       PaidIsRecorded, FailureUnpaid, Unpaid, FailedReleased, BeforeSend, BeforeRow,
       AfterHold, Labels, Running, NoRecord, NoTx, NoOp, Ops
  <2>3. Clean'
    BY <1>1, PixSendAssumption DEF SendInv, Always, Types, RecordShape, RequestShape,
       Untouched, LedgerKnowsEveryPayment, Exclusive, Quiet, Alone, OnTheWay,
       PaidIsRecorded, FailureUnpaid, Unpaid, FailedReleased, Clean, NoThief, Reserved,
       PaidIsReserved, AcceptedIsLinked, BeforeSend, BeforeRow, AfterHold, Labels, Running,
       NoRecord, NoTx, NoOp, Ops
  <2>4. QED
    BY <2>1, <2>2, <2>3 DEF SendInv
<1>2. QED
  BY <1>1 DEF Crash, Happens, Goto, world, SendInv, Always, Types, RecordShape, NoOp

LEMMA DatabaseFailsStep ==
    ASSUME SendInv, NEW r \in Requests, DatabaseFails(r)
    PROVE  SendInv'
<1>1. ASSUME pc[r] \in {"findLocal", "authorize", "record", "recordUnknown", "createOperation",
                     "void", "complete"},
           "database" \in Faults,
           error' = [error EXCEPT ![r] = "transient"],
           pc' = [pc EXCEPT ![r] = "failed"],
           faulted' = faulted \cup {"database"},
           UNCHANGED <<record, minted, op, reconcile, linked, answer, hold, tx, 
                        operation, wire, paid, reply>>
      PROVE  SendInv'
  <2>1. Always'
    BY <1>1, PixSendAssumption DEF SendInv, Always, Types, RecordShape, RequestShape,
       Untouched, LedgerKnowsEveryPayment, BeforeSend, BeforeRow, AfterHold, Labels,
       Running, NoRecord, NoTx, NoOp, Ops
  <2>2. Exclusive'
    BY <1>1, PixSendAssumption DEF SendInv, Always, Types, RecordShape, RequestShape,
       Untouched, LedgerKnowsEveryPayment, Exclusive, Quiet, Alone, OnTheWay,
       PaidIsRecorded, FailureUnpaid, Unpaid, FailedReleased, BeforeSend, BeforeRow,
       AfterHold, Labels, Running, NoRecord, NoTx, NoOp, Ops
  <2>3. Clean'
    BY <1>1, PixSendAssumption DEF SendInv, Always, Types, RecordShape, RequestShape,
       Untouched, LedgerKnowsEveryPayment, Exclusive, Quiet, Alone, OnTheWay,
       PaidIsRecorded, FailureUnpaid, Unpaid, FailedReleased, Clean, NoThief, Reserved,
       PaidIsReserved, AcceptedIsLinked, BeforeSend, BeforeRow, AfterHold, Labels, Running,
       NoRecord, NoTx, NoOp, Ops
  <2>4. QED
    BY <2>1, <2>2, <2>3 DEF SendInv
<1>2. QED
  BY <1>1 DEF DatabaseFails, Happens, Throw, Goto, world, SendInv, Always, Types,
     RecordShape, NoOp

LEMMA RecordNotUpdatedStep ==
    ASSUME SendInv, NEW r \in Requests, RecordNotUpdated(r)
    PROVE  SendInv'
<1>1. ASSUME pc[r] = "failed",
           "database" \in Faults,
           answer' = [answer EXCEPT ![r] = "error"],
           pc' = [pc EXCEPT ![r] = "done"],
           faulted' = faulted \cup {"database"},
           UNCHANGED <<record, minted, op, reconcile, error, linked, hold, tx, 
                        operation, wire, paid, reply>>
      PROVE  SendInv'
  <2>1. Always'
    BY <1>1, PixSendAssumption DEF SendInv, Always, Types, RecordShape, RequestShape,
       Untouched, LedgerKnowsEveryPayment, BeforeSend, BeforeRow, AfterHold, Labels,
       Running, NoRecord, NoTx, NoOp, Ops
  <2>2. Exclusive'
    BY <1>1, PixSendAssumption DEF SendInv, Always, Types, RecordShape, RequestShape,
       Untouched, LedgerKnowsEveryPayment, Exclusive, Quiet, Alone, OnTheWay,
       PaidIsRecorded, FailureUnpaid, Unpaid, FailedReleased, BeforeSend, BeforeRow,
       AfterHold, Labels, Running, NoRecord, NoTx, NoOp, Ops
  <2>3. Clean'
    BY <1>1, PixSendAssumption DEF SendInv, Always, Types, RecordShape, RequestShape,
       Untouched, LedgerKnowsEveryPayment, Exclusive, Quiet, Alone, OnTheWay,
       PaidIsRecorded, FailureUnpaid, Unpaid, FailedReleased, Clean, NoThief, Reserved,
       PaidIsReserved, AcceptedIsLinked, BeforeSend, BeforeRow, AfterHold, Labels, Running,
       NoRecord, NoTx, NoOp, Ops
  <2>4. QED
    BY <2>1, <2>2, <2>3 DEF SendInv
<1>2. QED
  BY <1>1 DEF RecordNotUpdated, Happens, Answered, Goto, world, SendInv, Always, Types,
     RecordShape, NoOp

LEMMA ProviderExecutesStep ==
    ASSUME SendInv, NEW r \in Requests, ProviderExecutes(r)
    PROVE  SendInv'
<1>1. ASSUME r \in wire,
           wire' = wire \ {r},
           paid' = paid \cup {op[r]},
           reply' = [reply EXCEPT ![r] = "ok"],
           UNCHANGED <<record, minted, pc, op, reconcile, error, linked, answer, hold, 
                        tx, operation, faulted>>
      PROVE  SendInv'
  <2>0. op[r] \in Ops /\ op[r] \in 1..minted
    BY <1>1, WorksUnderMinted DEF Running
  <2>1. Always'
    <3>1. Types'
      BY ZenonT(60), <1>1, <2>0, PixSendAssumption DEF SendInv, Always, Types, RecordShape,
         RequestShape, Untouched, LedgerKnowsEveryPayment, BeforeSend, BeforeRow,
         AfterHold, Labels, Running, NoRecord, NoTx, NoOp, Ops
    <3>2. RecordShape'
      BY <1>1, <2>0, PixSendAssumption DEF SendInv, Always, Types, RecordShape,
         RequestShape, Untouched, LedgerKnowsEveryPayment, BeforeSend, BeforeRow,
         AfterHold, Labels, Running, NoRecord, NoTx, NoOp, Ops
    <3>3. RequestShape'
      BY <1>1, <2>0, PixSendAssumption DEF SendInv, Always, Types, RecordShape,
         RequestShape, Untouched, LedgerKnowsEveryPayment, BeforeSend, BeforeRow,
         AfterHold, Labels, Running, NoRecord, NoTx, NoOp, Ops
    <3>4. Untouched'
      <4>1. \A o \in Ops : o > minted => o # op[r]
        BY <2>0, PixSendAssumption DEF SendInv, Always, Types, Ops
      <4>2. QED
        BY <1>1, <2>0, <4>1 DEF SendInv, Always, Types, Untouched
    <3>5. LedgerKnowsEveryPayment'
      BY <1>1, <2>0, PixSendAssumption DEF SendInv, Always, Types, RecordShape,
         RequestShape, Untouched, LedgerKnowsEveryPayment, BeforeSend, BeforeRow,
         AfterHold, Labels, Running, NoRecord, NoTx, NoOp, Ops
    <3>6. QED
      BY <3>1, <3>2, <3>3, <3>4, <3>5 DEF Always
  <2>2. Exclusive'
    <3> SUFFICES ASSUME Quiet'
        PROVE  (Alone /\ OnTheWay /\ PaidIsRecorded /\ FailureUnpaid /\ FailedReleased)'
      BY DEF Exclusive
    <3>0. Alone /\ OnTheWay /\ PaidIsRecorded /\ FailureUnpaid /\ FailedReleased
      BY <1>1 DEF SendInv, Exclusive, Quiet
    <3>r. \A s \in Requests : s # r => pc[s] \in {"idle", "steal", "done", "crashed"}
      BY <1>1, <3>0 DEF SendInv, Always, Types, Labels, Alone, Running
    <3>1. Alone'
      BY <1>1, <2>0, <3>0, <3>r DEF SendInv, Always, Types, RecordShape, RequestShape,
         Alone, OnTheWay, PaidIsRecorded, FailureUnpaid, Unpaid, FailedReleased,
         BeforeSend, BeforeRow, AfterHold, Labels, Running, NoRecord, NoTx, NoOp, Ops
    <3>2. OnTheWay'
      BY <1>1, <2>0, <3>0, <3>r DEF SendInv, Always, Types, RecordShape, RequestShape,
         Alone, OnTheWay, PaidIsRecorded, FailureUnpaid, Unpaid, FailedReleased,
         BeforeSend, BeforeRow, AfterHold, Labels, Running, NoRecord, NoTx, NoOp, Ops
    <3>3. PaidIsRecorded'
      BY <1>1, <2>0, <3>0, <3>r DEF SendInv, Always, Types, RecordShape, RequestShape,
         Alone, OnTheWay, PaidIsRecorded, FailureUnpaid, Unpaid, FailedReleased,
         BeforeSend, BeforeRow, AfterHold, Labels, Running, NoRecord, NoTx, NoOp, Ops
    <3>4. FailureUnpaid'
      <4> SUFFICES ASSUME NEW s \in Requests PROVE Unpaid(s)'
        BY DEF FailureUnpaid
      <4>1. CASE s = r
        BY <1>1, <2>0, <3>0, <3>r, <4>1 DEF SendInv, Always, Types, OnTheWay,
           FailureUnpaid, Unpaid, BeforeRow
      <4>2. CASE s # r
        BY <1>1, <3>r, <4>2 DEF SendInv, Always, Types, Unpaid, Running, BeforeRow
      <4>3. QED
        BY <4>1, <4>2
    <3>5. FailedReleased'
      BY <1>1, <2>0, <3>0, <3>r DEF SendInv, Always, Types, RecordShape, RequestShape,
         Alone, OnTheWay, PaidIsRecorded, FailureUnpaid, Unpaid, FailedReleased,
         BeforeSend, BeforeRow, AfterHold, Labels, Running, NoRecord, NoTx, NoOp, Ops
    <3>6. QED
      BY <3>1, <3>2, <3>3, <3>4, <3>5
  <2>3. Clean'
    BY <1>1, PixSendAssumption DEF SendInv, Always, Types, RecordShape, RequestShape,
       Untouched, LedgerKnowsEveryPayment, Exclusive, Quiet, Alone, OnTheWay,
       PaidIsRecorded, FailureUnpaid, Unpaid, FailedReleased, Clean, NoThief, Reserved,
       PaidIsReserved, AcceptedIsLinked, BeforeSend, BeforeRow, AfterHold, Labels, Running,
       NoRecord, NoTx, NoOp, Ops
  <2>4. QED
    BY <2>1, <2>2, <2>3 DEF SendInv
<1>2. ASSUME r \in wire,
           "5xx" \in Faults,
           wire' = wire \ {r},
           paid' = paid \cup {op[r]},
           reply' = [reply EXCEPT ![r] = "transient"],
           faulted' = faulted \cup {"5xx"},
           UNCHANGED <<record, minted, pc, op, reconcile, error, linked, answer, hold, 
                        tx, operation>>
      PROVE  SendInv'
  <2>0. op[r] \in Ops /\ op[r] \in 1..minted
    BY <1>2, WorksUnderMinted DEF Running
  <2>1. Always'
    <3>1. Types'
      BY ZenonT(60), <1>2, <2>0, PixSendAssumption DEF SendInv, Always, Types, RecordShape,
         RequestShape, Untouched, LedgerKnowsEveryPayment, BeforeSend, BeforeRow,
         AfterHold, Labels, Running, NoRecord, NoTx, NoOp, Ops
    <3>2. RecordShape'
      BY <1>2, <2>0, PixSendAssumption DEF SendInv, Always, Types, RecordShape,
         RequestShape, Untouched, LedgerKnowsEveryPayment, BeforeSend, BeforeRow,
         AfterHold, Labels, Running, NoRecord, NoTx, NoOp, Ops
    <3>3. RequestShape'
      BY <1>2, <2>0, PixSendAssumption DEF SendInv, Always, Types, RecordShape,
         RequestShape, Untouched, LedgerKnowsEveryPayment, BeforeSend, BeforeRow,
         AfterHold, Labels, Running, NoRecord, NoTx, NoOp, Ops
    <3>4. Untouched'
      <4>1. \A o \in Ops : o > minted => o # op[r]
        BY <2>0, PixSendAssumption DEF SendInv, Always, Types, Ops
      <4>2. QED
        BY <1>2, <2>0, <4>1 DEF SendInv, Always, Types, Untouched
    <3>5. LedgerKnowsEveryPayment'
      BY <1>2, <2>0, PixSendAssumption DEF SendInv, Always, Types, RecordShape,
         RequestShape, Untouched, LedgerKnowsEveryPayment, BeforeSend, BeforeRow,
         AfterHold, Labels, Running, NoRecord, NoTx, NoOp, Ops
    <3>6. QED
      BY <3>1, <3>2, <3>3, <3>4, <3>5 DEF Always
  <2>2. Exclusive'
    BY <1>2, PixSendAssumption DEF SendInv, Always, Types, RecordShape, RequestShape,
       Untouched, LedgerKnowsEveryPayment, Exclusive, Quiet, Alone, OnTheWay,
       PaidIsRecorded, FailureUnpaid, Unpaid, FailedReleased, BeforeSend, BeforeRow,
       AfterHold, Labels, Running, NoRecord, NoTx, NoOp, Ops
  <2>3. Clean'
    BY <1>2, PixSendAssumption DEF SendInv, Always, Types, RecordShape, RequestShape,
       Untouched, LedgerKnowsEveryPayment, Exclusive, Quiet, Alone, OnTheWay,
       PaidIsRecorded, FailureUnpaid, Unpaid, FailedReleased, Clean, NoThief, Reserved,
       PaidIsReserved, AcceptedIsLinked, BeforeSend, BeforeRow, AfterHold, Labels, Running,
       NoRecord, NoTx, NoOp, Ops
  <2>4. QED
    BY <2>1, <2>2, <2>3 DEF SendInv
<1>3. QED
  BY <1>1, <1>2 DEF ProviderExecutes, Happens, local, world, SendInv, Always, Types,
     RecordShape, NoOp

LEMMA ProviderRefusesStep ==
    ASSUME SendInv, NEW r \in Requests, NEW class \in {"deterministic", "transient"},
           ProviderRefuses(r, class)
    PROVE  SendInv'
<1>1. ASSUME r \in wire,
           op[r] \notin paid,
           wire' = wire \ {r},
           reply' = [reply EXCEPT ![r] = class],
           UNCHANGED <<record, minted, pc, op, reconcile, error, linked, answer, hold, 
                        tx, operation, paid, faulted>>
      PROVE  SendInv'
  <2>1. Always'
    BY <1>1, PixSendAssumption DEF SendInv, Always, Types, RecordShape, RequestShape,
       Untouched, LedgerKnowsEveryPayment, BeforeSend, BeforeRow, AfterHold, Labels,
       Running, NoRecord, NoTx, NoOp, Ops
  <2>2. Exclusive'
    BY <1>1, PixSendAssumption DEF SendInv, Always, Types, RecordShape, RequestShape,
       Untouched, LedgerKnowsEveryPayment, Exclusive, Quiet, Alone, OnTheWay,
       PaidIsRecorded, FailureUnpaid, Unpaid, FailedReleased, BeforeSend, BeforeRow,
       AfterHold, Labels, Running, NoRecord, NoTx, NoOp, Ops
  <2>3. Clean'
    BY <1>1, PixSendAssumption DEF SendInv, Always, Types, RecordShape, RequestShape,
       Untouched, LedgerKnowsEveryPayment, Exclusive, Quiet, Alone, OnTheWay,
       PaidIsRecorded, FailureUnpaid, Unpaid, FailedReleased, Clean, NoThief, Reserved,
       PaidIsReserved, AcceptedIsLinked, BeforeSend, BeforeRow, AfterHold, Labels, Running,
       NoRecord, NoTx, NoOp, Ops
  <2>4. QED
    BY <2>1, <2>2, <2>3 DEF SendInv
<1>2. QED
  BY <1>1 DEF ProviderRefuses, local, world, SendInv, Always, Types, RecordShape, NoOp

LEMMA LostStep ==
    ASSUME SendInv, NEW r \in Requests, Lost(r)
    PROVE  SendInv'
<1>1. ASSUME r \in wire,
           wire' = wire \ {r},
           UNCHANGED <<record, minted, pc, op, reconcile, error, linked, answer, hold, 
                        tx, operation, paid, reply, faulted>>
      PROVE  SendInv'
  <2>1. Always'
    BY <1>1, PixSendAssumption DEF SendInv, Always, Types, RecordShape, RequestShape,
       Untouched, LedgerKnowsEveryPayment, BeforeSend, BeforeRow, AfterHold, Labels,
       Running, NoRecord, NoTx, NoOp, Ops
  <2>2. Exclusive'
    BY <1>1, PixSendAssumption DEF SendInv, Always, Types, RecordShape, RequestShape,
       Untouched, LedgerKnowsEveryPayment, Exclusive, Quiet, Alone, OnTheWay,
       PaidIsRecorded, FailureUnpaid, Unpaid, FailedReleased, BeforeSend, BeforeRow,
       AfterHold, Labels, Running, NoRecord, NoTx, NoOp, Ops
  <2>3. Clean'
    BY <1>1, PixSendAssumption DEF SendInv, Always, Types, RecordShape, RequestShape,
       Untouched, LedgerKnowsEveryPayment, Exclusive, Quiet, Alone, OnTheWay,
       PaidIsRecorded, FailureUnpaid, Unpaid, FailedReleased, Clean, NoThief, Reserved,
       PaidIsReserved, AcceptedIsLinked, BeforeSend, BeforeRow, AfterHold, Labels, Running,
       NoRecord, NoTx, NoOp, Ops
  <2>4. QED
    BY <2>1, <2>2, <2>3 DEF SendInv
<1>2. QED
  BY <1>1 DEF Lost, local, world, SendInv, Always, Types, RecordShape, NoOp

\* A lease runs out when its owner is gone; on a live owner it is the fault "slow".
LEMMA LeaseExpiresStep ==
    ASSUME SendInv, LeaseExpires
    PROVE  SendInv'
<1> DEFINE owned == \E r \in Requests : op[r] = record.op /\ (Running(r) \/ r \in wire)
<1>1. /\ record.leased /\ record' = [record EXCEPT !.leased = FALSE]
      /\ UNCHANGED <<minted, pc, op, reconcile, error, linked, answer, hold, tx, operation,
                     wire, paid, reply>>
  BY DEF LeaseExpires, local
<1>2. /\ owned => "slow" \in Faults /\ faulted' = faulted \cup {"slow"}
      /\ ~owned => faulted' = faulted
  BY DEF LeaseExpires, Happens
<1> HIDE DEF owned
<1>3. Always'
  BY ZenonT(60), <1>1, <1>2, PixSendAssumption DEF SendInv, Always, Types, RecordShape, RequestShape,
     Untouched, LedgerKnowsEveryPayment, Running, NoRecord, NoOp, Ops
<1>4. Exclusive'
  <2> SUFFICES ASSUME Quiet'
      PROVE  (Alone /\ OnTheWay /\ PaidIsRecorded /\ FailureUnpaid /\ FailedReleased)'
    BY DEF Exclusive
  <2>0. ~owned /\ faulted' = faulted
    BY <1>2 DEF Quiet
  <2>1. Alone /\ OnTheWay /\ PaidIsRecorded /\ FailureUnpaid /\ FailedReleased
    BY <2>0 DEF SendInv, Exclusive, Quiet
  <2>2. wire = {} /\ \A r \in Requests : ~Running(r)
    BY <1>1, <2>0, <2>1 DEF SendInv, Always, Types, Alone, OnTheWay, owned
  <2>3. QED
    BY <1>1, <2>1, <2>2 DEF SendInv, Always, Types, Alone, OnTheWay, PaidIsRecorded,
       FailureUnpaid, Unpaid, FailedReleased, Running
<1>5. Clean'
  <2> SUFFICES ASSUME (faulted = {})' PROVE FALSE
    BY DEF Clean
  <2>1. ~owned /\ Alone /\ NoThief /\ record.state = "IN_FLIGHT"
    BY <1>1, <1>2 DEF SendInv, Always, RecordShape, Exclusive, Quiet, Clean
  <2>2. QED
    BY <2>1 DEF NoThief, Alone, owned
<1>6. QED
  BY <1>3, <1>4, <1>5 DEF SendInv

LEMMA InitSend == Init => SendInv
<1> SUFFICES ASSUME Init PROVE SendInv
  OBVIOUS
<1>1. Always
  BY PixSendAssumption DEF Init, Always, Types, RecordShape, RequestShape, Untouched,
     LedgerKnowsEveryPayment, Running, NoRecord, NoTx, NoOp, Ops, Labels, BeforeSend, AfterHold
<1>2. Exclusive
  BY DEF Init, Exclusive, Alone, OnTheWay, PaidIsRecorded, FailureUnpaid, Unpaid,
     FailedReleased, Running, NoRecord, BeforeRow
<1>3. Clean
  BY DEF Init, Clean, NoThief, Reserved, PaidIsReserved, AcceptedIsLinked, NoRecord, AfterHold
<1>4. QED
  BY <1>1, <1>2, <1>3 DEF SendInv

LEMMA StutterStep == SendInv /\ UNCHANGED vars => SendInv'
  BY DEF vars, SendInv, Always, Types, RecordShape, RequestShape, Untouched,
     LedgerKnowsEveryPayment, Exclusive, Quiet, Alone, OnTheWay, PaidIsRecorded,
     FailureUnpaid, Unpaid, FailedReleased, Clean, NoThief, Reserved, PaidIsReserved,
     AcceptedIsLinked, Running

LEMMA NextStep == SendInv /\ Next => SendInv'
<1> SUFFICES ASSUME SendInv, Next PROVE SendInv'
  OBVIOUS
<1>1. ASSUME NEW r \in Requests, Handler(r) PROVE SendInv'
  BY <1>1, ClaimStep, ConflictStep, StealLeaseStep, RejectStep, FindLocalStep,
     FindRemoteStep, AuthorizeStep, SendStep, NotSentStep, ReceiveStep, GiveUpStep,
     RecordSentStep, RecordUnknownStep, CreateOperationStep, VoidStep, CompleteStep,
     KeepFailureStep, ReleaseStep DEF Handler
<1>2. ASSUME Provider PROVE SendInv'
  BY <1>2, ProviderExecutesStep, ProviderRefusesStep, LostStep DEF Provider
<1>3. QED
  BY <1>1, <1>2, CrashStep, DatabaseFailsStep, RecordNotUpdatedStep, LeaseExpiresStep
     DEF Next

\* The three layers hold in every reachable state, whatever fails.
THEOREM SendInvariant == Spec => []SendInv
<1>1. SendInv /\ [Next]_vars => SendInv'
  BY NextStep, StutterStep
<1>2. QED
  BY <1>1, InitSend, PTL DEF Spec

-----------------------------------------------------------------------------
(* What the two layers of idempotency promise. *)

\* However often the client repeats the request and wherever pods die, the provider
\* executes one payment for the key: all of them are of the record's operation
\* (IdempotencyInterceptor.handle, PixTransfersService.send).
THEOREM OnePayment == Spec => []AtMostOnePayment
<1>1. SendInv => AtMostOnePayment
  <2> SUFFICES ASSUME SendInv, faulted \subseteq {"crash"} PROVE Cardinality(paid) <= 1
    BY DEF AtMostOnePayment, OneEffectPerKey
  <2>1. paid \subseteq {record.op}
    BY DEF SendInv, Exclusive, Quiet, PaidIsRecorded
  <2>2. IsFiniteSet({record.op}) /\ Cardinality({record.op}) = 1
    BY FS_Singleton
  <2>3. QED
    BY <2>1, <2>2, FS_Subset
<1>2. QED
  BY <1>1, SendInvariant, PTL

\* Every payment has the reserve authorizeOut made before the call, an acceptance
\* its linked transaction, and a refusal the client was told neither payment nor
\* reserve: after whatever failure each of the four withstands.
THEOREM BackedPayments == Spec => []PaymentsAreBacked
<1>1. SendInv => LedgerKnowsEveryPayment
  BY DEF SendInv, Always
<1>2. SendInv => PaidIsReserved
  BY DEF SendInv, Clean, Reserved, PaidIsReserved
<1>3. SendInv => AcceptedIsLinked
  BY DEF SendInv, Clean, Reserved, AcceptedIsLinked
<1>4. SendInv => RefusedIsFinal
  BY DEF SendInv, Exclusive, Quiet, PaidIsRecorded, FailedReleased, RefusedIsFinal
<1>5. SendInv => PaymentsAreBacked
  BY <1>1, <1>2, <1>3, <1>4 DEF PaymentsAreBacked
<1>6. QED
  BY <1>5, SendInvariant, PTL

\* While the outcome stands nobody runs and no lease is out, so that no step of the
\* interceptor writes the record.
LEMMA OutcomeStands ==
    ASSUME SendInv, faulted \subseteq {"crash"}, record.state \in {"COMPLETED", "FAILED"}, Next
    PROVE  record' = record
<1>1. ~record.leased /\ record # NoRecord /\ \A r \in Requests : ~Running(r)
  BY DEF SendInv, Always, RecordShape, Exclusive, Quiet, Alone, NoRecord
<1>2. ASSUME NEW r \in Requests, Handler(r) PROVE record' = record
  <2>1. CASE pc[r] \in {"idle", "steal"}
    BY <1>1, <1>2, <2>1 DEF Handler, Claim, Conflict, StealLease, Reject, FindLocal,
       FindRemote, Authorize, Send, NotSent, Receive, GiveUp, RecordSent, RecordUnknown,
       CreateTx, CreateOperation, Void, Complete, KeepFailure, Release
  <2>2. CASE pc[r] \in {"done", "crashed"}
    BY <1>2, <2>2 DEF Handler, Claim, Conflict, StealLease, Reject, FindLocal,
       FindRemote, Authorize, Send, NotSent, Receive, GiveUp, RecordSent, RecordUnknown,
       CreateTx, CreateOperation, Void, Complete, KeepFailure, Release
  <2>3. QED
    BY <1>1, <1>2, <2>1, <2>2 DEF Running
<1>3. ASSUME Provider PROVE record' = record
  BY <1>3 DEF Provider, ProviderExecutes, ProviderRefuses, Lost
<1>4. ASSUME NEW r \in Requests, Crash(r) \/ DatabaseFails(r) \/ RecordNotUpdated(r)
      PROVE  record' = record
  BY <1>4 DEF Crash, DatabaseFails, RecordNotUpdated
<1>5. ~LeaseExpires
  BY <1>1 DEF LeaseExpires
<1>6. QED
  BY <1>2, <1>3, <1>4, <1>5 DEF Next

\* What the key answered once it answers for ever: no request that lost its lease
\* overwrites or deletes the record (complete, fail and release update by id).
THEOREM FinalAnswer == Spec => AnswerIsFinal
<1>1. SendInv /\ [Next]_vars =>
          [/\ faulted \subseteq {"crash"} /\ record.state \in {"COMPLETED", "FAILED"}
           => record' = record]_vars
  BY OutcomeStands DEF vars
<1>2. QED
  BY <1>1, SendInvariant, PTL DEF Spec, AnswerIsFinal
-----------------------------------------------------------------------------
(* The HTTP client under every call to the provider (ProviderCall), for    *)
(* every RetryPolicy and BreakerPolicy: what it promises the caller of a   *)
(* write that is not idempotent, and the token it never sends again.       *)

\* While the call is going on, a write has not been executed: what is retried
\* never reached the provider, or was refused by it.
NotYetExecuted == ~idempotent /\ result = "none" => executed = 0

\* A call in the middle of a pass through the loop has not ended.
InThePass == step # "idle" => result = "none"

CallInv ==
  /\ executed \in Nat
  /\ NotYetExecuted
  /\ InThePass
  /\ WrittenAtMostOnce
  /\ SilenceIsUnknown

\* What the retry after a 401 adds to the loop counter.
RenewalExtra == IF authRetried THEN 1 ELSE 0

\* The requests are ahead of the loop counter by no more than that one, and a
\* call that ended made one request more.
RequestsCounted ==
  /\ attempts \in Nat
  /\ attempt \in 0..(MaxAttempts - 1)
  /\ authRetried \in BOOLEAN
  /\ result = "none" => attempts <= attempt + RenewalExtra
  /\ InThePass
  /\ AttemptsBounded

\* What is retried for a write was not executed: isProvablyPreCommit is exact
\* enough, and a 401 is refused before the request is looked at.
LEMMA RetriedIsPreCommit ==
  ASSUME NEW o \in Outcomes, ProvablyPreCommit(o) \/ o = "http401"
  PROVE  ~MayHaveExecuted(o)
  BY DEF ProvablyPreCommit, MayHaveExecuted

\* The steps that leave the call in course where it is, but for where in the pass it is.
Aside ==
  /\ UNCHANGED call
  /\ step' # "idle" => step # "idle" \/ result = "none"

LEMMA AsideSteps ==
  ASSUME \/ Admit \/ TakeCached \/ StartFetch \/ EndFetch \/ DropToken \/ OtherStarts \/ Tick \/ Heal
         \/ \E o \in {"http2xx", "http4xx", "http500"} : OtherEnds(o)
         \/ UNCHANGED allVars
  PROVE  Aside
  BY DEF Aside, Admit, TakeCached, StartFetch, EndFetch, DropToken, OtherStarts, Tick, Heal, OtherEnds,
     allVars, call

\* Every other step is an outcome, the end of the call without one, or a new call.
LEMMA CallSteps ==
  ASSUME [PNext]_allVars
  PROVE  \/ Aside
         \/ \E o \in Outcomes : Exchange(o)
         \/ Refuse \/ FailFetch \/ NextCall
  BY AsideSteps DEF PNext

\* A call that ends before its request goes out executed what it had executed.
LEMMA EndsUnsent ==
  ASSUME InThePass, Refuse \/ FailFetch
  PROVE  \/ Aside
         \/ /\ result = "none" /\ result' = "error" /\ attempts' = attempts + 1 /\ step' = "idle"
            /\ UNCHANGED <<idempotent, attempt, authRetried, executed, last>>
  BY DEF Refuse, CircuitOpen, FailFetch, InThePass, Aside, call

LEMMA CallKeeps ==
  ASSUME CallInv, [PNext]_allVars
  PROVE  CallInv'
<1>1. CASE Aside
  BY <1>1 DEF Aside, call, CallInv, NotYetExecuted, InThePass, WrittenAtMostOnce, SilenceIsUnknown
<1>2. ASSUME NEW o \in Outcomes, Exchange(o) PROVE CallInv'
  <2>1. /\ result = "none" /\ last' = o /\ idempotent' = idempotent /\ step' = "idle"
        /\ executed' \in {executed, executed + 1}
        /\ ~MayHaveExecuted(o) => executed' = executed
    BY <1>2 DEF Exchange, Attempt, Renews, MayHaveExecuted
  <2>2. executed' \in Nat /\ InThePass'
    BY <2>1 DEF CallInv, InThePass
  <2>3. ~idempotent => executed = 0
    BY <2>1 DEF CallInv, NotYetExecuted
  <2>4. ASSUME ~idempotent, result' = "none" PROVE ~MayHaveExecuted(o)
    <3>1. o = "http401" \/ CanRetry(o)
      BY <1>2, <2>1, <2>4 DEF Exchange, Attempt, Renews, TerminalError
    <3>2. CanRetry(o) => ProvablyPreCommit(o)
      BY <2>4 DEF CanRetry
    <3> QED
      BY <3>1, <3>2, RetriedIsPreCommit
  <2>5. ASSUME ~idempotent, result' = "error", o \in NoResponse PROVE ~MayHaveExecuted(o)
    <3>1. result' = TerminalError(o)
      BY <1>2, <2>1, <2>5 DEF Exchange, Attempt, Renews, NoResponse, Timeouts, NetworkErrors
    <3>2. ProvablyPreCommit(o)
      BY <2>5, <3>1 DEF TerminalError
    <3> QED
      BY <3>2, RetriedIsPreCommit
  <2>6. NotYetExecuted'
    BY <2>1, <2>3, <2>4 DEF NotYetExecuted
  <2>7. WrittenAtMostOnce'
    BY <2>1, <2>3 DEF WrittenAtMostOnce, CallInv
  <2>8. SilenceIsUnknown'
    BY <2>1, <2>3, <2>5 DEF SilenceIsUnknown
  <2> QED
    BY <2>2, <2>6, <2>7, <2>8 DEF CallInv
<1>3. CASE Refuse \/ FailFetch
  BY <1>1, <1>3, EndsUnsent DEF CallInv, NotYetExecuted, InThePass, WrittenAtMostOnce, SilenceIsUnknown
<1>4. CASE NextCall
  <2>1. executed' = 0 /\ result' = "none"
    BY <1>4 DEF NextCall
  <2>2. QED
    BY <2>1 DEF CallInv, NotYetExecuted, InThePass, WrittenAtMostOnce, SilenceIsUnknown
<1> QED
  BY <1>1, <1>2, <1>3, <1>4, CallSteps

LEMMA RequestsCountedInitially == PInit => RequestsCounted
<1> SUFFICES ASSUME PInit PROVE RequestsCounted
  OBVIOUS
<1>1. attempts = 0 /\ attempt = 0 /\ ~authRetried /\ authRetried \in BOOLEAN /\ InThePass
  BY DEF PInit, CallInit, InThePass
<1>2. RenewalExtra = 0
  BY <1>1 DEF RenewalExtra
<1> QED
  BY <1>1, <1>2, MaxAttemptsAssumption DEF RequestsCounted, AttemptsBounded

LEMMA RequestsCountedKeeps ==
  ASSUME RequestsCounted, [PNext]_allVars
  PROVE  RequestsCounted'
<1> USE MaxAttemptsAssumption
<1>1. CASE Aside
  BY <1>1 DEF Aside, call, RequestsCounted, InThePass, RenewalExtra, AttemptsBounded
<1>2. ASSUME NEW o \in Outcomes, Exchange(o) PROVE RequestsCounted'
  <2>1. result = "none" /\ attempts' = attempts + 1 /\ step' = "idle" /\ Attempt(o, TRUE)
    BY <1>2 DEF Exchange, Attempt
  <2>2. CASE Renews(o, TRUE)
    <3>1. /\ ~authRetried /\ authRetried' /\ attempt' = attempt
      BY <2>1, <2>2 DEF Attempt, Renews
    <3> QED
      BY <2>1, <3>1 DEF RequestsCounted, InThePass, RenewalExtra, AttemptsBounded
  <2>3. CASE ~Renews(o, TRUE)
    <3>1. \/ authRetried' = authRetried /\ attempt' = attempt + 1 /\ CanRetry(o)
          \/ authRetried' = authRetried /\ attempt' = attempt /\ result' # "none"
      BY <2>1, <2>3 DEF Attempt, TerminalError
    <3> QED
      BY <2>1, <3>1 DEF RequestsCounted, InThePass, RenewalExtra, AttemptsBounded, CanRetry
  <2> QED
    BY <2>2, <2>3
<1>3. CASE Refuse \/ FailFetch
  BY <1>1, <1>3, EndsUnsent DEF RequestsCounted, InThePass, RenewalExtra, AttemptsBounded
<1>4. CASE NextCall
  <2>1. attempts' = 0 /\ attempt' = 0 /\ ~authRetried' /\ authRetried' \in BOOLEAN /\ result' = "none"
    BY <1>4 DEF NextCall
  <2>2. RenewalExtra' = 0 /\ InThePass'
    BY <2>1 DEF RenewalExtra, InThePass
  <2>3. QED
    BY <2>1, <2>2 DEF RequestsCounted, AttemptsBounded
<1> QED
  BY <1>1, <1>2, <1>3, <1>4, CallSteps

\* One token at a time is cached or on its way, a request that was prepared carries one
\* that is not on its way, and none of them is the one that was refused.
TokensApart ==
  /\ cached # 0 => fetching = 0
  /\ step = "prepared" => token # 0 /\ token # fetching
  /\ step # "prepared" => token = 0
  /\ refused # 0 => refused \notin {cached, fetching, token}

LEMMA TokensStayApart ==
  ASSUME TokensApart, [PNext]_allVars
  PROVE  TokensApart'
<1>1. NewToken \in 1..3 /\ NewToken \notin {token, refused}
  <2>1. \E t \in 1..3 : t \notin {token, refused}
    <3>1. 1 \in 1..3 /\ 2 \in 1..3 /\ 3 \in 1..3
      OBVIOUS
    <3>2. QED
      BY <3>1
  <2>2. QED
    BY <2>1 DEF NewToken
<1>2. CASE StartFetch
  BY <1>1, <1>2 DEF StartFetch, TokensApart
<1>3. CASE Admit \/ TakeCached \/ EndFetch \/ DropToken
  BY <1>3 DEF Admit, TakeCached, EndFetch, DropToken, TokensApart, tokens
<1>4. CASE OtherStarts \/ Tick \/ Heal \/ \E o \in {"http2xx", "http4xx", "http500"} : OtherEnds(o)
  BY <1>4 DEF OtherStarts, Tick, Heal, OtherEnds, TokensApart, tokens
<1>5. CASE Refuse \/ FailFetch \/ NextCall
  BY <1>5 DEF Refuse, FailFetch, NextCall, TokensApart, tokens
<1>6. ASSUME NEW o \in Outcomes, Exchange(o) PROVE TokensApart'
  BY <1>6 DEF Exchange, TokensApart, AfterUnauthorized
<1>7. CASE UNCHANGED allVars
  BY <1>7 DEF allVars, TokensApart
<1> QED
  BY <1>2, <1>3, <1>4, <1>5, <1>6, <1>7 DEF PNext

LEMMA CallInvariant == PSpec => []CallInv
<1>1. PInit => CallInv
  BY DEF PInit, CallInit, CallInv, NotYetExecuted, InThePass, WrittenAtMostOnce, SilenceIsUnknown
<1> QED
  BY <1>1, CallKeeps, PTL DEF PSpec

\* HttpClient.request makes at most one request more than the policy's
\* maxAttempts: the renewal of the token does not make the loop endless.
THEOREM CallsAreBounded == PSpec => []AttemptsBounded
<1>1. RequestsCounted => AttemptsBounded
  BY DEF RequestsCounted
<1> QED
  BY <1>1, RequestsCountedInitially, RequestsCountedKeeps, PTL DEF PSpec

\* HttpClient.request sends a write that is not idempotent to be executed at
\* most once, whatever RetryPolicy.maxAttempts is, and however the circuit and
\* the token store, which other calls share, cut the call short.
THEOREM NeverWrittenTwice == PSpec => []WrittenAtMostOnce
<1>1. CallInv => WrittenAtMostOnce
  BY DEF CallInv
<1> QED
  BY <1>1, CallInvariant, PTL

\* terminalError never turns a silence after which the write may have been
\* executed into an ordinary error, and no more does a circuit that opens or a
\* token that cannot be fetched between two attempts.
THEOREM SilenceIsReported == PSpec => []SilenceIsUnknown
<1>1. CallInv => SilenceIsUnknown
  BY DEF CallInv
<1> QED
  BY <1>1, CallInvariant, PTL

\* The retry after a 401 never carries the token that was refused, whatever the
\* other calls of the process fetch, invalidate and cache meanwhile
\* (onUnauthorized, getOrFetch and its inFlight promise).
THEOREM TokenNotSentAgain == PSpec => []RefusedTokenNotSent
<1>1. PInit => TokensApart
  BY DEF PInit, TokensApart
<1>2. TokensApart => RefusedTokenNotSent
  BY DEF TokensApart, RefusedTokenNotSent
<1> QED
  BY <1>1, <1>2, TokensStayApart, PTL DEF PSpec
=============================================================================
