------------------------------- MODULE PixCharges -------------------------------
(***************************************************************************)
(* A Pix charge: PixChargesService of the API, which creates and cancels   *)
(* it at the bank and mirrors it in a row, the bank's ChargesService and   *)
(* payCharge, which checks the charge before an await and marks it paid    *)
(* after it, and the event that brings the payment back to the row.        *)
(*                                                                         *)
(* The requests of the instance ask for one txid, under a key of PixKeys.  *)
(***************************************************************************)
EXTENDS PixKeys

CONSTANTS
    ChargeRequests,    \* requests that create the charge
    ChargeAsks,        \* what they may ask for: see ChargeAsked
    Payers,            \* payers of the QR code, each with the amount it sends
    PayerAmounts,      \* amounts a payer may send, in units
    EmvAnswers,        \* QR codes a provider may answer with
    MaxTick            \* bound: the last instant of the clock

\* amount 0 is a charge of open value; expiry NoExpiry is a static one.
ChargeAsked == [amount : Nat, expiry : Nat, account : KeyAccounts]

ASSUME ChargesAssumption ==
    /\ ChargeAsks \subseteq ChargeAsked
    /\ PayerAmounts \subseteq Nat \ {0}
    /\ EmvAnswers \subseteq {"absent", "malformed", "another key", "usable"}
    /\ MaxTick \in Nat

VARIABLES
    ask,               \* what is asked for
    send,              \* the amount of each payer
    qrAt,              \* where each creation stands
    qr,                \* the bank's charge, or NoQr
    qrRow,             \* the connector's row, or NoQr
    cancel,            \* where the cancellation stands
    payer,             \* where each payment stands
    paidEvents,        \* the bank's pix_charge.paid events, delivered at least once
    tick               \* the clock

chargeOnlyVars == <<ask, send, qrAt, qr, qrRow, cancel, payer, paidEvents, tick>>
chargeVars == <<keyVars, chargeOnlyVars>>

NoQr == [status |-> "none"]
NoExpiry == MaxTick + 1

ChargesInit ==
    /\ ask \in ChargeAsks
    /\ send \in [Payers -> PayerAmounts]
    /\ qrAt = [r \in ChargeRequests |-> "key"]
    /\ qr = NoQr /\ qrRow = NoQr
    /\ cancel = "idle"
    /\ payer = [p \in Payers |-> "idle"]
    /\ paidEvents = {} /\ tick = 0

Tick ==
    /\ tick < MaxTick
    /\ tick' = tick + 1
    /\ UNCHANGED <<keyVars, ask, send, qrAt, qr, qrRow, cancel, payer, paidEvents>>

-----------------------------------------------------------------------------
(* The bank: what a read makes of a charge, and its two changes. *)

\* Every read expires a charge whose time is up.
expireIfDue(c) ==
    IF c.status = "ACTIVE" /\ tick >= c.expiry THEN [c EXCEPT !.status = "EXPIRED"] ELSE c

newCharge == [status |-> "ACTIVE", amount |-> ask.amount, paid |-> 0, expiry |-> ask.expiry]

\* The payment is added whatever the status has become; the charge is complete when the
\* total is reached, or at once if its value is open.
markPaid(c, amount) ==
    LET now == expireIfDue(c)
        total == now.paid + amount IN
    [now EXCEPT !.paid = total,
                !.status = IF now.amount = 0 \/ total >= now.amount THEN "COMPLETED" ELSE @]

-----------------------------------------------------------------------------
(* create *)

QrStep(r, to) == qrAt' = [qrAt EXCEPT ![r] = to]

\* The key must be of the account; its status is not looked at.
FindKeyOfCharge(r) ==
    /\ qrAt[r] = "key"
    /\ \/ QrStep(r, "refused")
       \/ /\ \E k \in KeyRequests : keyRow[k] # "none" /\ wanted[k].account = ask.account
          /\ QrStep(r, "call")
    /\ UNCHANGED <<keyVars, ask, send, qr, qrRow, cancel, payer, paidEvents, tick>>

\* The bank wants an active key of the account and a txid it has not seen; the answer may
\* be lost, and so may the request.
CreateAtBank(r) ==
    /\ qrAt[r] = "call"
    /\ \/ QrStep(r, "refused") /\ UNCHANGED qr
       \/ /\ qr = NoQr
          /\ \E k \in dict : wanted[k].account = ask.account
          /\ qr' = newCharge
          /\ QrStep(r, "check") \/ QrStep(r, "lost")
    /\ UNCHANGED <<keyVars, ask, send, qrRow, cancel, payer, paidEvents, tick>>

\* assertEmvIsUsable: present, parses, and names the key asked for.
assertEmvIsUsable(emv) == emv = "usable"

\* The charge answered is recorded, or refused for its QR code with the bank's left as is.
StoreCharge(r) ==
    /\ qrAt[r] = "check"
    /\ \E emv \in EmvAnswers :
          IF assertEmvIsUsable(emv)
          THEN /\ qrRow' = [status |-> "ACTIVE", paid |-> 0, last |-> NoEvent]
               /\ QrStep(r, "done")
          ELSE QrStep(r, "lost") /\ UNCHANGED qrRow
    /\ UNCHANGED <<keyVars, ask, send, qr, cancel, payer, paidEvents, tick>>

LoseCharge(r) ==
    /\ qrAt[r] = "check"
    /\ QrStep(r, "lost")
    /\ UNCHANGED <<keyVars, ask, send, qr, qrRow, cancel, payer, paidEvents, tick>>

-----------------------------------------------------------------------------
(* The row: applyStatusChange of the charge repository, under its lock. *)

\* Not older than what was applied, another status, and one the table allows.
chargeApplies(row, to, occurredAt) ==
    /\ row # NoQr
    /\ row.last <= occurredAt
    /\ row.status # to
    /\ checkTransition(PIX_CHARGE_STATUS_TRANSITIONS, row.status, to)

\* paidAmountCents left undefined keeps the column.
applyChargeStatus(row, to, paid, occurredAt) ==
    IF chargeApplies(row, to, occurredAt)
    THEN [status |-> to, paid |-> IF paid = 0 THEN row.paid ELSE paid, last |-> occurredAt]
    ELSE row

\* cancel: the row is read, the bank cancels an ACTIVE charge, and the row follows with
\* the time of this side's clock.
ReadForCancel ==
    /\ cancel = "idle" /\ qrRow # NoQr
    /\ cancel' = "call"
    /\ UNCHANGED <<keyVars, ask, send, qrAt, qr, qrRow, payer, paidEvents, tick>>

CancelAtBank ==
    LET now == expireIfDue(qr) IN
    /\ cancel = "call"
    /\ IF now.status = "ACTIVE"
       THEN /\ qr' = [now EXCEPT !.status = "REMOVED_BY_USER"]
            /\ cancel' \in {"record", "failed"}
       ELSE qr' = now /\ cancel' = "failed"
    /\ UNCHANGED <<keyVars, ask, send, qrAt, qrRow, payer, paidEvents, tick>>

RecordCancel ==
    /\ cancel = "record"
    /\ qrRow' = applyChargeStatus(qrRow, "REMOVED_BY_USER", 0, tick)
    /\ cancel' = "done"
    /\ UNCHANGED <<keyVars, ask, send, qrAt, qr, payer, paidEvents, tick>>

-----------------------------------------------------------------------------
(* The payment and its event. *)

\* payCharge up to the await of the ledger: the charge must be ACTIVE.
StartPayment(p) ==
    LET now == expireIfDue(qr) IN
    /\ payer[p] = "idle" /\ qr # NoQr
    /\ qr' = now
    /\ payer' = [payer EXCEPT ![p] = IF now.status = "ACTIVE" THEN "crediting" ELSE "refused"]
    /\ UNCHANGED <<keyVars, ask, send, qrAt, qrRow, cancel, paidEvents, tick>>

\* receivePix after the credit: the charge is marked and the event tells what it became.
FinishPayment(p) ==
    LET paid == markPaid(qr, send[p]) IN
    /\ payer[p] = "crediting"
    /\ qr' = paid
    /\ paidEvents' = paidEvents \union {[status |-> paid.status, paid |-> paid.paid, at |-> tick]}
    /\ payer' = [payer EXCEPT ![p] = "done"]
    /\ UNCHANGED <<keyVars, ask, send, qrAt, qrRow, cancel, tick>>

\* The status of the event; Unread where it is none of the connector's.
toChargeStatus(raw) == IF raw \in DOMAIN PIX_CHARGE_STATUS_TRANSITIONS THEN raw ELSE Unread

\* Mutant: an event of payment is taken for the end of the charge.
PaidMeansCompleted(e) == "COMPLETED"

\* A status the connector does not know counts as COMPLETED.
incomingStatus(e) == IF toChargeStatus(e.status) = Unread THEN "COMPLETED" ELSE toChargeStatus(e.status)

\* applyCharge: without a row the event is ignored.  An event may come again.
ApplyCharge(e) ==
    /\ qrRow # NoQr
    /\ qrRow' = applyChargeStatus(qrRow, incomingStatus(e), e.paid, e.at)
    /\ UNCHANGED <<keyVars, ask, send, qrAt, qr, cancel, payer, paidEvents, tick>>

ChargesNext ==
    \/ Tick
    \/ \E r \in ChargeRequests :
          FindKeyOfCharge(r) \/ CreateAtBank(r) \/ StoreCharge(r) \/ LoseCharge(r)
    \/ ReadForCancel \/ CancelAtBank \/ RecordCancel
    \/ \E p \in Payers : StartPayment(p) \/ FinishPayment(p)
    \/ \E e \in paidEvents : ApplyCharge(e)

PixAddressingNext == ChargesNext \/ (KeysNext /\ UNCHANGED chargeOnlyVars)

PixAddressingSpec ==
    /\ KeysInit(KeyRequests, KeyRemovals) /\ ChargesInit
    /\ [][PixAddressingNext]_chargeVars

-----------------------------------------------------------------------------
\* A charge the connector shows as COMPLETED, on which a shop delivers, has received its
\* whole value at the bank, and the amount shown is one the bank had counted: neither partial
\* payments nor payments that race the expiry or a cancellation complete it early
\* (applyCharge, applyStatusChange, ChargesService.markPaid).
CompletedIsPaid ==
    qrRow.status = "COMPLETED" =>
        /\ qrRow.paid <= qr.paid
        /\ qrRow.paid >= (IF qr.amount = 0 THEN 1 ELSE qr.amount)
=================================================================================
