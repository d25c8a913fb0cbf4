------------------------------- MODULE Refunds -------------------------------
(***************************************************************************)
(* A client's refund of a Pix it received, against the bank. The service   *)
(* checks the original, reserves the amount in the shadow ledger, calls    *)
(* the bank and writes the refund's transaction with the status the bank   *)
(* answered. A refusal releases the reserve; an answer that is lost keeps  *)
(* it and leaves neither transaction nor operation. The bank sends its     *)
(* webhook before it answers, so that the webhook may find no transaction. *)
(* Composed with the credits: what is refunded is what was credited.       *)
(***************************************************************************)
EXTENDS CreditIn

CONSTANTS
    Refunders,       \* refund requests: their operation ids, keys at the bank
    MaxCredits       \* bound on Pix received

ASSUME RefundAssumption ==
    Refunders \subseteq Keys /\ MaxCredits \in Nat

VARIABLES
    refund,          \* every refund request
    traffic          \* what a behaviour is about: Pix out, or credits

vars == <<bankVars, creditVars, refund, traffic>>

NoRefund == [at |-> "none", of |-> 0, amount |-> 0, hold |-> "none", row |-> 0]

RefundTypeOK ==
    refund \in [Refunders ->
      [at : {"none", "checked", "held", "sent", "refused", "done", "unknown"},
       of : 0..MaxPayments, amount : Nat, hold : {"none", "pending", "posted", "void"},
       row : 0..MaxPayments]]

TypeOK ==
    BankTypeOK /\ CreditTypeOK /\ RefundTypeOK /\ traffic \in {"out", "in"}

\* Pix out and Pix in meet in the balance of an account and nowhere else: a
\* behaviour follows the one or the other.
Init ==
    /\ BankInit /\ CreditInit
    /\ refund = [r \in Refunders |-> NoRefund]
    /\ traffic \in {"out", "in"}

\* The original is a credit of this account that we recorded: rows has no debits.
findOriginal(o) == o \in rows

\* refundedAmountCents of our transaction: written as 0 when the credit comes
\* in, and never again.
RefundedSoFar(o) == 0

\* refund up to the hold: a credit of ours, inside the window, not beyond
\* the original.
StartRefund(r, o, n) ==
    /\ refund[r] = NoRefund
    /\ findOriginal(o)
    /\ clock - pay[o].at <= RefundWindow
    /\ RefundedSoFar(o) + n <= pay[o].amount
    /\ refund' = [refund EXCEPT ![r] = [@ EXCEPT !.at = "checked", !.of = o, !.amount = n]]
    /\ UNCHANGED <<bankVars, creditVars>>

\* authorizeOut: the hold comes before the call; without funds in our ledger
\* the request ends here.
HoldRefund(r) ==
    /\ refund[r].at = "checked"
    /\ \/ refund' = [refund EXCEPT ![r].at = "held", ![r].hold = "pending"]
       \/ refund' = [refund EXCEPT ![r].at = "refused"]
    /\ UNCHANGED <<bankVars, creditVars>>

\* The call reaches the bank and is refused there at once.
RefusedByBank(r) ==
    \/ ~Refundable(refund[r].of, refund[r].amount)
    \/ clock - pay[refund[r].of].at > RefundWindow

CallBank(r) ==
    /\ refund[r].at = "held"
    /\ IF RefusedByBank(r)
       THEN refund' = [refund EXCEPT ![r].at = "refused"] /\ UNCHANGED bankVars
       ELSE /\ Refund(pay[refund[r].of].account, refund[r].of, refund[r].amount, r)
            /\ refund' = [refund EXCEPT ![r].at = "sent"]
    /\ UNCHANGED creditVars

\* Mutant: a lost answer is taken for a refusal.
LoseAnswerVoids(r) ==
    /\ refund[r].at \in {"held", "sent"}
    /\ faults < MaxFaults
    /\ faults' = faults + 1
    /\ refund' = [refund EXCEPT ![r].at = "unknown", ![r].hold = "void"]
    /\ UNCHANGED <<bankVars, hook, task, lock, posted, credits, rows, told, claimed, watermark, poll>>

\* The request or the answer is lost: ProviderOutcomeUnknownError. The hold
\* stays, the error goes to the client, nothing is written.
LoseAnswer(r) ==
    /\ refund[r].at \in {"held", "sent"}
    /\ faults < MaxFaults
    /\ faults' = faults + 1
    /\ refund' = [refund EXCEPT ![r].at = "unknown"]
    /\ UNCHANGED <<bankVars, hook, task, lock, posted, credits, rows, told, claimed, watermark, poll>>

\* The payment of the bank that came of request r.
MadeBy(r) == {p \in Payments : pay[p].kind = "refund" /\ pay[p].key = r}

\* The bank's answer: a refusal (no funds there) ...
AnswerRefused(r) ==
    /\ refund[r].at = "sent"
    /\ \E p \in MadeBy(r) : pay[p].step = "failed"
    /\ refund' = [refund EXCEPT ![r].at = "refused"]
    /\ UNCHANGED <<bankVars, creditVars>>

\* ... after which voidOut releases the hold ...
VoidRefund(r) ==
    /\ refund[r].at = "refused" /\ refund[r].hold = "pending"
    /\ refund' = [refund EXCEPT ![r].hold = "void"]
    /\ UNCHANGED <<bankVars, creditVars>>

\* ... or the refund, written with the status the bank gives.
WriteRefund(r) ==
    /\ refund[r].at = "sent"
    /\ \E p \in MadeBy(r) :
         /\ pay[p].step = "done"
         /\ refund' = [refund EXCEPT ![r].at = "done", ![r].row = p]
    /\ UNCHANGED <<bankVars, creditVars>>

\* The webhook of a refund: settleOut on the transaction it names; a debit
\* we have no transaction for is ignored.
HookRefund(m) ==
    /\ m \in mail /\ m.type = "pix_refund.settled"
    /\ mail' = mail \ {m}
    /\ refund' = [r \in Refunders |-> IF refund[r].row = m.payment /\ refund[r].hold = "pending"
                                      THEN [refund[r] EXCEPT !.hold = "posted"] ELSE refund[r]]
    /\ UNCHANGED <<books, account, pay, byKey, clock, creditVars>>

RefundNext ==
    \/ \E r \in Refunders :
         \/ \E o \in rows, n \in Amounts : StartRefund(r, o, n)
         \/ HoldRefund(r) \/ CallBank(r) \/ LoseAnswer(r) \/ AnswerRefused(r)
         \/ VoidRefund(r) \/ WriteRefund(r)
    \/ \E m \in mail : HookRefund(m)

\* The payers, other clients of the bank, and the clock.
Outside ==
    \/ /\ traffic = "in"
       /\ \/ /\ Cardinality({p \in Payments : pay[p].kind = "in"}) < MaxCredits
             /\ \E a \in Customers \cup {Suspense}, n \in Amounts : ReceivePix(a, n)
          \/ /\ AdvanceClock
             /\ \A p \in Payments : ~pay[p].stored => clock - pay[p].at < Lap
    \/ /\ traffic = "out"
       /\ \/ \E a \in Customers, n \in Amounts, k \in Keys \cup {NoKey}, s \in Scenarios :
               SendPix(a, n, k, s)
          \/ \E a \in Customers, s \in AccountStatus : SetStatus(a, s)

Next ==
    \/ Outside /\ UNCHANGED <<creditVars, refund, traffic>>
    \/ BankNext /\ UNCHANGED <<creditVars, refund, traffic>>
    \/ CreditNext /\ UNCHANGED <<refund, traffic>>
    \/ RefundNext /\ UNCHANGED traffic

Spec == Init /\ [][Next]_vars

\* The bank finishes what it begins; a job that runs goes on; the schedules
\* of the poller and of the reconciliation come round again.
Fairness ==
    /\ \A p \in Ids :
         /\ WF_vars(p \in Payments /\ (KeepInSuspense(p) \/ CreditReceived(p)
                       \/ \E c \in Copies : PersistIn(p, c)) /\ UNCHANGED <<creditVars, refund, traffic>>)
         /\ WF_vars(LookUp(p) /\ UNCHANGED <<refund, traffic>>)
         /\ WF_vars(Import(p) /\ UNCHANGED <<refund, traffic>>)
         /\ \A w \in Ways : WF_vars(Apply(w, p) /\ UNCHANGED <<refund, traffic>>)

FairSpec == Spec /\ Fairness

(***************************************************************************)
(* Properties                                                              *)
(***************************************************************************)

\* What the bank gave back for a request of ours is reserved or debited in
\* our ledger: never released, whatever answer was lost and whenever the
\* webhook came.
RefundIsHeld ==
    \A r \in Refunders : \A p \in MadeBy(r) :
      pay[p].step \in {"posted", "done"} => refund[r].hold \in {"pending", "posted"}

\* money-flows.md: the service itself checks that the refunds of a
\* transaction never add up to more than the transaction.
RefundsAddUp ==
    \A o \in rows :
      MapThenSumSet(LAMBDA r : refund[r].amount,
                    {r \in Refunders : refund[r].of = o /\ refund[r].at = "done"})
        <= pay[o].amount
=============================================================================
