---------------------------- MODULE RefundsProofs ----------------------------
(***************************************************************************)
(* Theorems about the money of others: a Pix received is credited once,    *)
(* whichever of its three ways it comes by, a refund the bank gave stays   *)
(* reserved or debited in the shadow ledger, and the statement of a        *)
(* customer of the bank sums to its balance. They hold for any number of   *)
(* payments, amounts, refunds and faults.                                  *)
(***************************************************************************)
EXTENDS Refunds, SumTheorems, SequenceTheorems, TLAPS

-----------------------------------------------------------------------------
(* Credits *)

\* The key of a payment's credit does not name the way it came by, and the balance moved
\* once where the key is posted: a way that is past its credit, and a transaction, are of
\* a payment whose key is posted.
KeyOf(p) == <<"pix-in", p>>
CreditsInv ==
  /\ rows \subseteq Ids
  /\ credits \in [Ids -> Nat]
  /\ task \in [Ways \X Ids -> Stages]
  /\ \A p \in Ids : credits[p] = IF KeyOf(p) \in posted THEN 1 ELSE 0
  /\ \A w \in Ways, p \in Ids : task[<<w, p>>] = "credited" => KeyOf(p) \in posted
  /\ \A p \in rows : KeyOf(p) \in posted

\* Whatever a way names, it names the payment.
LEMMA OneKey == \A w \in Ways, p \in Ids : CreditKey(w, p) = KeyOf(p)
  BY DEF CreditKey, ProviderId, EntryPayment, Entry, Absent, KeyOf, Ids

\* A way that does not come to its credit in this step.
LEMMA CreditsKept ==
  ASSUME CreditsInv, UNCHANGED <<posted, credits, rows>>,
         \/ UNCHANGED task
         \/ \E w \in Ways, p \in Ids, s \in Stages \ {"credited"} : Move(w, p, s)
  PROVE  CreditsInv'
<1>1. task' \in [Ways \X Ids -> Stages]
  BY DEF CreditsInv, Move, Stages
<1>2. ASSUME NEW w \in Ways, NEW p \in Ids, task'[<<w, p>>] = "credited"
      PROVE  task[<<w, p>>] = "credited"
  BY <1>2 DEF CreditsInv, Move
<1>3. \A p : KeyOf(p)' = KeyOf(p)
  BY DEF KeyOf
<1>4. QED
  BY <1>1, <1>2, <1>3 DEF CreditsInv, Ids

\* creditIn: the first posting under the key moves the balance, the later ones answer
\* with it.
LEMMA CreditIsPosted ==
  ASSUME CreditsInv, NEW w \in Ways, NEW p \in Ids, PostCredit(w, p) PROVE CreditsInv'
<1>1. CreditKey(w, p) = KeyOf(p) /\ \A q \in Ids : KeyOf(q) = KeyOf(p) => q = p
  BY OneKey DEF KeyOf
<1>2. rows' = rows /\ task' \in [Ways \X Ids -> Stages]
  BY DEF PostCredit, Move, CreditsInv, Stages
<1>3. posted' = posted \cup {KeyOf(p)}
  BY <1>1 DEF PostCredit
<1>4. credits' \in [Ids -> Nat]
      /\ \A q \in Ids : credits'[q] = IF KeyOf(q) \in posted' THEN 1 ELSE 0
  <2>1. CASE KeyOf(p) \in posted
    BY <1>1, <1>3, <2>1 DEF PostCredit, CreditsInv
  <2>2. CASE KeyOf(p) \notin posted
    BY <1>1, <1>3, <2>2 DEF PostCredit, CreditsInv
  <2>3. QED
    BY <2>1, <2>2
<1>5. ASSUME NEW v \in Ways, NEW q \in Ids, task'[<<v, q>>] = "credited"
      PROVE  KeyOf(q) \in posted'
  BY <1>1, <1>3, <1>5 DEF PostCredit, Move, CreditsInv
<1>6. \A q : KeyOf(q)' = KeyOf(q)
  BY DEF KeyOf
<1>7. QED
  BY <1>2, <1>3, <1>4, <1>5, <1>6 DEF CreditsInv, Ids

LEMMA RowIsCredited ==
  ASSUME CreditsInv, NEW w \in Ways, NEW p \in Ids, WriteRow(w, p) PROVE CreditsInv'
<1>1. CASE p \in rows
  BY <1>1, CreditsKept DEF WriteRow, Stages
<1>2. CASE p \notin rows
  <2>1. KeyOf(p) \in posted /\ rows' = rows \cup {p} /\ UNCHANGED <<posted, credits>>
    BY <1>2 DEF WriteRow, CreditsInv
  <2>2. task' \in [Ways \X Ids -> Stages]
    BY <1>2 DEF WriteRow, Move, CreditsInv, Stages
  <2>3. ASSUME NEW v \in Ways, NEW q \in Ids, task'[<<v, q>>] = "credited"
        PROVE  task[<<v, q>>] = "credited"
    BY <1>2, <2>3 DEF WriteRow, Move, CreditsInv
  <2>4. \A q : KeyOf(q)' = KeyOf(q)
    BY DEF KeyOf
  <2>5. QED
    BY <2>1, <2>2, <2>3, <2>4 DEF CreditsInv, Ids
<1>3. QED
  BY <1>1, <1>2

LEMMA CreditsStep == CreditsInv /\ [Next]_vars => CreditsInv'
<1> SUFFICES ASSUME CreditsInv, [Next]_vars PROVE CreditsInv'
  OBVIOUS
<1> USE DEF Stages
<1>1. ASSUME UNCHANGED creditVars PROVE CreditsInv'
  BY <1>1, CreditsKept DEF creditVars
<1>2. ASSUME CreditNext PROVE CreditsInv'
  <2>1. ASSUME NEW p \in Ids, NEW w \in Ways, Tell(w, p) \/ Fail(w, p) PROVE CreditsInv'
    BY <2>1, CreditsKept DEF Tell, Fail
  <2>2. ASSUME NEW p \in Ids, NEW w \in Ways, TakeUp(w, p), UNCHANGED <<posted, credits, rows>>
        PROVE  CreditsInv'
    BY <2>2, CreditsKept DEF TakeUp, LookedUp, LockLost
  <2>3. ASSUME NEW p \in Ids, RetryHook(p) PROVE CreditsInv'
    <3>1. "hook" \in Ways /\ Move("hook", p, "queued") /\ UNCHANGED <<posted, credits, rows>>
      BY <2>3 DEF RetryHook, Ways
    <3>2. QED
      BY <3>1, CreditsKept
  <2>4. ASSUME NEW p \in Ids, LookUp(p) \/ ExpireLock(p) \/ PollEntry(p) \/ Import(p)
        PROVE  CreditsInv'
    BY <2>4, <2>2, CreditsKept DEF LookUp, ExpireLock, PollEntry, Import, Ways
  <2>5. ASSUME NEW m \in mail, ReceiveHook(m) PROVE CreditsInv'
    <3>1. CASE UNCHANGED task
      BY <2>5, <3>1, CreditsKept DEF ReceiveHook
    <3>2. CASE Move("hook", m.payment, "queued")
      <4>1. UNCHANGED <<posted, credits, rows>> /\ "hook" \in Ways
        BY <2>5 DEF ReceiveHook, Ways
      <4>2. CASE m.payment \in Ids
        BY <3>2, <4>1, <4>2, CreditsKept
      <4>3. CASE m.payment \notin Ids
        <5>1. <<"hook", m.payment>> \notin DOMAIN task
          BY <4>3 DEF CreditsInv
        <5>2. task' = task
          BY <3>2, <5>1 DEF Move, CreditsInv
        <5>3. QED
          BY <4>1, <5>2, CreditsKept
      <4>4. QED
        BY <4>2, <4>3
    <3>3. QED
      BY <2>5, <3>1, <3>2 DEF ReceiveHook
  <2>6. ASSUME NEW m, LoseHook(m) PROVE CreditsInv'
    BY <2>6, CreditsKept DEF LoseHook
  <2>7. ASSUME StartPoll \/ EndPoll \/ FailPoll PROVE CreditsInv'
    BY <2>7, CreditsKept DEF StartPoll, EndPoll, FailPoll
  <2>8. QED
    BY <1>2, <2>1, <2>3, <2>4, <2>5, <2>6, <2>7, CreditIsPosted, RowIsCredited DEF CreditNext, Apply
<1>3. ASSUME RefundNext PROVE CreditsInv'
  <2>1. ASSUME NEW r \in Refunders, LoseAnswer(r) PROVE CreditsInv'
    BY <2>1, CreditsKept DEF LoseAnswer
  <2>2. QED
    BY <1>1, <1>3, <2>1 DEF RefundNext, StartRefund, HoldRefund, CallBank, AnswerRefused, VoidRefund,
       WriteRefund, HookRefund
<1>4. QED
  BY <1>1, <1>2, <1>3 DEF Next, vars

LEMMA CreditsInitially == Init => CreditsInv
  BY DEF Init, CreditInit, CreditsInv, KeyOf, Stages

\* A Pix received moves the shadow balance at most once, by the webhook, the poller and
\* the import together, in whatever order they come, fail and are retried, and no
\* transaction is written before its credit (receiveInbound, creditIn).
THEOREM OneCredit == Spec => []CreditedOnce
<1>1. CreditsInv => CreditedOnce
  BY DEF CreditsInv, CreditedOnce
<1>2. QED
  BY <1>1, CreditsInitially, CreditsStep, PTL DEF Spec

-----------------------------------------------------------------------------
(* Refunds *)

RefundRecord ==
  [at : {"none", "checked", "held", "sent", "refused", "done", "unknown"},
   of : Nat, amount : Nat, hold : {"none", "pending", "posted", "void"}, row : Nat]

RefundTypes ==
  /\ pay \in Seq(Payment) /\ clock \in Nat
  /\ refund \in [Refunders -> RefundRecord]

\* A refund at the bank is checked, then debited or refused, then written.
RefundShape ==
  \A p \in Payments : pay[p].kind = "refund" =>
    pay[p].step \in {"checked", "posted", "done", "failed"}

\* A request calls the bank once, and not before it holds the money.
CalledOnce ==
  \A r \in Refunders :
    /\ refund[r].at \in {"none", "checked", "held"} => MadeBy(r) = {}
    /\ \A p, q \in MadeBy(r) : p = q

\* The hold is released only when the bank has refused, which is for good.
HoldsInv ==
  \A r \in Refunders :
    /\ refund[r].at \in {"held", "sent", "done", "unknown"} =>
         refund[r].hold \in {"pending", "posted"}
    /\ refund[r].at = "refused" => \A p \in MadeBy(r) : pay[p].step = "failed"

RefundsInv == RefundTypes /\ RefundShape /\ CalledOnce /\ HoldsInv

LEMMA HeldByInvariant == RefundsInv => RefundIsHeld
<1> SUFFICES ASSUME RefundsInv, NEW r \in Refunders, NEW p \in MadeBy(r),
                    pay[p].step \in {"posted", "done"}
             PROVE  refund[r].hold \in {"pending", "posted"}
  BY DEF RefundIsHeld
<1>1. refund[r].at \notin {"none", "checked", "refused"}
  BY DEF RefundsInv, CalledOnce, HoldsInv
<1>2. QED
  BY <1>1 DEF RefundsInv, RefundTypes, RefundRecord, HoldsInv

LEMMA RefundsInitially == Init => RefundsInv
<1> SUFFICES ASSUME Init PROVE RefundsInv
  OBVIOUS
<1>1. pay = <<>> /\ clock = 0 /\ refund = [r \in Refunders |-> NoRefund]
  BY DEF Init, BankInit
<1>2. NoRefund \in RefundRecord /\ NoRefund.at = "none"
  BY DEF NoRefund, RefundRecord
<1>3. pay \in Seq(Payment) /\ Payments = {}
  BY <1>1 DEF Payments
<1>4. QED
  BY <1>1, <1>2, <1>3 DEF RefundsInv, RefundTypes, RefundShape, CalledOnce, HoldsInv, MadeBy

\* What a step of the bank may do to a payment: the kind and the key stay, and a
\* refund goes on to its next step.
Onward(p) ==
  /\ pay'[p].kind = pay[p].kind /\ pay'[p].key = pay[p].key
  /\ pay[p].kind = "refund" =>
       \/ pay'[p].step = pay[p].step
       \/ pay[p].step = "checked" /\ pay'[p].step \in {"posted", "failed"}
       \/ pay[p].step = "posted" /\ pay'[p].step = "done"

\* A step of the bank: payments go on, and a new one is nobody's refund.
BankGoesOn ==
  /\ pay' \in Seq(Payment) /\ clock' \in Nat
  /\ \A p \in Payments : p \in Payments' /\ Onward(p)
  /\ \A p \in Payments' : p \notin Payments /\ pay'[p].kind = "refund" =>
       pay'[p].step = "checked" /\ pay'[p].key \notin Refunders

LEMMA BankKeeps ==
  ASSUME RefundsInv, BankGoesOn, UNCHANGED refund PROVE RefundsInv'
<1>1. RefundTypes'
  BY DEF RefundsInv, RefundTypes, BankGoesOn
<1>2. RefundShape'
  BY DEF RefundsInv, RefundShape, BankGoesOn, Onward, Payments
<1>3. ASSUME NEW r \in Refunders PROVE MadeBy(r)' = MadeBy(r)
  BY DEF MadeBy, BankGoesOn, Onward, Payments
<1>4. CalledOnce'
  BY <1>3 DEF RefundsInv, CalledOnce
<1>5. HoldsInv'
  <2> SUFFICES ASSUME NEW r \in Refunders, refund[r].at = "refused", NEW p \in MadeBy(r)
               PROVE  pay'[p].step = "failed"
    BY <1>3 DEF RefundsInv, HoldsInv
  <2>1. pay[p].step = "failed" /\ p \in Payments /\ pay[p].kind = "refund"
    BY DEF RefundsInv, HoldsInv, MadeBy
  <2>2. QED
    BY <2>1 DEF BankGoesOn, Onward
<1>6. QED
  BY <1>1, <1>2, <1>4, <1>5 DEF RefundsInv

\* The writing of one payment.
LEMMA OneWrite ==
  ASSUME RefundTypes, NEW p \in Payments, NEW rec \in Payment, pay' = [pay EXCEPT ![p] = rec],
         clock' \in Nat, rec.kind = pay[p].kind, rec.key = pay[p].key,
         pay[p].kind = "refund" =>
           \/ rec.step = pay[p].step
           \/ pay[p].step = "checked" /\ rec.step \in {"posted", "failed"}
           \/ pay[p].step = "posted" /\ rec.step = "done"
  PROVE  BankGoesOn
<1>1. pay \in Seq(Payment) /\ Payments = 1..Len(pay)
  BY DEF RefundTypes, Payments
<1>2. /\ pay' \in Seq(Payment) /\ Len(pay') = Len(pay)
      /\ \A q \in 1..Len(pay) : pay'[q] = IF q = p THEN rec ELSE pay[q]
  BY <1>1, ExceptSeq
<1>3. Payments' = Payments
  BY <1>1, <1>2 DEF Payments
<1>4. \A q \in Payments : Onward(q)
  BY <1>1, <1>2 DEF Onward
<1>5. QED
  BY <1>2, <1>3, <1>4 DEF BankGoesOn

\* A step of a request that writes no more than where it is.
LEMMA OneStep ==
  ASSUME RefundTypes, NEW p \in Payments, NEW s \in Steps, Step(p, s), UNCHANGED clock,
         pay[p].kind = "refund" => pay[p].step = "checked" /\ s \in {"posted", "failed"}
  PROVE  BankGoesOn
<1> DEFINE rec == [pay[p] EXCEPT !.step = s]
<1>1. pay[p] \in Payment
  BY ElementOfSeq DEF RefundTypes, Payments
<1>2. rec \in Payment /\ rec.kind = pay[p].kind /\ rec.key = pay[p].key /\ rec.step = s
  BY <1>1 DEF Payment
<1>3. pay' = [pay EXCEPT ![p] = rec]
  BY DEF Step
<1> HIDE DEF rec
<1>4. QED
  BY <1>2, <1>3, OneWrite DEF RefundTypes

\* A step that writes the payment and its status.
LEMMA OneFinish ==
  ASSUME RefundTypes, NEW p \in Payments, NEW s \in Steps, NEW rec,
         rec = [pay[p] EXCEPT !.stored = TRUE, !.step = s]
           \/ rec = [pay[p] EXCEPT !.status = "SETTLED", !.at = clock, !.step = s],
         pay' = [pay EXCEPT ![p] = rec], UNCHANGED clock,
         pay[p].kind = "refund" => pay[p].step = "posted" /\ s = "done"
  PROVE  BankGoesOn
<1>1. pay[p] \in Payment /\ clock \in Nat
  BY ElementOfSeq DEF RefundTypes, Payments
<1>2. rec \in Payment /\ rec.kind = pay[p].kind /\ rec.key = pay[p].key /\ rec.step = s
  <2>1. CASE rec = [pay[p] EXCEPT !.stored = TRUE, !.step = s]
    BY <1>1, <2>1 DEF Payment
  <2>2. CASE rec = [pay[p] EXCEPT !.status = "SETTLED", !.at = clock, !.step = s]
    BY <1>1, <2>2 DEF Payment
  <2>3. QED
    BY <2>1, <2>2
<1>3. QED
  BY <1>1, <1>2, OneWrite

\* A request that begins.
LEMMA OneMore ==
  ASSUME RefundTypes, NEW rec \in Payment, pay' = Append(pay, rec), clock' \in Nat,
         rec.kind = "refund" => rec.step = "checked" /\ rec.key \notin Refunders
  PROVE  BankGoesOn
<1>1. pay \in Seq(Payment) /\ Payments = 1..Len(pay)
  BY DEF RefundTypes, Payments
<1>2. /\ pay' \in Seq(Payment) /\ Len(pay') = Len(pay) + 1
      /\ \A q \in 1..Len(pay) : pay'[q] = pay[q]
      /\ pay'[Len(pay) + 1] = rec
  BY <1>1, AppendProperties
<1>3. Payments' = 1..(Len(pay) + 1) /\ Len(pay) \in Nat
  BY <1>1, <1>2 DEF Payments
<1>4. QED
  BY <1>1, <1>2, <1>3 DEF BankGoesOn, Onward

LEMMA NewPayments ==
  ASSUME RefundTypes, NEW kind \in {"out", "in", "refund"}, NEW a \in Customers \cup {Suspense},
         NEW n \in Nat, NEW k \in Keys \cup {NoKey}
  PROVE  /\ NewPayment(kind, a, n, k) \in Payment
         /\ NewPayment(kind, a, n, k).kind = kind /\ NewPayment(kind, a, n, k).key = k
         /\ NewPayment(kind, a, n, k).step = "checked"
<1> DEFINE fee == IF kind = "out" THEN Fee ELSE 0
           status == IF kind = "out" THEN "PROCESSING" ELSE "SETTLED"
           rec == NewPayment(kind, a, n, k)
<1>1. fee \in Nat /\ status \in {"PROCESSING", "SETTLED"} /\ clock \in Nat
  BY BankAssumption DEF RefundTypes
<1>2. rec = [kind |-> kind, account |-> a, amount |-> n, fee |-> fee,
             key |-> k, original |-> 0, scenario |-> "SETTLE", status |-> status,
             refunded |-> 0, at |-> clock, step |-> "checked", stored |-> FALSE]
  BY DEF NewPayment
<1> HIDE DEF fee, status, rec
<1>3. rec \in Payment /\ rec.kind = kind /\ rec.key = k /\ rec.step = "checked"
  BY <1>1, <1>2 DEF Payment, OutScenarios, Steps
<1>4. QED
  BY <1>3 DEF rec

\* The refund of payment o, as its request begins.
NewRefund(a, n, k, o) == [NewPayment("refund", a, n, k) EXCEPT !.original = o]

LEMMA NewRefunds ==
  ASSUME RefundTypes, NEW a, NEW n, NEW k, NEW o,
         a \in Customers \cup {Suspense}, n \in Nat, k \in Keys \cup {NoKey}, o \in Nat
  PROVE  /\ NewRefund(a, n, k, o) \in Payment /\ NewRefund(a, n, k, o).kind = "refund"
         /\ NewRefund(a, n, k, o).key = k /\ NewRefund(a, n, k, o).step = "checked"
<1> DEFINE first == NewPayment("refund", a, n, k)
<1>1. first \in Payment /\ first.kind = "refund" /\ first.key = k /\ first.step = "checked"
  BY NewPayments
<1> HIDE DEF first
<1>2. NewRefund(a, n, k, o) = [first EXCEPT !.original = o]
  BY DEF first, NewRefund
<1>3. QED
  BY <1>1, <1>2 DEF Payment

\* The original of a refund adds the amount up, and the refund is written.
LEMMA PersistRefundGoesOn ==
  ASSUME RefundTypes, NEW p \in Payments, NEW copies, PersistRefund(p, copies) PROVE BankGoesOn
<1> DEFINE o == pay[p].original
           total == pay[o].refunded + pay[p].amount
           status == IF total >= pay[o].amount THEN "REVERSED" ELSE "PARTIALLY_REVERSED"
           first == [pay[o] EXCEPT !.refunded = total, !.status = status]
           mid == [pay EXCEPT ![o] = first]
           rec == [mid[p] EXCEPT !.stored = TRUE, !.step = "done"]
<1>1. pay \in Seq(Payment) /\ Payments = 1..Len(pay) /\ pay[p] \in Payment /\ clock' \in Nat
  <2>1. pay \in Seq(Payment) /\ Payments = 1..Len(pay)
    BY DEF RefundTypes, Payments
  <2>2. clock' = clock /\ clock \in Nat
    BY DEF RefundTypes, PersistRefund
  <2>3. pay[p] \in Payment
    BY <2>1, ElementOfSeq
  <2>4. QED
    BY <2>1, <2>2, <2>3
<1>2. pay[p].kind = "refund" /\ pay[p].step = "posted"
  BY DEF PersistRefund
<1>3. pay' = [mid EXCEPT ![p] = rec]
  <2>1. pay' = [[pay EXCEPT ![o].refunded = total, ![o].status = status]
                  EXCEPT ![p].stored = TRUE, ![p].step = "done"]
    BY DEF PersistRefund
  <2>2. mid = [pay EXCEPT ![o].refunded = total, ![o].status = status]
    BY <1>1
  <2>3. DOMAIN mid = DOMAIN pay
    OBVIOUS
  <2> HIDE DEF mid
  <2>4. [mid EXCEPT ![p].stored = TRUE, ![p].step = "done"] = [mid EXCEPT ![p] = rec]
    BY <1>1, <2>3 DEF Payments
  <2>5. QED
    BY <2>1, <2>2, <2>4
<1>4. /\ mid \in Seq(Payment) /\ Len(mid) = Len(pay)
      /\ \A q \in Payments : mid[q].kind = pay[q].kind /\ mid[q].key = pay[q].key
                             /\ mid[q].step = pay[q].step
  <2>1. CASE o \in Payments
    <3>1. pay[o] \in Payment
      BY <1>1, <2>1, ElementOfSeq
    <3>2. total \in Nat /\ status \in {"REVERSED", "PARTIALLY_REVERSED"}
      <4>1. pay[o].refunded \in Nat /\ pay[p].amount \in Nat
        BY <1>1, <3>1 DEF Payment
      <4> HIDE DEF o
      <4>2. QED
        BY <4>1
    <3> HIDE DEF total, status
    <3>3. first \in Payment /\ first.kind = pay[o].kind /\ first.key = pay[o].key
          /\ first.step = pay[o].step
      BY <3>1, <3>2 DEF Payment
    <3> HIDE DEF first, o
    <3>4. QED
      BY <1>1, <2>1, <3>3, ExceptSeq
  <2>2. CASE o \notin Payments
    <3>1. mid = pay
      BY <1>1, <2>2
    <3> HIDE DEF mid
    <3>2. QED
      BY <1>1, <3>1
  <2>3. QED
    BY <2>1, <2>2
<1> HIDE DEF mid
<1>5. mid[p] \in Payment
  BY <1>1, <1>4, ElementOfSeq
<1>6. rec \in Payment /\ rec.kind = mid[p].kind /\ rec.key = mid[p].key /\ rec.step = "done"
  BY <1>5 DEF Payment, Steps
<1> HIDE DEF rec
<1>7. /\ pay' \in Seq(Payment) /\ Len(pay') = Len(pay)
      /\ \A q \in Payments : pay'[q] = IF q = p THEN rec ELSE mid[q]
  BY <1>1, <1>3, <1>4, <1>6, ExceptSeq
<1>8. Payments' = Payments
  BY <1>1, <1>7 DEF Payments
<1>9. \A q \in Payments : Onward(q)
  BY <1>2, <1>4, <1>6, <1>7 DEF Onward
<1>10. QED
  BY <1>1, <1>7, <1>8, <1>9 DEF BankGoesOn

LEMMA BankStepsGoOn == ASSUME RefundsInv, BankNext PROVE BankGoesOn
<1> USE DEF Steps
<1>1. PICK p \in Payments :
         \/ Authorize(p) \/ SettleCommit(p) \/ SettleMove(p)
         \/ KeepInSuspense(p) \/ CreditReceived(p) \/ AutoRefund(p) \/ DebitRefund(p)
         \/ \E copies \in Copies : \/ PersistOut(p, copies) \/ MarkSettled(p, copies)
                                   \/ PersistIn(p, copies) \/ PersistRefund(p, copies)
  BY DEF BankNext
<1>2. /\ RefundTypes /\ pay[p] \in Payment
      /\ pay[p].kind = "refund" => pay[p].step \in {"checked", "posted", "done", "failed"}
  BY ElementOfSeq DEF RefundsInv, RefundTypes, RefundShape, Payments
<1>3. CASE Authorize(p) \/ SettleCommit(p) \/ SettleMove(p) \/ CreditReceived(p) \/ DebitRefund(p)
  <2>1. \E s \in Steps : /\ Step(p, s) /\ UNCHANGED clock
                         /\ pay[p].kind = "refund" =>
                              pay[p].step = "checked" /\ s \in {"posted", "failed"}
    BY <1>2, <1>3 DEF Authorize, SettleCommit, SettleMove, CreditReceived, DebitRefund
  <2>2. QED
    BY <1>2, <2>1, OneStep
<1>4. CASE KeepInSuspense(p) \/ \E copies \in Copies : PersistIn(p, copies)
  <2>1. /\ pay' = [pay EXCEPT ![p].stored = TRUE, ![p].step = "done"]
        /\ pay[p].kind = "in" /\ UNCHANGED clock
    BY <1>4 DEF KeepInSuspense, PersistIn
  <2>2. pay' = [pay EXCEPT ![p] = [pay[p] EXCEPT !.stored = TRUE, !.step = "done"]]
    BY <1>2, <2>1 DEF RefundTypes, Payments
  <2>3. QED
    BY <1>2, <2>1, <2>2, OneFinish
<1>5. ASSUME NEW copies \in Copies, PersistOut(p, copies) PROVE BankGoesOn
  <2> DEFINE s == IF pay[p].scenario = "TIMEOUT" THEN "hung" ELSE "announced"
  <2>1. /\ pay' = [pay EXCEPT ![p].stored = TRUE, ![p].step = s]
        /\ pay[p].kind = "out" /\ UNCHANGED clock /\ s \in Steps
    BY <1>5 DEF PersistOut
  <2> HIDE DEF s
  <2>2. pay' = [pay EXCEPT ![p] = [pay[p] EXCEPT !.stored = TRUE, !.step = s]]
    BY <1>2, <2>1 DEF RefundTypes, Payments
  <2>3. QED
    BY ZenonT(60), <1>2, <2>1, <2>2, OneFinish
<1>6. ASSUME NEW copies \in Copies, MarkSettled(p, copies) PROVE BankGoesOn
  <2>1. /\ pay' = [pay EXCEPT ![p].status = "SETTLED", ![p].at = clock, ![p].step = "settled"]
        /\ pay[p].kind # "refund" /\ UNCHANGED clock
    BY <1>2, <1>6 DEF MarkSettled
  <2>2. pay' = [pay EXCEPT ![p] = [pay[p] EXCEPT !.status = "SETTLED", !.at = clock, !.step = "settled"]]
    BY <1>2, <2>1 DEF RefundTypes, Payments
  <2>3. QED
    BY <1>2, <2>1, <2>2, OneFinish
<1>7. CASE AutoRefund(p)
  <2>1. pay[p].kind # "refund" /\ UNCHANGED clock
    BY <1>2, <1>7 DEF AutoRefund
  <2>2. CASE Step(p, "done")
    BY <1>2, <2>1, <2>2, OneStep
  <2>3. CASE ~Step(p, "done")
    <3> DEFINE ended == [pay EXCEPT ![p].step = "done"]
               rec == [NewPayment("refund", pay[p].account, pay[p].amount, NoKey) EXCEPT !.original = p]
    <3>1. pay' = Append(ended, rec)
      BY <1>7, <2>3 DEF AutoRefund
    <3>2. /\ ended \in Seq(Payment) /\ Len(ended) = Len(pay)
          /\ \A q \in Payments : ended[q].kind = pay[q].kind /\ ended[q].key = pay[q].key
                                 /\ (q # p => ended[q] = pay[q])
      <4> DEFINE first == [pay[p] EXCEPT !.step = "done"]
      <4>1. first \in Payment /\ first.kind = pay[p].kind /\ first.key = pay[p].key
        BY <1>2 DEF Payment
      <4>2. ended = [pay EXCEPT ![p] = first] /\ pay \in Seq(Payment) /\ Payments = 1..Len(pay)
        BY <1>2 DEF RefundTypes, Payments
      <4> HIDE DEF first, ended
      <4>3. QED
        BY <4>1, <4>2, ExceptSeq
    <3>3. rec \in Payment /\ rec.kind = "refund" /\ rec.key = NoKey /\ rec.step = "checked"
      <4>1. pay[p].account \in Customers \cup {Suspense} /\ pay[p].amount \in Nat /\ p \in Nat
        BY <1>2, SMTT(30) DEF Payment, RefundTypes, Payments
      <4>2. RefundTypes /\ NoKey \in Keys \cup {NoKey}
        BY <1>2
      <4>3. rec = NewRefund(pay[p].account, pay[p].amount, NoKey, p)
        BY DEF NewRefund
      <4> HIDE DEF rec
      <4>4. QED
        BY <4>1, <4>2, <4>3, NewRefunds
    <3> HIDE DEF ended, rec
    <3>4. /\ pay' \in Seq(Payment) /\ Len(pay') = Len(pay) + 1
          /\ \A q \in Payments : pay'[q] = ended[q]
          /\ pay'[Len(pay) + 1] = rec /\ Payments = 1..Len(pay)
      <4>1. pay \in Seq(Payment) /\ Payments = 1..Len(pay)
        BY <1>2 DEF RefundTypes, Payments
      <4>2. QED
        BY <3>1, <3>2, <3>3, <4>1, AppendProperties
    <3>5. Payments' = 1..(Len(pay) + 1) /\ Len(pay) \in Nat
      BY <1>2, <3>4 DEF Payments, RefundTypes
    <3>6. \A q \in Payments : Onward(q)
      BY <2>1, <3>2, <3>4 DEF Onward
    <3>7. NoKey \notin Refunders
      BY BankAssumption, RefundAssumption DEF NoKey
    <3>8. clock' \in Nat
      BY <1>2, <2>1 DEF RefundTypes
    <3>9. QED
      BY <3>3, <3>4, <3>5, <3>6, <3>7, <3>8 DEF BankGoesOn
  <2>4. QED
    BY <2>2, <2>3
<1>8. QED
  BY <1>1, <1>2, <1>3, <1>4, <1>5, <1>6, <1>7, PersistRefundGoesOn

LEMMA OutsideGoesOn == ASSUME RefundsInv, Outside PROVE BankGoesOn
<1>1. RefundTypes /\ clock \in Nat
  BY DEF RefundsInv, RefundTypes
<1>2. ASSUME NEW a \in Customers \cup {Suspense}, NEW n \in Amounts, ReceivePix(a, n)
      PROVE  BankGoesOn
  <2> DEFINE rec == NewPayment("in", a, n, NoKey)
  <2>1. pay' = Append(pay, rec) /\ UNCHANGED clock
    BY <1>2 DEF ReceivePix, Begin
  <2>2. rec \in Payment /\ rec.kind = "in"
    <3>1. n \in Nat /\ NoKey \in Keys \cup {NoKey}
      BY BankAssumption
    <3>2. QED
      BY <1>1, <3>1, NewPayments
  <2> HIDE DEF rec
  <2>3. QED
    BY <1>1, <2>1, <2>2, OneMore
<1>3. ASSUME NEW a \in Customers, NEW n \in Amounts, NEW k \in Keys \cup {NoKey},
             NEW s \in Scenarios, SendPix(a, n, k, s)
      PROVE  BankGoesOn
  <2> DEFINE first == NewPayment("out", a, n, k)
             rec == [first EXCEPT !.scenario = s]
  <2>1. pay' = Append(pay, rec) /\ UNCHANGED clock
    BY <1>3 DEF SendPix, Begin
  <2>2. first \in Payment /\ first.kind = "out"
    BY <1>1, BankAssumption, NewPayments
  <2> HIDE DEF first
  <2>3. s \in OutScenarios
    BY BankAssumption
  <2>4. rec \in Payment /\ rec.kind = "out"
    BY <2>2, <2>3 DEF Payment
  <2> HIDE DEF rec
  <2>5. QED
    BY <1>1, <2>1, <2>4, OneMore
<1>4. ASSUME UNCHANGED pay, clock' \in Nat PROVE BankGoesOn
  BY <1>1, <1>4 DEF BankGoesOn, Onward, Payments, RefundTypes
<1>5. CASE AdvanceClock
  BY <1>1, <1>4, <1>5 DEF AdvanceClock
<1>6. ASSUME NEW a \in Customers, NEW s \in AccountStatus, SetStatus(a, s) PROVE BankGoesOn
  BY <1>1, <1>4, <1>6 DEF SetStatus
<1>7. QED
  BY <1>2, <1>3, <1>5, <1>6 DEF Outside

\* The request's own steps. What the bank has is as it was, or one payment more.
LEMMA RequestKeeps ==
  ASSUME RefundsInv, NEW r \in Refunders, NEW rec \in RefundRecord,
         refund' = [refund EXCEPT ![r] = rec], UNCHANGED <<pay, clock>>,
         rec.at \in {"none", "checked", "held"} => MadeBy(r) = {},
         rec.at \in {"held", "sent", "done", "unknown"} => rec.hold \in {"pending", "posted"},
         rec.at = "refused" => \A p \in MadeBy(r) : pay[p].step = "failed"
  PROVE  RefundsInv'
<1>1. refund' \in [Refunders -> RefundRecord] /\ refund'[r] = rec
      /\ \A q \in Refunders : q # r => refund'[q] = refund[q]
  BY DEF RefundsInv, RefundTypes
<1>2. \A q \in Refunders : MadeBy(q)' = MadeBy(q)
  BY DEF MadeBy, Payments
<1>3. RefundTypes' /\ RefundShape'
  BY <1>1 DEF RefundsInv, RefundTypes, RefundShape, Payments
<1>4. CalledOnce'
  BY <1>1, <1>2 DEF RefundsInv, CalledOnce
<1>5. HoldsInv'
  BY <1>1, <1>2 DEF RefundsInv, HoldsInv
<1>6. QED
  BY <1>3, <1>4, <1>5 DEF RefundsInv

LEMMA StartRefundKeeps ==
  ASSUME RefundsInv, CreditsInv, NEW r \in Refunders, NEW o \in rows, NEW n \in Amounts,
         StartRefund(r, o, n)
  PROVE  RefundsInv'
<1> DEFINE rec == [refund[r] EXCEPT !.at = "checked", !.of = o, !.amount = n]
<1>1. refund[r] = NoRefund /\ refund[r] \in RefundRecord /\ o \in Nat /\ n \in Nat
  BY BankAssumption DEF StartRefund, RefundsInv, RefundTypes, CreditsInv, Ids
<1>2. rec \in RefundRecord /\ rec.at = "checked"
  BY <1>1 DEF RefundRecord
<1>3. refund' = [refund EXCEPT ![r] = rec] /\ UNCHANGED <<pay, clock>>
  BY DEF StartRefund, bankVars
<1>4. MadeBy(r) = {}
  BY <1>1 DEF RefundsInv, CalledOnce, NoRefund
<1> HIDE DEF rec
<1>5. QED
  BY <1>2, <1>3, <1>4, RequestKeeps

\* The bank takes the call: one payment, the first of this request.
LEMMA CallBankKeeps ==
  ASSUME RefundsInv, NEW r \in Refunders, CallBank(r) PROVE RefundsInv'
<1>1. refund \in [Refunders -> RefundRecord] /\ refund[r] \in RefundRecord /\ refund[r].at = "held"
      /\ refund[r].hold \in {"pending", "posted"} /\ MadeBy(r) = {} /\ RefundTypes
  BY DEF CallBank, RefundsInv, RefundTypes, CalledOnce, HoldsInv
<1>2. CASE RefusedByBank(r)
  <2> DEFINE rec == [refund[r] EXCEPT !.at = "refused"]
  <2>1. refund' = [refund EXCEPT ![r] = rec] /\ UNCHANGED <<pay, clock>>
    BY <1>2 DEF CallBank, bankVars
  <2>2. rec \in RefundRecord /\ rec.at = "refused"
    BY <1>1 DEF RefundRecord
  <2> HIDE DEF rec
  <2>3. QED
    BY <1>1, <2>1, <2>2, RequestKeeps
<1>3. CASE ~RefusedByBank(r)
  <2> DEFINE o == refund[r].of
             new == NewRefund(pay[o].account, refund[r].amount, r, o)
  <2>1. /\ refund' = [refund EXCEPT ![r].at = "sent"] /\ UNCHANGED clock
        /\ o \in Stored /\ pay' = Append(pay, new)
    BY <1>3 DEF CallBank, Refund, Begin, NewRefund
  <2>2. new \in Payment /\ new.kind = "refund" /\ new.key = r /\ new.step = "checked"
    <3>1. pay[o] \in Payment
      BY <1>1, <2>1, ElementOfSeq DEF Stored, Payments, RefundTypes
    <3>2. pay[o].account \in Customers \cup {Suspense} /\ refund[r].amount \in Nat /\ o \in Nat
          /\ r \in Keys \cup {NoKey}
      BY <1>1, <3>1, RefundAssumption DEF Payment, RefundRecord
    <3>3. QED
      BY <1>1, <3>2, NewRefunds
  <2> HIDE DEF new
  <2>3. /\ pay' \in Seq(Payment) /\ Payments' = 1..(Len(pay) + 1) /\ Payments = 1..Len(pay)
        /\ Len(pay) \in Nat /\ pay'[Len(pay) + 1] = new /\ \A p \in Payments : pay'[p] = pay[p]
    BY <1>1, <2>1, <2>2, AppendProperties DEF RefundTypes, Payments
  <2>4. /\ MadeBy(r)' = {Len(pay) + 1}
        /\ \A q \in Refunders : q # r => MadeBy(q)' = MadeBy(q)
    <3>1. \A q \in Refunders : MadeBy(q)' =
             MadeBy(q) \cup (IF q = r THEN {Len(pay) + 1} ELSE {})
      BY <2>2, <2>3 DEF MadeBy
    <3>2. QED
      BY <1>1, <3>1
  <2>5. /\ refund' \in [Refunders -> RefundRecord] /\ refund'[r].at = "sent"
        /\ refund'[r].hold = refund[r].hold /\ \A q \in Refunders : q # r => refund'[q] = refund[q]
    BY <1>1, <2>1 DEF RefundRecord
  <2>6. RefundTypes'
    BY <1>1, <2>1, <2>3, <2>5 DEF RefundTypes
  <2>7. RefundShape'
    BY <2>2, <2>3 DEF RefundsInv, RefundShape
  <2>8. CalledOnce'
    BY <2>4, <2>5 DEF RefundsInv, CalledOnce
  <2>9. HoldsInv'
    <3> SUFFICES ASSUME NEW q \in Refunders
                 PROVE  /\ refund'[q].at \in {"held", "sent", "done", "unknown"} =>
                             refund'[q].hold \in {"pending", "posted"}
                        /\ refund'[q].at = "refused" => \A p \in MadeBy(q)' : pay'[p].step = "failed"
      BY DEF HoldsInv
    <3>1. CASE q = r
      BY <1>1, <2>5, <3>1
    <3>2. CASE q # r
      BY <2>3, <2>4, <2>5, <3>2 DEF RefundsInv, HoldsInv, MadeBy
    <3>3. QED
      BY <3>1, <3>2
  <2>10. QED
    BY <2>6, <2>7, <2>8, <2>9 DEF RefundsInv
<1>4. QED
  BY <1>2, <1>3

LEMMA AnswersKeep ==
  ASSUME RefundsInv, NEW r \in Refunders,
         HoldRefund(r) \/ LoseAnswer(r) \/ AnswerRefused(r) \/ VoidRefund(r) \/ WriteRefund(r)
  PROVE  RefundsInv'
<1>1. /\ refund[r] \in RefundRecord
      /\ refund[r].at \in {"none", "checked", "held"} => MadeBy(r) = {}
      /\ \A p, q \in MadeBy(r) : p = q
      /\ refund[r].at \in {"held", "sent", "done", "unknown"} => refund[r].hold \in {"pending", "posted"}
      /\ refund[r].at = "refused" => \A p \in MadeBy(r) : pay[p].step = "failed"
      /\ MadeBy(r) \subseteq Nat
  BY DEF RefundsInv, RefundTypes, CalledOnce, HoldsInv, MadeBy, Payments
<1>2. UNCHANGED <<pay, clock>>
  BY DEF HoldRefund, LoseAnswer, AnswerRefused, VoidRefund, WriteRefund, bankVars
<1>3. \E rec \in RefundRecord :
        /\ refund' = [refund EXCEPT ![r] = rec]
        /\ rec.at \in {"none", "checked", "held"} => MadeBy(r) = {}
        /\ rec.at \in {"held", "sent", "done", "unknown"} => rec.hold \in {"pending", "posted"}
        /\ rec.at = "refused" => \A p \in MadeBy(r) : pay[p].step = "failed"
  <2>1. CASE HoldRefund(r)
    <3> DEFINE held == [refund[r] EXCEPT !.at = "held", !.hold = "pending"]
               refused == [refund[r] EXCEPT !.at = "refused"]
    <3>1. held \in RefundRecord /\ held.at = "held" /\ held.hold = "pending"
          /\ refused \in RefundRecord /\ refused.at = "refused" /\ MadeBy(r) = {}
      BY <1>1, <2>1 DEF HoldRefund, RefundRecord
    <3>2. refund' = [refund EXCEPT ![r] = held] \/ refund' = [refund EXCEPT ![r] = refused]
      BY <2>1 DEF HoldRefund, RefundsInv, RefundTypes
    <3> HIDE DEF held, refused
    <3>3. QED
      BY <3>1, <3>2
  <2>2. CASE LoseAnswer(r)
    <3> DEFINE rec == [refund[r] EXCEPT !.at = "unknown"]
    <3>1. rec \in RefundRecord /\ rec.at = "unknown" /\ rec.hold \in {"pending", "posted"}
      BY <1>1, <2>2 DEF LoseAnswer, RefundRecord
    <3>2. refund' = [refund EXCEPT ![r] = rec]
      BY <2>2 DEF LoseAnswer
    <3> HIDE DEF rec
    <3>3. QED
      BY <3>1, <3>2
  <2>3. CASE AnswerRefused(r)
    <3> DEFINE rec == [refund[r] EXCEPT !.at = "refused"]
    <3>1. rec \in RefundRecord /\ rec.at = "refused" /\ \A p \in MadeBy(r) : pay[p].step = "failed"
      BY <1>1, <2>3 DEF AnswerRefused, RefundRecord
    <3>2. refund' = [refund EXCEPT ![r] = rec]
      BY <2>3 DEF AnswerRefused
    <3> HIDE DEF rec
    <3>3. QED
      BY <3>1, <3>2
  <2>4. CASE VoidRefund(r)
    <3> DEFINE rec == [refund[r] EXCEPT !.hold = "void"]
    <3>1. rec \in RefundRecord /\ rec.at = "refused" /\ \A p \in MadeBy(r) : pay[p].step = "failed"
      BY <1>1, <2>4 DEF VoidRefund, RefundRecord
    <3>2. refund' = [refund EXCEPT ![r] = rec]
      BY <2>4 DEF VoidRefund
    <3> HIDE DEF rec
    <3>3. QED
      BY <3>1, <3>2
  <2>5. CASE WriteRefund(r)
    <3>1. PICK p \in MadeBy(r) : refund' = [refund EXCEPT ![r].at = "done", ![r].row = p]
      BY <2>5 DEF WriteRefund
    <3> DEFINE rec == [refund[r] EXCEPT !.at = "done", !.row = p]
    <3>2. rec \in RefundRecord /\ rec.at = "done" /\ rec.hold \in {"pending", "posted"}
      BY <1>1, <2>5 DEF WriteRefund, RefundRecord
    <3>3. refund' = [refund EXCEPT ![r] = rec]
      BY <3>1 DEF RefundsInv, RefundTypes
    <3> HIDE DEF rec
    <3>4. QED
      BY <3>2, <3>3
  <2>6. QED
    BY <2>1, <2>2, <2>3, <2>4, <2>5
<1>4. QED
  BY <1>2, <1>3, RequestKeeps

\* The webhook settles the holds of the refund it names.
LEMMA HookRefundKeeps == ASSUME RefundsInv, NEW m, HookRefund(m) PROVE RefundsInv'
<1>1. UNCHANGED <<pay, clock>>
  BY DEF HookRefund
<1>2. ASSUME NEW r \in Refunders
      PROVE  /\ refund'[r] \in RefundRecord /\ refund'[r].at = refund[r].at
             /\ refund'[r].hold = refund[r].hold \/ refund'[r].hold = "posted"
  <2>1. refund[r] \in RefundRecord
    BY DEF RefundsInv, RefundTypes
  <2>2. \/ refund'[r] = refund[r]
        \/ refund'[r] = [refund[r] EXCEPT !.hold = "posted"]
    BY DEF HookRefund
  <2>3. QED
    BY <2>1, <2>2 DEF RefundRecord
<1>3. RefundTypes'
  <2>1. refund' = [r \in Refunders |-> refund'[r]]
    BY DEF HookRefund
  <2>2. QED
    BY <1>1, <1>2, <2>1 DEF RefundsInv, RefundTypes
<1>4. \A r \in Refunders : MadeBy(r)' = MadeBy(r)
  BY <1>1 DEF MadeBy, Payments
<1>5. RefundShape' /\ CalledOnce'
  BY <1>1, <1>2, <1>4 DEF RefundsInv, RefundShape, CalledOnce, Payments
<1>6. HoldsInv'
  BY <1>1, <1>2, <1>4 DEF RefundsInv, HoldsInv
<1>7. QED
  BY <1>3, <1>5, <1>6 DEF RefundsInv

LEMMA RefundsStep == RefundsInv /\ CreditsInv /\ [Next]_vars => RefundsInv'
<1> SUFFICES ASSUME RefundsInv, CreditsInv, [Next]_vars PROVE RefundsInv'
  OBVIOUS
<1>1. ASSUME UNCHANGED <<pay, clock, refund>> PROVE RefundsInv'
  BY <1>1 DEF RefundsInv, RefundTypes, RefundShape, CalledOnce, HoldsInv, MadeBy, Payments
<1>2. CASE Outside /\ UNCHANGED refund
  BY <1>2, OutsideGoesOn, BankKeeps
<1>3. CASE BankNext /\ UNCHANGED refund
  BY <1>3, BankStepsGoOn, BankKeeps
<1>4. CASE CreditNext /\ UNCHANGED refund
  <2>1. UNCHANGED <<pay, clock>>
    BY ZenonT(60), <1>4 DEF CreditNext, ReceiveHook, LoseHook, RetryHook, LookUp, ExpireLock, PollEntry, Import,
       Apply, PostCredit, WriteRow, Tell, Fail, StartPoll, EndPoll, FailPoll, bankVars
  <2>2. QED
    BY <1>1, <1>4, <2>1
<1>5. CASE RefundNext
  BY <1>5, StartRefundKeeps, CallBankKeeps, AnswersKeep, HookRefundKeeps DEF RefundNext
<1>6. CASE UNCHANGED vars
  BY <1>1, <1>6 DEF vars, bankVars
<1>7. QED
  BY <1>2, <1>3, <1>4, <1>5, <1>6 DEF Next

\* What the bank gave back for a request of ours is reserved or debited in the shadow
\* ledger, whatever answers were lost and whenever the webhooks came: the hold comes
\* before the call and only a refusal of the bank, which is for good, releases it
\* (refund, voidOut).
THEOREM RefundsAreHeld == Spec => []RefundIsHeld
<1>1. Init => RefundsInv /\ CreditsInv
  BY RefundsInitially, CreditsInitially
<1>2. QED
  BY <1>1, RefundsStep, CreditsStep, HeldByInvariant, PTL DEF Spec

-----------------------------------------------------------------------------
(* The statement of a customer at the bank.                                *)

\* The money of a payment has moved in the bank's ledger: for a Pix out with the
\* commit, for the others with their only posting.
Moved(rec) ==
  IF rec.kind = "out" THEN rec.step \in {"committed", "moved", "settled", "done"}
                      ELSE rec.step \in {"posted", "done"}

MovedOf(c) == {p \in Payments : pay[p].account = c /\ Moved(pay[p])}

\* What the step of a request says about what is written of its payment.
Shape(rec) ==
  /\ rec.kind = "out" =>
       /\ rec.step \in {"checked", "failed", "posted", "hung", "announced", "committed",
                        "moved", "settled", "done"}
       /\ rec.step \in {"checked", "failed", "posted"} => ~rec.stored
       /\ rec.step \notin {"checked", "failed", "posted"} => rec.stored
       /\ rec.step \notin {"settled", "done"} => rec.status = "PROCESSING"
       /\ rec.step \in {"settled", "done"} => rec.status \in SETTLED_FOR_STATEMENT
  /\ rec.kind # "out" =>
       /\ rec.step \in {"checked", "failed", "posted", "done"}
       /\ rec.step = "done" <=> rec.stored
       /\ rec.status \in SETTLED_FOR_STATEMENT
  /\ rec.kind = "refund" => rec.fee = 0

\* What is refunded is over: a Pix in that was written, or a Pix out that settled.
OriginalsDone ==
  \A p \in Payments : pay[p].kind = "refund" =>
    LET o == pay[p].original
    IN  o \in Payments /\ pay[o].kind # "refund" /\ pay[o].step = "done"

Lines == [p \in Payments |-> Signed(p)]

\* The books move with the payments, one by one.
BooksFollow ==
  \A c \in Customers :
    PostedBalance(c, books[c]) = Opening + SumFunctionOnSet(Lines, MovedOf(c))

PaymentsInv ==
  /\ pay \in Seq(Payment) /\ books \in [Accounts -> Counters] /\ clock \in Nat
  /\ \A p \in Payments : Shape(pay[p])
  /\ OriginalsDone
  /\ BooksFollow

\* The lines of the statement and what is in transit are the payments that moved.
LEMMA ClosesByInvariant == PaymentsInv => StatementCloses
<1> SUFFICES ASSUME PaymentsInv, NEW c \in Customers
             PROVE  {p \in Payments : OnStatement(p) /\ pay[p].account = c} \cup InTransit(c) = MovedOf(c)
  BY DEF PaymentsInv, BooksFollow, StatementCloses, Lines
<1>1. ASSUME NEW p \in Payments
      PROVE  (OnStatement(p) \/ (pay[p].step = "posted" /\ pay[p].kind # "out")
                \/ pay[p].step \in {"committed", "moved"}) <=> Moved(pay[p])
  <2>1. pay[p] \in Payment /\ Shape(pay[p])
    BY ElementOfSeq DEF PaymentsInv, Payments
  <2>2. CASE pay[p].kind = "out"
    BY <2>1, <2>2 DEF Shape, Moved, OnStatement, SETTLED_FOR_STATEMENT
  <2>3. CASE pay[p].kind # "out"
    BY <2>1, <2>3 DEF Shape, Moved, OnStatement
  <2>4. QED
    BY <2>2, <2>3
<1>2. QED
  BY <1>1 DEF InTransit, MovedOf

\* What no step changes in a payment.
SameLine(p) ==
  /\ pay'[p].kind = pay[p].kind /\ pay'[p].account = pay[p].account
  /\ pay'[p].amount = pay[p].amount /\ pay'[p].fee = pay[p].fee
  /\ pay'[p].original = pay[p].original

\* A step of the bank: payments keep their line, a new one has not moved.
LinesGoOn ==
  /\ pay' \in Seq(Payment) /\ clock' \in Nat /\ books' \in [Accounts -> Counters]
  /\ \A p \in Payments :
       /\ p \in Payments' /\ SameLine(p) /\ Shape(pay'[p])
       /\ pay[p].step = "done" => pay'[p].step = "done"
  /\ \A p \in Payments' \ Payments :
       /\ Shape(pay'[p]) /\ pay'[p].step = "checked"
       /\ pay'[p].kind = "refund" =>
            LET o == pay'[p].original
            IN  o \in Payments /\ pay[o].kind # "refund" /\ pay'[o].step = "done"

LEMMA LinesKeepOriginals == ASSUME PaymentsInv, LinesGoOn PROVE OriginalsDone'
  BY SMTT(30) DEF PaymentsInv, LinesGoOn, OriginalsDone, SameLine

LEMMA LineTypes ==
  ASSUME pay \in Seq(Payment), NEW c
  PROVE  /\ \A p \in Payments : Lines[p] \in Int /\ pay[p] \in Payment
         /\ MovedOf(c) \subseteq Payments /\ IsFiniteSet(MovedOf(c))
<1>1. \A p \in Payments : pay[p] \in Payment
  BY ElementOfSeq DEF Payments
<1>2. \A p \in Payments : Lines[p] \in Int
  BY <1>1, SMTT(30) DEF Lines, Signed, Payment
<1>3. IsFiniteSet(1..Len(pay)) /\ Payments = 1..Len(pay)
  BY FS_Interval DEF Payments
<1>4. QED
  BY <1>1, <1>2, <1>3, FS_Subset DEF MovedOf

\* A step in which no money moves.
LEMMA QuietStep ==
  ASSUME PaymentsInv, LinesGoOn, \A p \in Payments : Moved(pay'[p]) <=> Moved(pay[p]),
         \A c \in Customers : PostedBalance(c, books'[c]) = PostedBalance(c, books[c])
  PROVE  PaymentsInv'
<1>1. ASSUME NEW c \in Customers
      PROVE  SumFunctionOnSet(Lines', MovedOf(c)') = SumFunctionOnSet(Lines, MovedOf(c))
  <2>1. MovedOf(c)' = MovedOf(c)
    BY DEF MovedOf, LinesGoOn, SameLine, Moved, Shape
  <2>2. \A p \in MovedOf(c) : Lines'[p] = Lines[p]
    BY DEF MovedOf, Lines, Signed, LinesGoOn, SameLine
  <2>3. IsFiniteSet(MovedOf(c)) /\ \A p \in MovedOf(c) : Lines[p] \in Int
    BY LineTypes DEF PaymentsInv
  <2>4. QED
    BY <2>1, <2>2, <2>3, SumSame
<1>2. BooksFollow'
  BY <1>1 DEF PaymentsInv, BooksFollow
<1>3. \A p \in Payments' : Shape(pay[p])'
  BY DEF LinesGoOn, Shape
<1>4. QED
  BY <1>2, <1>3, LinesKeepOriginals DEF PaymentsInv, LinesGoOn

\* A step in which the money of one payment moves.
LEMMA MovingStep ==
  ASSUME PaymentsInv, LinesGoOn, NEW p \in Payments,
         ~Moved(pay[p]), Moved(pay'[p]),
         \A q \in Payments : q # p => (Moved(pay'[q]) <=> Moved(pay[q])),
         \A c \in Customers : PostedBalance(c, books'[c]) =
           IF c = pay[p].account THEN PostedBalance(c, books[c]) + Signed(p)
                                 ELSE PostedBalance(c, books[c])
  PROVE  PaymentsInv'
<1>1. ASSUME NEW c \in Customers
      PROVE  SumFunctionOnSet(Lines', MovedOf(c)') =
               IF c = pay[p].account THEN SumFunctionOnSet(Lines, MovedOf(c)) + Signed(p)
                                     ELSE SumFunctionOnSet(Lines, MovedOf(c))
  <2>1. MovedOf(c)' = MovedOf(c) \cup (IF c = pay[p].account THEN {p} ELSE {})
    BY DEF MovedOf, LinesGoOn, SameLine, Moved, Shape
  <2>2. \A q \in Payments : Lines'[q] = Lines[q]
    BY DEF Lines, Signed, LinesGoOn, SameLine
  <2>3. /\ IsFiniteSet(MovedOf(c)) /\ MovedOf(c) \subseteq Payments /\ p \notin MovedOf(c)
        /\ \A q \in Payments : Lines[q] \in Int
    BY LineTypes DEF PaymentsInv, MovedOf
  <2>4. SumFunctionOnSet(Lines', MovedOf(c)) = SumFunctionOnSet(Lines, MovedOf(c))
    BY <2>2, <2>3, SumSame
  <2>5. SumFunctionOnSet(Lines', MovedOf(c) \cup {p}) = Lines'[p] + SumFunctionOnSet(Lines', MovedOf(c))
    BY <2>2, <2>3, SumAdd, ZenonT(60)
  <2>6. SumFunctionOnSet(Lines, MovedOf(c)) \in Int
    BY <2>3, SumTakeOut
  <2>7. Lines'[p] = Signed(p) /\ Signed(p) \in Int
    BY <2>2, <2>3 DEF Lines
  <2>8. CASE c = pay[p].account
    <3>1. SumFunctionOnSet(Lines', MovedOf(c)') = Signed(p) + SumFunctionOnSet(Lines, MovedOf(c))
      BY <2>1, <2>4, <2>5, <2>7, <2>8
    <3>2. QED
      BY <2>6, <2>7, <2>8, <3>1
  <2>9. CASE c # pay[p].account
    <3>1. MovedOf(c)' = MovedOf(c)
      BY <2>1, <2>9
    <3>2. QED
      BY <2>4, <2>9, <3>1
  <2>10. QED
    BY <2>8, <2>9
<1>2. ASSUME NEW c \in Customers
      PROVE  PostedBalance(c, books'[c]) = Opening + SumFunctionOnSet(Lines', MovedOf(c)')
  <2>1. SumFunctionOnSet(Lines, MovedOf(c)) \in Int /\ Signed(p) \in Int /\ Opening \in Int
    <3>1. \A q \in MovedOf(c) : Lines[q] \in Int
      BY LineTypes DEF PaymentsInv
    <3>2. IsFiniteSet(MovedOf(c)) /\ Lines[p] \in Int
      BY LineTypes DEF PaymentsInv
    <3>3. QED
      BY <3>1, <3>2, SumTakeOut, BankAssumption DEF Lines
  <2>2. PostedBalance(c, books[c]) = Opening + SumFunctionOnSet(Lines, MovedOf(c))
    BY DEF PaymentsInv, BooksFollow
  <2>3. CASE c = pay[p].account
    <3>1. PostedBalance(c, books'[c]) = (Opening + SumFunctionOnSet(Lines, MovedOf(c))) + Signed(p)
      BY <2>2, <2>3
    <3>2. SumFunctionOnSet(Lines', MovedOf(c)') = SumFunctionOnSet(Lines, MovedOf(c)) + Signed(p)
      BY <1>1, <2>3
    <3>3. \A x, y, z \in Int : (x + y) + z = x + (y + z)
      OBVIOUS
    <3>4. QED
      BY <2>1, <3>1, <3>2, <3>3
  <2>4. CASE c # pay[p].account
    BY <1>1, <2>2, <2>4
  <2>5. QED
    BY <2>3, <2>4
<1>3. BooksFollow'
  BY <1>2 DEF BooksFollow
<1>4. \A q \in Payments' : Shape(pay[q])'
  BY DEF LinesGoOn, Shape
<1>5. QED
  BY <1>3, <1>4, LinesKeepOriginals DEF PaymentsInv, LinesGoOn
\* What one leg does to a customer's posted balance: nothing while it is pending, its
\* amount when it is posted, at once or by a commit.
Change(leg) == IF leg.direction = "CREDIT" THEN leg.amount ELSE -leg.amount

LEMMA LegEffect ==
  ASSUME NEW c \in Counters, NEW leg, leg.direction \in Directions, leg.amount \in Int
  PROVE  /\ ApplyNew(c, leg, "PENDING") \in Counters /\ ApplyNew(c, leg, "POSTED") \in Counters
         /\ ApplyResolve(c, leg, TRUE) \in Counters
         /\ \A a \in Customers :
              /\ PostedBalance(a, ApplyNew(c, leg, "PENDING")) = PostedBalance(a, c)
              /\ PostedBalance(a, ApplyNew(c, leg, "POSTED")) = PostedBalance(a, c) + Change(leg)
              /\ PostedBalance(a, ApplyResolve(c, leg, TRUE)) = PostedBalance(a, c) + Change(leg)
<1> DEFINE n == leg.amount
<1>1. \A a \in Customers : NormalBalance[a] = "CREDIT"
  BY BankAssumption
<1>2. n \in Int
  OBVIOUS
<1> HIDE DEF n
<1>3. ASSUME NEW d \in Counters
      PROVE  /\ [d EXCEPT !.debitsPending = @ + n] \in Counters
             /\ [d EXCEPT !.creditsPending = @ + n] \in Counters
             /\ [d EXCEPT !.debitsPending = @ - n] \in Counters
             /\ [d EXCEPT !.creditsPending = @ - n] \in Counters
             /\ [d EXCEPT !.debitsPosted = @ + n] \in Counters
             /\ [d EXCEPT !.creditsPosted = @ + n] \in Counters
  BY <1>2 DEF Counters
<1>4. ASSUME NEW d \in Counters, NEW a \in Customers
      PROVE  /\ PostedBalance(a, [d EXCEPT !.debitsPending = @ + n]) = PostedBalance(a, d)
             /\ PostedBalance(a, [d EXCEPT !.creditsPending = @ + n]) = PostedBalance(a, d)
             /\ PostedBalance(a, [d EXCEPT !.debitsPending = @ - n]) = PostedBalance(a, d)
             /\ PostedBalance(a, [d EXCEPT !.creditsPending = @ - n]) = PostedBalance(a, d)
             /\ PostedBalance(a, [d EXCEPT !.debitsPosted = @ + n]) = PostedBalance(a, d) + (-n)
             /\ PostedBalance(a, [d EXCEPT !.creditsPosted = @ + n]) = PostedBalance(a, d) + n
  BY <1>1, <1>2 DEF Counters, PostedBalance
<1>5. CASE leg.direction = "CREDIT"
  <2> DEFINE e == [c EXCEPT !.creditsPending = @ - n]
  <2>1. /\ ApplyNew(c, leg, "PENDING") = [c EXCEPT !.creditsPending = @ + n]
        /\ ApplyNew(c, leg, "POSTED") = [c EXCEPT !.creditsPosted = @ + n]
        /\ ApplyResolve(c, leg, TRUE) = [e EXCEPT !.creditsPosted = @ + n]
    BY <1>5 DEF ApplyNew, ApplyResolve, Release, n
  <2>2. e \in Counters /\ \A a \in Customers : PostedBalance(a, e) = PostedBalance(a, c)
    BY <1>3, <1>4
  <2> HIDE DEF e
  <2>3. Change(leg) = n
    BY <1>5 DEF Change, n
  <2>4. /\ ApplyNew(c, leg, "PENDING") \in Counters /\ ApplyNew(c, leg, "POSTED") \in Counters
        /\ ApplyResolve(c, leg, TRUE) \in Counters
    BY <1>3, <2>1, <2>2
  <2>5. \A a \in Customers :
          /\ PostedBalance(a, ApplyNew(c, leg, "PENDING")) = PostedBalance(a, c)
          /\ PostedBalance(a, ApplyNew(c, leg, "POSTED")) = PostedBalance(a, c) + n
          /\ PostedBalance(a, ApplyResolve(c, leg, TRUE)) = PostedBalance(a, c) + n
    <3> SUFFICES ASSUME NEW a \in Customers
                 PROVE  /\ PostedBalance(a, ApplyNew(c, leg, "PENDING")) = PostedBalance(a, c)
                        /\ PostedBalance(a, ApplyNew(c, leg, "POSTED")) = PostedBalance(a, c) + n
                        /\ PostedBalance(a, ApplyResolve(c, leg, TRUE)) = PostedBalance(a, c) + n
      OBVIOUS
    <3>1. PostedBalance(a, [c EXCEPT !.creditsPending = @ + n]) = PostedBalance(a, c)
      BY <1>4
    <3>2. PostedBalance(a, [c EXCEPT !.creditsPosted = @ + n]) = PostedBalance(a, c) + n
      BY <1>4
    <3>3. PostedBalance(a, [e EXCEPT !.creditsPosted = @ + n]) = PostedBalance(a, e) + n
      BY <1>4, <2>2
    <3>4. QED
      BY <2>1, <2>2, <3>1, <3>2, <3>3
  <2>6. QED
    BY <2>3, <2>4, <2>5
<1>6. CASE leg.direction = "DEBIT"
  <2> DEFINE e == [c EXCEPT !.debitsPending = @ - n]
  <2>1. /\ ApplyNew(c, leg, "PENDING") = [c EXCEPT !.debitsPending = @ + n]
        /\ ApplyNew(c, leg, "POSTED") = [c EXCEPT !.debitsPosted = @ + n]
        /\ ApplyResolve(c, leg, TRUE) = [e EXCEPT !.debitsPosted = @ + n]
    BY <1>6 DEF ApplyNew, ApplyResolve, Release, n
  <2>2. e \in Counters /\ \A a \in Customers : PostedBalance(a, e) = PostedBalance(a, c)
    BY <1>3, <1>4
  <2> HIDE DEF e
  <2>3. Change(leg) = -n
    BY <1>6 DEF Change, n
  <2>4. /\ ApplyNew(c, leg, "PENDING") \in Counters /\ ApplyNew(c, leg, "POSTED") \in Counters
        /\ ApplyResolve(c, leg, TRUE) \in Counters
    BY <1>3, <2>1, <2>2
  <2>5. \A a \in Customers :
          /\ PostedBalance(a, ApplyNew(c, leg, "PENDING")) = PostedBalance(a, c)
          /\ PostedBalance(a, ApplyNew(c, leg, "POSTED")) = PostedBalance(a, c) + (-n)
          /\ PostedBalance(a, ApplyResolve(c, leg, TRUE)) = PostedBalance(a, c) + (-n)
    <3> SUFFICES ASSUME NEW a \in Customers
                 PROVE  /\ PostedBalance(a, ApplyNew(c, leg, "PENDING")) = PostedBalance(a, c)
                        /\ PostedBalance(a, ApplyNew(c, leg, "POSTED")) = PostedBalance(a, c) + (-n)
                        /\ PostedBalance(a, ApplyResolve(c, leg, TRUE)) = PostedBalance(a, c) + (-n)
      OBVIOUS
    <3>1. PostedBalance(a, [c EXCEPT !.debitsPending = @ + n]) = PostedBalance(a, c)
      BY <1>4
    <3>2. PostedBalance(a, [c EXCEPT !.debitsPosted = @ + n]) = PostedBalance(a, c) + (-n)
      BY <1>4
    <3>3. PostedBalance(a, [e EXCEPT !.debitsPosted = @ + n]) = PostedBalance(a, e) + (-n)
      BY <1>4, <2>2
    <3>4. QED
      BY <2>1, <2>2, <3>1, <3>2, <3>3
  <2>6. QED
    BY <2>3, <2>4, <2>5
<1>7. QED
  BY <1>5, <1>6 DEF Directions

\* The books after a posting or a commit, for the customers.
Entries(legs) ==
  \A a \in DOMAIN legs : legs[a].direction \in Directions /\ legs[a].amount \in Int

Net(legs, c) == IF c \in DOMAIN legs THEN Change(legs[c]) ELSE 0

LEMMA BooksAfter ==
  ASSUME books \in [Accounts -> Counters], NEW legs, Entries(legs)
  PROVE  /\ AfterPost(books, legs, "PENDING") \in [Accounts -> Counters]
         /\ AfterPost(books, legs, "POSTED") \in [Accounts -> Counters]
         /\ AfterResolve(books, legs, TRUE) \in [Accounts -> Counters]
         /\ \A c \in Customers :
              LET b == PostedBalance(c, books[c])
              IN  /\ PostedBalance(c, AfterPost(books, legs, "PENDING")[c]) = b
                  /\ PostedBalance(c, AfterPost(books, legs, "POSTED")[c]) = b + Net(legs, c)
                  /\ PostedBalance(c, AfterResolve(books, legs, TRUE)[c]) = b + Net(legs, c)
<1>1. \A a \in Accounts : books[a] \in Counters
  OBVIOUS
<1>2. Customers \subseteq Accounts
  BY BankAssumption
<1>3. \A c \in Customers : PostedBalance(c, books[c]) \in Int
  BY <1>1, <1>2, BankAssumption DEF PostedBalance, Counters
<1>4. ASSUME NEW a \in Accounts
      PROVE  /\ AfterPost(books, legs, "PENDING")[a] \in Counters
             /\ AfterPost(books, legs, "POSTED")[a] \in Counters
             /\ AfterResolve(books, legs, TRUE)[a] \in Counters
  <2>1. CASE a \in DOMAIN legs
    BY <1>1, <2>1, LegEffect DEF Entries, AfterPost, AfterResolve
  <2>2. CASE a \notin DOMAIN legs
    BY <1>1, <2>2 DEF AfterPost, AfterResolve
  <2>3. QED
    BY <2>1, <2>2
<1>5. ASSUME NEW c \in Customers
      PROVE  LET b == PostedBalance(c, books[c])
              IN  /\ PostedBalance(c, AfterPost(books, legs, "PENDING")[c]) = b
                  /\ PostedBalance(c, AfterPost(books, legs, "POSTED")[c]) = b + Net(legs, c)
                  /\ PostedBalance(c, AfterResolve(books, legs, TRUE)[c]) = b + Net(legs, c)
  <2>1. CASE c \in DOMAIN legs
    <3>1. legs[c].direction \in Directions /\ legs[c].amount \in Int /\ books[c] \in Counters
      BY <1>1, <1>2, <2>1 DEF Entries
    <3>2. /\ AfterPost(books, legs, "PENDING")[c] = ApplyNew(books[c], legs[c], "PENDING")
          /\ AfterPost(books, legs, "POSTED")[c] = ApplyNew(books[c], legs[c], "POSTED")
          /\ AfterResolve(books, legs, TRUE)[c] = ApplyResolve(books[c], legs[c], TRUE)
      BY <1>2, <2>1 DEF AfterPost, AfterResolve
    <3>3. Net(legs, c) = Change(legs[c])
      BY <2>1 DEF Net
    <3>4. \A a \in Customers :
            /\ PostedBalance(a, ApplyNew(books[c], legs[c], "PENDING")) = PostedBalance(a, books[c])
            /\ PostedBalance(a, ApplyNew(books[c], legs[c], "POSTED"))
                 = PostedBalance(a, books[c]) + Change(legs[c])
            /\ PostedBalance(a, ApplyResolve(books[c], legs[c], TRUE))
                 = PostedBalance(a, books[c]) + Change(legs[c])
      BY <3>1, LegEffect
    <3>5. QED
      BY <3>2, <3>3, <3>4
  <2>2. CASE c \notin DOMAIN legs
    <3>1. /\ AfterPost(books, legs, "PENDING")[c] = books[c]
          /\ AfterPost(books, legs, "POSTED")[c] = books[c]
          /\ AfterResolve(books, legs, TRUE)[c] = books[c]
      BY <1>2, <2>2 DEF AfterPost, AfterResolve
    <3>2. Net(legs, c) = 0 /\ PostedBalance(c, books[c]) + 0 = PostedBalance(c, books[c])
      BY <1>3, <2>2 DEF Net
    <3>3. QED
      BY <3>1, <3>2
  <2>3. QED
    BY <2>1, <2>2
<1>6. QED
  BY <1>4, <1>5 DEF AfterPost, AfterResolve

\* The legs of the bank's postings.
LEMMA BankLegs ==
  ASSUME NEW rec \in Payment
  PROVE  /\ Entries(AuthorizePixOut(rec)) /\ Entries(SettleExternal(rec))
         /\ Entries(CreditFromExternal(rec)) /\ Entries(PostRefund(rec))
         /\ \A c \in Customers :
              LET own(n) == IF c = rec.account THEN n ELSE 0
              IN  /\ Net(AuthorizePixOut(rec), c) = own(-(rec.amount + rec.fee))
                  /\ Net(SettleExternal(rec), c) = 0
                  /\ Net(CreditFromExternal(rec), c) = own(rec.amount)
                  /\ Net(PostRefund(rec), c) = own(-rec.amount)
<1>1. rec.amount \in Nat /\ rec.fee \in Nat
  BY DEF Payment
<1>2. \A c \in Customers : c # "clearing" /\ c # "fees" /\ c # "world"
  BY BankAssumption
<1>3. ASSUME NEW n \in Nat
      PROVE  /\ Debit(n).direction = "DEBIT" /\ Debit(n).amount = n
             /\ Credit(n).direction = "CREDIT" /\ Credit(n).amount = n
  BY DEF Debit, Credit
<1>4. ASSUME NEW from, NEW to, NEW n \in Nat
      PROVE  /\ Entries(Transfer(from, to, n))
             /\ \A c \in Customers : Net(Transfer(from, to, n), c) =
                  IF c = from THEN -n ELSE IF c = to THEN n ELSE 0
  BY <1>3 DEF Entries, Net, Change, Transfer, Directions
<1>5. ASSUME NEW a \in DOMAIN AuthorizePixOut(rec)
      PROVE  AuthorizePixOut(rec)[a] = IF a = rec.account THEN Debit(rec.amount + rec.fee)
               ELSE Credit(IF a = "clearing" THEN rec.amount ELSE rec.fee)
  BY DEF AuthorizePixOut
<1>6. \A c \in Customers : c \in DOMAIN AuthorizePixOut(rec) <=> c = rec.account
  BY <1>2 DEF AuthorizePixOut
<1>7. Entries(AuthorizePixOut(rec))
  <2>1. rec.amount + rec.fee \in Nat
    BY <1>1
  <2>2. QED
    BY <1>1, <1>3, <1>5, <2>1 DEF Entries, Directions
<1>8. ASSUME NEW c \in Customers
      PROVE  Net(AuthorizePixOut(rec), c) = IF c = rec.account THEN -(rec.amount + rec.fee) ELSE 0
  <2>1. rec.amount + rec.fee \in Nat
    BY <1>1
  <2>2. CASE c = rec.account
    <3>1. AuthorizePixOut(rec)[c] = Debit(rec.amount + rec.fee) /\ c \in DOMAIN AuthorizePixOut(rec)
      BY <1>5, <1>6, <2>2
    <3>2. QED
      BY <1>3, <2>1, <2>2, <3>1 DEF Net, Change
  <2>3. CASE c # rec.account
    BY <1>6, <2>3 DEF Net
  <2>4. QED
    BY <2>2, <2>3
<1>9. QED
  BY <1>1, <1>2, <1>4, <1>7, <1>8 DEF SettleExternal, CreditFromExternal, PostRefund

\* The record rec writes the step, the visibility and the status of old, and no line of it.
Rewrites(rec, old, step, stored, status) ==
  /\ rec \in Payment
  /\ rec.kind = old.kind /\ rec.account = old.account /\ rec.amount = old.amount
  /\ rec.fee = old.fee /\ rec.original = old.original
  /\ rec.step = step /\ rec.stored = stored /\ rec.status = status

LEMMA Rewritten ==
  ASSUME NEW old \in Payment, NEW s \in Steps, NEW t \in Nat
  PROVE  /\ Rewrites([old EXCEPT !.step = s], old, s, old.stored, old.status)
         /\ Rewrites([old EXCEPT !.stored = TRUE, !.step = s], old, s, TRUE, old.status)
         /\ Rewrites([old EXCEPT !.status = "SETTLED", !.at = t, !.step = s],
                     old, s, old.stored, "SETTLED")
<1>1. Rewrites([old EXCEPT !.step = s], old, s, old.stored, old.status)
  BY DEF Rewrites, Payment
<1>2. Rewrites([old EXCEPT !.stored = TRUE, !.step = s], old, s, TRUE, old.status)
  BY DEF Rewrites, Payment
<1>3. Rewrites([old EXCEPT !.status = "SETTLED", !.at = t, !.step = s], old, s, old.stored, "SETTLED")
  BY DEF Rewrites, Payment
<1>4. QED
  BY <1>1, <1>2, <1>3

\* One payment is written.
LEMMA LineWrite ==
  ASSUME PaymentsInv, NEW p \in Payments, NEW rec, pay' = [pay EXCEPT ![p] = rec],
         Rewrites(rec, pay[p], rec.step, rec.stored, rec.status), Shape(rec),
         pay[p].step = "done" => rec.step = "done",
         UNCHANGED clock, books' \in [Accounts -> Counters]
  PROVE  LinesGoOn /\ pay'[p] = rec /\ \A q \in Payments : q # p => pay'[q] = pay[q]
<1>1. pay \in Seq(Payment) /\ Payments = 1..Len(pay) /\ rec \in Payment /\ clock' \in Nat
  BY DEF PaymentsInv, Payments, Rewrites
<1>2. /\ pay' \in Seq(Payment) /\ Len(pay') = Len(pay)
      /\ \A q \in 1..Len(pay) : pay'[q] = IF q = p THEN rec ELSE pay[q]
  BY <1>1, ExceptSeq
<1>3. Payments' = Payments
  BY <1>1, <1>2 DEF Payments
<1>4. pay'[p] = rec /\ \A q \in Payments : q # p => pay'[q] = pay[q]
  BY <1>1, <1>2
<1>5. ASSUME NEW q \in Payments
      PROVE  SameLine(q) /\ Shape(pay'[q]) /\ (pay[q].step = "done" => pay'[q].step = "done")
  <2>1. CASE q = p
    BY <1>4, <2>1 DEF SameLine, Rewrites
  <2>2. CASE q # p
    BY <1>4, <2>2 DEF SameLine, PaymentsInv
  <2>3. QED
    BY <2>1, <2>2
<1>6. QED
  BY <1>1, <1>2, <1>3, <1>4, <1>5 DEF LinesGoOn

LEMMA QuietWrite ==
  ASSUME PaymentsInv, NEW p \in Payments, NEW rec, pay' = [pay EXCEPT ![p] = rec],
         Rewrites(rec, pay[p], rec.step, rec.stored, rec.status), Shape(rec),
         pay[p].step = "done" => rec.step = "done",
         UNCHANGED clock, books' \in [Accounts -> Counters],
         Moved(rec) <=> Moved(pay[p]),
         \A c \in Customers : PostedBalance(c, books'[c]) = PostedBalance(c, books[c])
  PROVE  PaymentsInv'
<1>1. LinesGoOn /\ pay'[p] = rec /\ \A q \in Payments : q # p => pay'[q] = pay[q]
  BY LineWrite
<1>2. \A q \in Payments : Moved(pay'[q]) <=> Moved(pay[q])
  BY <1>1
<1>3. QED
  BY <1>1, <1>2, QuietStep

LEMMA MovingWrite ==
  ASSUME PaymentsInv, NEW p \in Payments, NEW rec, pay' = [pay EXCEPT ![p] = rec],
         Rewrites(rec, pay[p], rec.step, rec.stored, rec.status), Shape(rec),
         pay[p].step = "done" => rec.step = "done",
         UNCHANGED clock, books' \in [Accounts -> Counters],
         ~Moved(pay[p]), Moved(rec),
         \A c \in Customers : PostedBalance(c, books'[c]) =
           IF c = pay[p].account THEN PostedBalance(c, books[c]) + Signed(p)
                                 ELSE PostedBalance(c, books[c])
  PROVE  PaymentsInv'
<1>1. LinesGoOn /\ pay'[p] = rec /\ \A q \in Payments : q # p => pay'[q] = pay[q]
  BY LineWrite
<1>2. Moved(pay'[p]) /\ \A q \in Payments : q # p => (Moved(pay'[q]) <=> Moved(pay[q]))
  BY <1>1
<1>3. QED
  BY <1>1, <1>2, MovingStep

\* One payment more, at its first step.
LEMMA LineAppend ==
  ASSUME PaymentsInv, NEW rec \in Payment, pay' = Append(pay, rec), UNCHANGED <<books, clock>>,
         Shape(rec), rec.step = "checked",
         rec.kind = "refund" => /\ rec.original \in Payments /\ pay[rec.original].kind # "refund"
                                /\ pay[rec.original].step = "done"
  PROVE  PaymentsInv'
<1>1. pay \in Seq(Payment) /\ Payments = 1..Len(pay) /\ Len(pay) \in Nat
  BY DEF PaymentsInv, Payments
<1>2. /\ pay' \in Seq(Payment) /\ Len(pay') = Len(pay) + 1
      /\ \A q \in 1..Len(pay) : pay'[q] = pay[q]
      /\ pay'[Len(pay) + 1] = rec
  BY <1>1, AppendProperties
<1>3. Payments' = 1..(Len(pay) + 1)
  BY <1>1, <1>2 DEF Payments
<1>4. \A q \in Payments : q \in Payments' /\ pay'[q] = pay[q]
  BY <1>1, <1>2, <1>3
<1>5. \A q \in Payments' \ Payments : pay'[q] = rec
  BY <1>1, <1>2, <1>3
<1>6. LinesGoOn
  <2>1. \A q \in Payments : SameLine(q) /\ Shape(pay'[q])
    BY <1>4 DEF SameLine, PaymentsInv
  <2>2. books' \in [Accounts -> Counters] /\ clock' \in Nat
    BY DEF PaymentsInv
  <2>3. QED
    BY <1>2, <1>4, <1>5, <2>1, <2>2 DEF LinesGoOn
<1>7. QED
  BY <1>4, <1>6, QuietStep

LEMMA NewLines ==
  ASSUME PaymentsInv, NEW kind \in {"out", "in", "refund"}, NEW a \in Customers \cup {Suspense},
         NEW n \in Nat, NEW k \in Keys \cup {NoKey}
  PROVE  LET rec == NewPayment(kind, a, n, k)
         IN  rec \in Payment /\ Shape(rec) /\ rec.kind = kind /\ rec.step = "checked"
<1> DEFINE fee == IF kind = "out" THEN Fee ELSE 0
           status == IF kind = "out" THEN "PROCESSING" ELSE "SETTLED"
           rec == NewPayment(kind, a, n, k)
<1>1. /\ fee \in Nat /\ status \in {"PROCESSING", "SETTLED"} /\ clock \in Nat
      /\ IF kind = "out" THEN status = "PROCESSING" ELSE status = "SETTLED" /\ fee = 0
  BY BankAssumption DEF PaymentsInv
<1>2. rec = [kind |-> kind, account |-> a, amount |-> n, fee |-> fee,
             key |-> k, original |-> 0, scenario |-> "SETTLE", status |-> status,
             refunded |-> 0, at |-> clock, step |-> "checked", stored |-> FALSE]
  BY DEF NewPayment
<1> HIDE DEF fee, status, rec
<1>3. rec \in Payment
  BY <1>1, <1>2 DEF Payment, OutScenarios, Steps
<1>4. rec.kind = kind /\ rec.step = "checked" /\ rec.stored = FALSE /\ rec.status = status
      /\ rec.fee = fee
  BY <1>2
<1>5. Shape(rec)
  BY <1>1, <1>4 DEF Shape, SETTLED_FOR_STATEMENT
<1>6. QED
  BY <1>3, <1>4, <1>5 DEF rec

LEMMA NewRefundLines ==
  ASSUME PaymentsInv, NEW a \in Customers \cup {Suspense}, NEW n \in Nat,
         NEW k \in Keys \cup {NoKey}, NEW o \in Nat
  PROVE  LET rec == NewRefund(a, n, k, o)
         IN  /\ rec \in Payment /\ Shape(rec) /\ rec.kind = "refund" /\ rec.step = "checked"
             /\ rec.original = o
<1> DEFINE first == NewPayment("refund", a, n, k)
           rec == NewRefund(a, n, k, o)
<1>1. first \in Payment /\ Shape(first) /\ first.kind = "refund" /\ first.step = "checked"
  BY NewLines
<1> HIDE DEF first
<1>2. rec = [first EXCEPT !.original = o]
  BY DEF first, NewRefund
<1> HIDE DEF rec
<1>3. /\ rec \in Payment /\ rec.kind = first.kind /\ rec.step = first.step /\ rec.original = o
      /\ rec.stored = first.stored /\ rec.status = first.status /\ rec.fee = first.fee
  BY <1>1, <1>2 DEF Payment
<1>4. Shape(rec)
  BY <1>1, <1>3 DEF Shape
<1>5. QED
  BY <1>1, <1>3, <1>4 DEF rec

\* The steps that only say how far the request is, and those that make a payment visible.
LEMMA StepWrites ==
  ASSUME PaymentsInv, NEW p \in Payments, NEW s \in Steps
  PROVE  /\ pay[p] \in Payment /\ Shape(pay[p])
         /\ Step(p, s) => /\ pay' = [pay EXCEPT ![p] = [pay[p] EXCEPT !.step = s]]
                          /\ Rewrites([pay[p] EXCEPT !.step = s], pay[p], s, pay[p].stored, pay[p].status)
         /\ pay' = [pay EXCEPT ![p].stored = TRUE, ![p].step = s] =>
              /\ pay' = [pay EXCEPT ![p] = [pay[p] EXCEPT !.stored = TRUE, !.step = s]]
              /\ Rewrites([pay[p] EXCEPT !.stored = TRUE, !.step = s], pay[p], s, TRUE, pay[p].status)
         /\ pay' = [pay EXCEPT ![p].status = "SETTLED", ![p].at = clock, ![p].step = s] =>
              /\ pay' = [pay EXCEPT ![p] = [pay[p] EXCEPT !.status = "SETTLED", !.at = clock, !.step = s]]
              /\ Rewrites([pay[p] EXCEPT !.status = "SETTLED", !.at = clock, !.step = s],
                          pay[p], s, pay[p].stored, "SETTLED")
<1>1. pay \in Seq(Payment) /\ pay[p] \in Payment /\ Shape(pay[p]) /\ clock \in Nat
  BY ElementOfSeq DEF PaymentsInv, Payments
<1>2. p \in DOMAIN pay
  BY DEF Payments
<1>3. Step(p, s) => pay' = [pay EXCEPT ![p] = [pay[p] EXCEPT !.step = s]]
  BY DEF Step
<1>4. pay' = [pay EXCEPT ![p].stored = TRUE, ![p].step = s] =>
        pay' = [pay EXCEPT ![p] = [pay[p] EXCEPT !.stored = TRUE, !.step = s]]
  BY <1>1, <1>2
<1>5. pay' = [pay EXCEPT ![p].status = "SETTLED", ![p].at = clock, ![p].step = s] =>
        pay' = [pay EXCEPT ![p] = [pay[p] EXCEPT !.status = "SETTLED", !.at = clock, !.step = s]]
  BY <1>1, <1>2
<1>6. QED
  BY <1>1, <1>3, <1>4, <1>5, Rewritten

\* The requests that move no money of a customer.
LEMMA QuietRequests ==
  ASSUME PaymentsInv, NEW p \in Payments, NEW copies,
         Authorize(p) \/ SettleMove(p) \/ PersistOut(p, copies) \/ MarkSettled(p, copies)
           \/ PersistIn(p, copies)
  PROVE  PaymentsInv'
<1> USE DEF Steps
<1>1. /\ pay[p] \in Payment /\ Shape(pay[p]) /\ books \in [Accounts -> Counters]
      /\ Entries(AuthorizePixOut(pay[p])) /\ Entries(SettleExternal(pay[p]))
  BY StepWrites, BankLegs DEF PaymentsInv
<1>2. \A c \in Customers : PostedBalance(c, books[c]) \in Int
  BY <1>1, BankAssumption DEF PostedBalance, Counters
<1>3. ASSUME NEW rec, pay' = [pay EXCEPT ![p] = rec], UNCHANGED clock,
             Rewrites(rec, pay[p], rec.step, rec.stored, rec.status), Shape(rec),
             pay[p].step # "done", Moved(rec) <=> Moved(pay[p]),
             \/ UNCHANGED books
             \/ books' = AfterPost(books, AuthorizePixOut(pay[p]), "PENDING")
             \/ books' = AfterPost(books, SettleExternal(pay[p]), "POSTED")
      PROVE  PaymentsInv'
  <2>1. books' \in [Accounts -> Counters]
    BY <1>1, <1>3, BooksAfter
  <2>2. \A c \in Customers : PostedBalance(c, books'[c]) = PostedBalance(c, books[c])
    <3>1. CASE UNCHANGED books
      BY <3>1
    <3>2. CASE books' = AfterPost(books, AuthorizePixOut(pay[p]), "PENDING")
      BY <1>1, <3>2, BooksAfter
    <3>3. CASE books' = AfterPost(books, SettleExternal(pay[p]), "POSTED")
      <4>1. \A c \in Customers : Net(SettleExternal(pay[p]), c) = 0
        BY <1>1, BankLegs
      <4>2. \A c \in Customers : PostedBalance(c, books'[c]) = PostedBalance(c, books[c]) + 0
        BY <1>1, <3>3, <4>1, BooksAfter
      <4>3. QED
        BY <1>2, <4>2
    <3>4. QED
      BY <1>3, <3>1, <3>2, <3>3
  <2>3. QED
    BY <1>3, <2>1, <2>2, QuietWrite
<1>4. CASE Authorize(p)
  <2>1. /\ pay[p].kind = "out" /\ pay[p].step = "checked" /\ UNCHANGED clock
        /\ \/ Step(p, "posted") /\ books' = AfterPost(books, AuthorizePixOut(pay[p]), "PENDING")
           \/ Step(p, "failed") /\ UNCHANGED books
    BY <1>4 DEF Authorize
  <2>2. PICK s \in {"posted", "failed"} : Step(p, s)
    BY <2>1
  <2> DEFINE rec == [pay[p] EXCEPT !.step = s]
  <2>3. pay' = [pay EXCEPT ![p] = rec] /\ Rewrites(rec, pay[p], s, pay[p].stored, pay[p].status)
    BY <2>2, StepWrites, ZenonT(60)
  <2> HIDE DEF rec
  <2>4. Shape(rec) /\ (Moved(rec) <=> Moved(pay[p]))
    BY <1>1, <2>1, <2>2, <2>3 DEF Rewrites, Shape, Moved
  <2>5. QED
    BY <1>3, <2>1, <2>3, <2>4 DEF Rewrites
<1>5. CASE SettleMove(p)
  <2>1. /\ pay[p].step = "committed" /\ UNCHANGED clock /\ Step(p, "moved")
        /\ books' = AfterPost(books, SettleExternal(pay[p]), "POSTED")
    BY <1>5 DEF SettleMove
  <2> DEFINE rec == [pay[p] EXCEPT !.step = "moved"]
  <2>3. pay' = [pay EXCEPT ![p] = rec] /\ Rewrites(rec, pay[p], "moved", pay[p].stored, pay[p].status)
    BY <2>1, StepWrites
  <2> HIDE DEF rec
  <2>4. Shape(rec) /\ (Moved(rec) <=> Moved(pay[p]))
    BY <1>1, <2>1, <2>3 DEF Rewrites, Shape, Moved
  <2>5. QED
    BY <1>3, <2>1, <2>3, <2>4 DEF Rewrites
<1>6. CASE PersistOut(p, copies)
  <2> DEFINE s == IF pay[p].scenario = "TIMEOUT" THEN "hung" ELSE "announced"
             rec == [pay[p] EXCEPT !.stored = TRUE, !.step = s]
  <2>1. /\ pay[p].kind = "out" /\ pay[p].step = "posted" /\ UNCHANGED <<books, clock>>
        /\ pay' = [pay EXCEPT ![p].stored = TRUE, ![p].step = s] /\ s \in {"hung", "announced"}
    BY <1>6 DEF PersistOut
  <2> HIDE DEF s
  <2>3. pay' = [pay EXCEPT ![p] = rec] /\ Rewrites(rec, pay[p], s, TRUE, pay[p].status)
    BY <2>1, StepWrites, ZenonT(60)
  <2> HIDE DEF rec
  <2>4. Shape(rec) /\ (Moved(rec) <=> Moved(pay[p]))
    BY <1>1, <2>1, <2>3 DEF Rewrites, Shape, Moved
  <2>5. QED
    BY <1>3, <2>1, <2>3, <2>4 DEF Rewrites
<1>7. CASE MarkSettled(p, copies)
  <2> DEFINE rec == [pay[p] EXCEPT !.status = "SETTLED", !.at = clock, !.step = "settled"]
  <2>1. /\ pay[p].step = "moved" /\ UNCHANGED <<books, clock>>
        /\ pay' = [pay EXCEPT ![p].status = "SETTLED", ![p].at = clock, ![p].step = "settled"]
    BY <1>7 DEF MarkSettled
  <2>3. pay' = [pay EXCEPT ![p] = rec] /\ Rewrites(rec, pay[p], "settled", pay[p].stored, "SETTLED")
    BY <2>1, StepWrites
  <2> HIDE DEF rec
  <2>4. Shape(rec) /\ (Moved(rec) <=> Moved(pay[p]))
    BY <1>1, <2>1, <2>3 DEF Rewrites, Shape, Moved, SETTLED_FOR_STATEMENT
  <2>5. QED
    BY <1>3, <2>1, <2>3, <2>4 DEF Rewrites
<1>8. CASE PersistIn(p, copies)
  <2> DEFINE rec == [pay[p] EXCEPT !.stored = TRUE, !.step = "done"]
  <2>1. /\ pay[p].kind = "in" /\ pay[p].step = "posted" /\ UNCHANGED <<books, clock>>
        /\ pay' = [pay EXCEPT ![p].stored = TRUE, ![p].step = "done"]
    BY <1>8 DEF PersistIn
  <2>3. pay' = [pay EXCEPT ![p] = rec] /\ Rewrites(rec, pay[p], "done", TRUE, pay[p].status)
    BY <2>1, StepWrites
  <2> HIDE DEF rec
  <2>4. Shape(rec) /\ (Moved(rec) <=> Moved(pay[p]))
    BY <1>1, <2>1, <2>3 DEF Rewrites, Shape, Moved
  <2>5. QED
    BY <1>3, <2>1, <2>3, <2>4 DEF Rewrites
<1>9. QED
  BY <1>4, <1>5, <1>6, <1>7, <1>8

\* The requests that move the money of a payment: the commit of a Pix out, the credit of
\* a Pix in (or its keeping in suspense, which is nobody's account), the debit of a refund.
LEMMA MovingRequests ==
  ASSUME PaymentsInv, NEW p \in Payments,
         SettleCommit(p) \/ CreditReceived(p) \/ KeepInSuspense(p) \/ DebitRefund(p)
  PROVE  PaymentsInv'
<1> USE DEF Steps
<1>1. /\ pay[p] \in Payment /\ Shape(pay[p]) /\ books \in [Accounts -> Counters]
      /\ Entries(AuthorizePixOut(pay[p])) /\ Entries(CreditFromExternal(pay[p]))
      /\ Entries(PostRefund(pay[p]))
  BY StepWrites, BankLegs DEF PaymentsInv
<1>2. /\ \A c \in Customers : PostedBalance(c, books[c]) \in Int
      /\ pay[p].amount \in Nat /\ pay[p].fee \in Nat
  BY <1>1, BankAssumption DEF PostedBalance, Counters, Payment
<1>3. ASSUME NEW rec, NEW legs, pay' = [pay EXCEPT ![p] = rec], UNCHANGED clock,
             Rewrites(rec, pay[p], rec.step, rec.stored, rec.status), Shape(rec),
             pay[p].step # "done", ~Moved(pay[p]), Moved(rec), Entries(legs),
             \/ books' = AfterPost(books, legs, "POSTED")
             \/ books' = AfterResolve(books, legs, TRUE),
             \A c \in Customers : Net(legs, c) = IF c = pay[p].account THEN Signed(p) ELSE 0
      PROVE  PaymentsInv'
  <2>1. books' \in [Accounts -> Counters]
    BY <1>1, <1>3, BooksAfter
  <2>2. \A c \in Customers : PostedBalance(c, books'[c]) = PostedBalance(c, books[c]) + Net(legs, c)
    BY <1>1, <1>3, BooksAfter
  <2>3. \A c \in Customers : PostedBalance(c, books'[c]) =
           IF c = pay[p].account THEN PostedBalance(c, books[c]) + Signed(p)
                                 ELSE PostedBalance(c, books[c])
    BY <1>2, <1>3, <2>2
  <2>4. QED
    BY <1>3, <2>1, <2>3, MovingWrite
<1>4. CASE SettleCommit(p)
  <2>1. /\ pay[p].step = "announced" /\ UNCHANGED clock /\ Step(p, "committed")
        /\ books' = AfterResolve(books, AuthorizePixOut(pay[p]), TRUE)
    BY <1>4 DEF SettleCommit
  <2>2. pay[p].kind = "out"
    BY <1>1, <2>1 DEF Shape
  <2> DEFINE rec == [pay[p] EXCEPT !.step = "committed"]
             legs == AuthorizePixOut(pay[p])
  <2>3. pay' = [pay EXCEPT ![p] = rec] /\ Rewrites(rec, pay[p], "committed", pay[p].stored, pay[p].status)
    BY <2>1, StepWrites
  <2>4. \A c \in Customers : Net(legs, c) = IF c = pay[p].account THEN Signed(p) ELSE 0
    BY <1>1, <2>2, BankLegs DEF Signed
  <2>5. Entries(legs) /\ books' = AfterResolve(books, legs, TRUE)
    BY <1>1, <2>1
  <2> HIDE DEF rec, legs
  <2>6. Shape(rec) /\ Moved(rec) /\ ~Moved(pay[p])
    BY <1>1, <2>1, <2>2, <2>3 DEF Rewrites, Shape, Moved
  <2>7. QED
    BY <1>3, <2>1, <2>3, <2>4, <2>5, <2>6 DEF Rewrites
<1>5. CASE CreditReceived(p)
  <2>1. /\ pay[p].kind = "in" /\ pay[p].step = "checked" /\ UNCHANGED clock /\ Step(p, "posted")
        /\ books' = AfterPost(books, CreditFromExternal(pay[p]), "POSTED")
    BY <1>5 DEF CreditReceived
  <2> DEFINE rec == [pay[p] EXCEPT !.step = "posted"]
             legs == CreditFromExternal(pay[p])
  <2>3. pay' = [pay EXCEPT ![p] = rec] /\ Rewrites(rec, pay[p], "posted", pay[p].stored, pay[p].status)
    BY <2>1, StepWrites
  <2>4. \A c \in Customers : Net(legs, c) = IF c = pay[p].account THEN Signed(p) ELSE 0
    BY <1>1, <2>1, BankLegs DEF Signed
  <2>5. Entries(legs) /\ books' = AfterPost(books, legs, "POSTED")
    BY <1>1, <2>1
  <2> HIDE DEF rec, legs
  <2>6. Shape(rec) /\ Moved(rec) /\ ~Moved(pay[p])
    BY <1>1, <2>1, <2>3 DEF Rewrites, Shape, Moved
  <2>7. QED
    BY <1>3, <2>1, <2>3, <2>4, <2>5, <2>6 DEF Rewrites
<1>6. CASE KeepInSuspense(p)
  <2> DEFINE rec == [pay[p] EXCEPT !.stored = TRUE, !.step = "done"]
  <2>1. /\ pay[p].kind = "in" /\ pay[p].step = "checked" /\ UNCHANGED <<books, clock>>
        /\ pay' = [pay EXCEPT ![p].stored = TRUE, ![p].step = "done"]
        /\ pay[p].account \notin Customers
    BY <1>6, BankAssumption DEF KeepInSuspense, Suspense
  <2>3. pay' = [pay EXCEPT ![p] = rec] /\ Rewrites(rec, pay[p], "done", TRUE, pay[p].status)
    BY <2>1, StepWrites
  <2> HIDE DEF rec
  <2>4. Shape(rec) /\ Moved(rec) /\ ~Moved(pay[p])
    BY <1>1, <2>1, <2>3 DEF Rewrites, Shape, Moved
  <2>5. \A c \in Customers : PostedBalance(c, books'[c]) =
           IF c = pay[p].account THEN PostedBalance(c, books[c]) + Signed(p)
                                 ELSE PostedBalance(c, books[c])
    BY <2>1
  <2>6. QED
    BY <1>1, <2>1, <2>3, <2>4, <2>5, MovingWrite DEF Rewrites
<1>7. CASE DebitRefund(p)
  <2>1. /\ pay[p].kind = "refund" /\ pay[p].step = "checked" /\ UNCHANGED clock
        /\ \/ Step(p, "posted") /\ books' = AfterPost(books, PostRefund(pay[p]), "POSTED")
           \/ Step(p, "failed") /\ UNCHANGED books
    BY <1>7 DEF DebitRefund
  <2>2. CASE Step(p, "failed") /\ UNCHANGED books
    <3> DEFINE rec == [pay[p] EXCEPT !.step = "failed"]
    <3>1. pay' = [pay EXCEPT ![p] = rec] /\ Rewrites(rec, pay[p], "failed", pay[p].stored, pay[p].status)
      BY <2>2, StepWrites
    <3> HIDE DEF rec
    <3>2. Shape(rec) /\ (Moved(rec) <=> Moved(pay[p]))
      BY <1>1, <2>1, <3>1 DEF Rewrites, Shape, Moved
    <3>3. QED
      BY <1>1, <2>1, <2>2, <3>1, <3>2, QuietWrite DEF Rewrites
  <2>3. CASE Step(p, "posted") /\ books' = AfterPost(books, PostRefund(pay[p]), "POSTED")
    <3> DEFINE rec == [pay[p] EXCEPT !.step = "posted"]
               legs == PostRefund(pay[p])
    <3>1. pay' = [pay EXCEPT ![p] = rec] /\ Rewrites(rec, pay[p], "posted", pay[p].stored, pay[p].status)
      BY <2>3, StepWrites
    <3>2. \A c \in Customers : Net(legs, c) = IF c = pay[p].account THEN Signed(p) ELSE 0
      <4>1. Signed(p) = -pay[p].amount
        BY <1>1, <1>2, <2>1 DEF Signed, Shape
      <4>2. QED
        BY <1>1, <4>1, BankLegs
    <3>3. Entries(legs) /\ books' = AfterPost(books, legs, "POSTED")
      BY <1>1, <2>3
    <3> HIDE DEF rec, legs
    <3>4. Shape(rec) /\ Moved(rec) /\ ~Moved(pay[p])
      BY <1>1, <2>1, <3>1 DEF Rewrites, Shape, Moved
    <3>5. QED
      BY <1>3, <2>1, <3>1, <3>2, <3>3, <3>4 DEF Rewrites
  <2>4. QED
    BY <2>1, <2>2, <2>3
<1>8. QED
  BY <1>4, <1>5, <1>6, <1>7

\* The original, which is over, adds the amount up, and the refund is written: two
\* payments change and no money moves.
LEMMA PersistRefundIsQuiet ==
  ASSUME PaymentsInv, NEW p \in Payments, NEW copies, PersistRefund(p, copies)
  PROVE  PaymentsInv'
<1> DEFINE o == pay[p].original
           total == pay[o].refunded + pay[p].amount
           status == IF total >= pay[o].amount THEN "REVERSED" ELSE "PARTIALLY_REVERSED"
           first == [pay[o] EXCEPT !.refunded = total, !.status = status]
           rec == [pay[p] EXCEPT !.stored = TRUE, !.step = "done"]
           mid == [pay EXCEPT ![o] = first]
<1>1. pay \in Seq(Payment) /\ Payments = 1..Len(pay) /\ pay[p] \in Payment /\ clock' \in Nat
      /\ UNCHANGED <<books, clock>>
  <2>1. pay \in Seq(Payment) /\ Payments = 1..Len(pay)
    BY DEF PaymentsInv, Payments
  <2>2. UNCHANGED <<books, clock>> /\ clock \in Nat
    BY DEF PaymentsInv, PersistRefund
  <2>3. pay[p] \in Payment
    BY <2>1, ElementOfSeq
  <2>4. QED
    BY <2>1, <2>2, <2>3
<1>2. pay[p].kind = "refund" /\ pay[p].step = "posted"
  BY DEF PersistRefund
<1>3. o \in Payments /\ pay[o].kind # "refund" /\ pay[o].step = "done" /\ o # p
  BY <1>2 DEF PaymentsInv, OriginalsDone
<1>4. pay[o] \in Payment /\ Shape(pay[o]) /\ Shape(pay[p])
  BY <1>1, <1>3, ElementOfSeq DEF PaymentsInv
<1>5. total \in Nat /\ status \in {"REVERSED", "PARTIALLY_REVERSED"}
  <2>1. pay[o].refunded \in Nat /\ pay[p].amount \in Nat
    BY <1>1, <1>4 DEF Payment
  <2> HIDE DEF o
  <2>2. QED
    BY <2>1
<1>6. pay' = [mid EXCEPT ![p] = rec]
  <2>1. pay' = [[pay EXCEPT ![o].refunded = total, ![o].status = status]
                  EXCEPT ![p].stored = TRUE, ![p].step = "done"]
    BY DEF PersistRefund
  <2>2. mid = [pay EXCEPT ![o].refunded = total, ![o].status = status]
    BY <1>1, <1>3
  <2>3. DOMAIN mid = DOMAIN pay /\ mid[p] = pay[p]
    BY <1>1, <1>3 DEF Payments
  <2> HIDE DEF mid
  <2>4. [mid EXCEPT ![p].stored = TRUE, ![p].step = "done"]
           = [mid EXCEPT ![p] = [mid[p] EXCEPT !.stored = TRUE, !.step = "done"]]
    BY <2>3 DEF Payments
  <2>5. QED
    BY <2>1, <2>2, <2>3, <2>4
<1> HIDE DEF total, status
<1>7. /\ Rewrites(first, pay[o], "done", pay[o].stored, status) /\ first \in Payment
      /\ Rewrites(rec, pay[p], "done", TRUE, pay[p].status) /\ rec \in Payment
  <2>1. Rewrites(first, pay[o], "done", pay[o].stored, status)
    BY <1>3, <1>4, <1>5 DEF Rewrites, Payment
  <2>2. Rewrites(rec, pay[p], "done", TRUE, pay[p].status)
    BY <1>1 DEF Rewrites, Payment, Steps
  <2>3. QED
    BY <2>1, <2>2 DEF Rewrites
<1> HIDE DEF first, rec, o
<1>8. /\ pay' \in Seq(Payment) /\ Len(pay') = Len(pay) /\ pay'[p] = rec /\ pay'[o] = first
      /\ \A q \in Payments : q # p /\ q # o => pay'[q] = pay[q]
  <2>1. mid \in Seq(Payment) /\ Len(mid) = Len(pay) /\ mid[o] = first
        /\ \A q \in Payments : q # o => mid[q] = pay[q]
    BY <1>1, <1>3, <1>7, ExceptSeq
  <2> HIDE DEF mid
  <2>2. QED
    BY <1>1, <1>3, <1>6, <1>7, <2>1, ExceptSeq
<1>9. Payments' = Payments
  BY <1>1, <1>8 DEF Payments
<1>10. /\ Shape(first) /\ Shape(rec) /\ Moved(rec) /\ Moved(pay[p]) /\ (Moved(first) <=> Moved(pay[o]))
  BY <1>2, <1>3, <1>4, <1>5, <1>7 DEF Shape, Rewrites, Moved, SETTLED_FOR_STATEMENT
<1>11. ASSUME NEW q \in Payments
       PROVE  /\ SameLine(q) /\ Shape(pay'[q]) /\ (pay[q].step = "done" => pay'[q].step = "done")
              /\ Moved(pay'[q]) <=> Moved(pay[q])
  <2>1. CASE q = p
    BY <1>7, <1>8, <1>10, <2>1 DEF SameLine, Rewrites
  <2>2. CASE q = o
    BY <1>7, <1>8, <1>10, <2>2 DEF SameLine, Rewrites
  <2>3. CASE q # p /\ q # o
    BY <1>8, <2>3 DEF SameLine, PaymentsInv
  <2>4. QED
    BY <2>1, <2>2, <2>3
<1>12. LinesGoOn
  BY <1>1, <1>8, <1>9, <1>11 DEF LinesGoOn, PaymentsInv
<1>13. QED
  BY <1>1, <1>11, <1>12, QuietStep

\* The settlement is over and, in its scenario, the refund of the whole begins.
LEMMA AutoRefundIsQuiet ==
  ASSUME PaymentsInv, NEW p \in Payments, AutoRefund(p) PROVE PaymentsInv'
<1> USE DEF Steps
<1> DEFINE rec == [pay[p] EXCEPT !.step = "done"]
           ended == [pay EXCEPT ![p].step = "done"]
           new == [NewPayment("refund", pay[p].account, pay[p].amount, NoKey) EXCEPT !.original = p]
<1>1. pay[p] \in Payment /\ Shape(pay[p]) /\ pay \in Seq(Payment) /\ Payments = 1..Len(pay)
      /\ Len(pay) \in Nat
  <2>1. pay \in Seq(Payment) /\ Payments = 1..Len(pay) /\ Len(pay) \in Nat
    BY DEF PaymentsInv, Payments
  <2>2. QED
    BY <2>1, StepWrites
<1>2. pay[p].step = "settled" /\ UNCHANGED <<books, clock>>
      /\ (Step(p, "done") \/ pay' = Append(ended, new))
  BY DEF AutoRefund
<1>3. pay[p].kind = "out"
  BY <1>1, <1>2 DEF Shape
<1>4. Rewrites(rec, pay[p], "done", pay[p].stored, pay[p].status)
  BY <1>1, Rewritten, 0 \in Nat
<1>5. ended = [pay EXCEPT ![p] = rec]
  OBVIOUS
<1>6. /\ new \in Payment /\ Shape(new) /\ new.kind = "refund" /\ new.step = "checked"
      /\ new.original = p
  <2> DEFINE a == pay[p].account
             n == pay[p].amount
  <2>0. p \in Nat
    BY <1>1
  <2>1. a \in Customers \cup {Suspense} /\ n \in Nat
    BY <1>1 DEF Payment
  <2>2. new = NewRefund(a, n, NoKey, p)
    BY DEF NewRefund
  <2> HIDE DEF new, a, n
  <2>3. QED
    BY <2>0, <2>1, <2>2, NewRefundLines
<1> HIDE DEF rec, new
<1>7. Shape(rec) /\ (Moved(rec) <=> Moved(pay[p])) /\ rec.step = "done" /\ rec \in Payment
  BY <1>1, <1>2, <1>3, <1>4 DEF Shape, Moved, Rewrites
<1>8. CASE Step(p, "done")
  <2>1. pay' = [pay EXCEPT ![p] = rec]
    BY <1>5, <1>8 DEF Step
  <2>2. books' \in [Accounts -> Counters]
        /\ \A c \in Customers : PostedBalance(c, books'[c]) = PostedBalance(c, books[c])
    BY <1>2 DEF PaymentsInv
  <2>3. QED
    BY <1>2, <1>4, <1>7, <2>1, <2>2, QuietWrite DEF Rewrites
<1>9. CASE pay' = Append(ended, new)
  <2>1. /\ ended \in Seq(Payment) /\ Len(ended) = Len(pay) /\ ended[p] = rec
        /\ \A q \in Payments : q # p => ended[q] = pay[q]
    BY <1>1, <1>5, <1>7, ExceptSeq
  <2> HIDE DEF ended
  <2>2. /\ pay' \in Seq(Payment) /\ Len(pay') = Len(pay) + 1
        /\ \A q \in Payments : pay'[q] = ended[q]
        /\ pay'[Len(pay) + 1] = new
    BY <1>1, <1>6, <1>9, <2>1, AppendProperties
  <2>3. Payments' = 1..(Len(pay) + 1)
    BY <1>1, <2>2 DEF Payments
  <2>4. \A q \in Payments' \ Payments : pay'[q] = new
    BY <1>1, <2>2, <2>3
  <2>5. ASSUME NEW q \in Payments
        PROVE  /\ q \in Payments' /\ SameLine(q) /\ Shape(pay'[q])
               /\ pay[q].step = "done" => pay'[q].step = "done"
               /\ Moved(pay'[q]) <=> Moved(pay[q])
    <3>1. q \in Payments'
      BY <1>1, <2>3
    <3>2. CASE q = p
      BY <1>4, <1>7, <2>1, <2>2, <3>1, <3>2 DEF SameLine, Rewrites
    <3>3. CASE q # p
      BY <2>1, <2>2, <3>1, <3>3 DEF SameLine, PaymentsInv
    <3>4. QED
      BY <3>2, <3>3
  <2>6. pay'[p].step = "done"
    BY <1>7, <2>1, <2>2
  <2>7. books' \in [Accounts -> Counters] /\ clock' \in Nat
    BY <1>2 DEF PaymentsInv
  <2>8. LinesGoOn
    BY <1>3, <1>6, <2>2, <2>4, <2>5, <2>6, <2>7 DEF LinesGoOn
  <2>9. QED
    BY <1>2, <2>5, <2>8, QuietStep
<1>10. QED
  BY <1>2, <1>8, <1>9

LEMMA BankKeepsStatement == ASSUME PaymentsInv, BankNext PROVE PaymentsInv'
  BY QuietRequests, MovingRequests, PersistRefundIsQuiet, AutoRefundIsQuiet DEF BankNext

\* The payers, the other clients of the bank, the panel and the clock.
LEMMA OutsideKeepsStatement == ASSUME PaymentsInv, Outside PROVE PaymentsInv'
<1>1. ASSUME NEW a \in Customers \cup {Suspense}, NEW n \in Amounts, ReceivePix(a, n)
      PROVE  PaymentsInv'
  <2> DEFINE rec == NewPayment("in", a, n, NoKey)
  <2>1. pay' = Append(pay, rec) /\ UNCHANGED <<books, clock>>
    BY <1>1 DEF ReceivePix, Begin
  <2>2. rec \in Payment /\ Shape(rec) /\ rec.kind = "in" /\ rec.step = "checked"
    BY BankAssumption, NewLines
  <2> HIDE DEF rec
  <2>3. QED
    BY <2>1, <2>2, LineAppend
<1>2. ASSUME NEW a \in Customers, NEW n \in Amounts, NEW k \in Keys \cup {NoKey},
             NEW s \in Scenarios, SendPix(a, n, k, s)
      PROVE  PaymentsInv'
  <2> DEFINE first == NewPayment("out", a, n, k)
             rec == [first EXCEPT !.scenario = s]
  <2>1. pay' = Append(pay, rec) /\ UNCHANGED <<books, clock>>
    BY <1>2 DEF SendPix, Begin
  <2>2. first \in Payment /\ Shape(first) /\ first.kind = "out" /\ first.step = "checked"
    BY BankAssumption, NewLines, SMTT(30)
  <2> HIDE DEF first
  <2>3. s \in OutScenarios
    BY BankAssumption
  <2>4. /\ rec \in Payment /\ rec.kind = "out" /\ rec.step = "checked"
        /\ rec.stored = first.stored /\ rec.status = first.status /\ rec.fee = first.fee
    BY <2>2, <2>3 DEF Payment
  <2>5. Shape(rec)
    BY <2>2, <2>4 DEF Shape
  <2> HIDE DEF rec
  <2>6. QED
    BY <2>1, <2>4, <2>5, LineAppend
<1>3. ASSUME UNCHANGED <<pay, books>>, clock' \in Nat PROVE PaymentsInv'
  BY <1>3 DEF PaymentsInv, Payments, OriginalsDone, BooksFollow, Lines, Signed, MovedOf
<1>4. CASE AdvanceClock
  BY <1>3, <1>4 DEF AdvanceClock, PaymentsInv
<1>5. ASSUME NEW a \in Customers, NEW s \in AccountStatus, SetStatus(a, s) PROVE PaymentsInv'
  BY <1>3, <1>5 DEF SetStatus, PaymentsInv
<1>6. QED
  BY <1>1, <1>2, <1>4, <1>5 DEF Outside

\* What reaches our books, by any way, and what a client asks back is a Pix the bank
\* received.
OriginsInv ==
  /\ DOMAIN hook = Ids /\ DOMAIN task = Ways \X Ids
  /\ poll = [on |-> poll.on, left |-> poll.left, upto |-> poll.upto]
  /\ \A m \in mail : m.type = "pix_in.received" => Received(m.payment)
  /\ \A p \in Ids : hook[p] # "none" => Received(p)
  /\ \A w \in Ways, p \in Ids : task[<<w, p>>] # "none" => Received(p)
  /\ \A p \in poll.left : Received(p)
  /\ \A p \in rows : Received(p)
  /\ \A r \in Refunders : refund[r].at # "none" => Received(refund[r].of)

\* A step of the credits takes up what was received, and nothing else.
CreditGoesOn ==
  /\ UNCHANGED pay
  /\ DOMAIN hook' = Ids /\ DOMAIN task' = Ways \X Ids
  /\ poll' = [on |-> poll'.on, left |-> poll'.left, upto |-> poll'.upto]
  /\ mail' \subseteq mail
  /\ \A p \in Ids : hook'[p] # hook[p] => Received(p)
  /\ \A w \in Ways, p \in Ids : task'[<<w, p>>] # task[<<w, p>>] => Received(p)
  /\ \A p \in poll'.left : p \in poll.left \/ Received(p)
  /\ \A p \in rows' : p \in rows \/ Received(p)

LEMMA CreditKeepsOrigins ==
  ASSUME OriginsInv, CreditGoesOn, UNCHANGED refund PROVE OriginsInv'
<1>1. \A p : Received(p)' <=> Received(p)
  BY DEF CreditGoesOn, Received, Payments
<1>2. QED
  BY <1>1 DEF OriginsInv, CreditGoesOn

\* One way, one payment: the writes of applyDrafts.
OneWay(w, p) ==
  /\ task' = task \/ \E s : Move(w, p, s)
  /\ hook' = hook \/ \E h : hook' = [hook EXCEPT ![p] = h]
  /\ poll' = poll \/ poll' = Idle \/ poll' = [poll EXCEPT !.left = @ \ {p}]
  /\ rows' = rows \/ rows' = rows \cup {p}
  /\ UNCHANGED pay /\ mail' \subseteq mail

LEMMA OneWayGoesOn ==
  ASSUME OriginsInv, NEW w \in Ways, NEW p \in Ids, OneWay(w, p), Received(p) PROVE CreditGoesOn
<1>1. DOMAIN task' = Ways \X Ids
      /\ \A v \in Ways, q \in Ids : task'[<<v, q>>] # task[<<v, q>>] => q = p
  BY DEF OneWay, Move, OriginsInv
<1>2. DOMAIN hook' = Ids /\ \A q \in Ids : hook'[q] # hook[q] => q = p
  BY DEF OneWay, OriginsInv
<1>3. poll' = [on |-> poll'.on, left |-> poll'.left, upto |-> poll'.upto]
      /\ \A q \in poll'.left : q \in poll.left
  <2>1. poll = [on |-> poll.on, left |-> poll.left, upto |-> poll.upto]
    BY DEF OriginsInv
  <2>2. CASE poll' = poll
    BY <2>1, <2>2
  <2>3. CASE poll' = Idle
    BY <2>3 DEF Idle
  <2>4. CASE poll' = [poll EXCEPT !.left = @ \ {p}]
    <3>1. poll' = [on |-> poll.on, left |-> poll.left \ {p}, upto |-> poll.upto]
      BY <2>1, <2>4
    <3>2. QED
      BY <3>1
  <2>5. QED
    BY <2>2, <2>3, <2>4 DEF OneWay
<1>4. \A q \in rows' : q \in rows \/ q = p
  BY DEF OneWay
<1>5. QED
  BY <1>1, <1>2, <1>3, <1>4 DEF CreditGoesOn, OneWay

LEMMA TakenUp ==
  ASSUME NEW w \in Ways, NEW p \in Ids, TakeUp(w, p), UNCHANGED <<pay, mail, rows>>
  PROVE  OneWay(w, p)
  BY DEF TakeUp, LookedUp, LockLost, Concluded, OneWay

LEMMA CreditStepsGoOn == ASSUME OriginsInv, CreditNext PROVE CreditGoesOn
<1>1. ASSUME NEW m \in mail, ReceiveHook(m) PROVE CreditGoesOn
  <2> DEFINE p == m.payment
  <2>1. Received(p) /\ mail' \subseteq mail /\ UNCHANGED <<pay, rows, poll>>
        /\ \/ hook' = [hook EXCEPT ![p] = "taken"] /\ task' = [task EXCEPT ![<<"hook", p>>] = "queued"]
           \/ UNCHANGED <<hook, task>>
    BY <1>1 DEF ReceiveHook, OriginsInv, Move
  <2> HIDE DEF p
  <2>2. DOMAIN task' = Ways \X Ids
        /\ \A v \in Ways, q \in Ids : task'[<<v, q>>] # task[<<v, q>>] => q = p
    BY <2>1 DEF OriginsInv
  <2>3. DOMAIN hook' = Ids /\ \A q \in Ids : hook'[q] # hook[q] => q = p
    BY <2>1 DEF OriginsInv
  <2>4. QED
    BY <2>1, <2>2, <2>3 DEF CreditGoesOn, OriginsInv
<1>2. ASSUME UNCHANGED <<pay, hook, task, rows>>, poll' = poll \/ poll' = Idle, mail' \subseteq mail
      PROVE  CreditGoesOn
  <2>1. poll' = [on |-> poll'.on, left |-> poll'.left, upto |-> poll'.upto]
        /\ \A q \in poll'.left : q \in poll.left
    BY <1>2 DEF OriginsInv, Idle
  <2>2. QED
    BY <1>2, <2>1 DEF CreditGoesOn, OriginsInv
<1>3. ASSUME NEW m \in mail, LoseHook(m) PROVE CreditGoesOn
  BY <1>2, <1>3 DEF LoseHook
<1>4. ASSUME NEW p \in Ids, ExpireLock(p) PROVE CreditGoesOn
  BY <1>2, <1>4 DEF ExpireLock, bankVars
<1>5. CASE EndPoll \/ FailPoll
  BY <1>2, <1>5 DEF EndPoll, FailPoll, bankVars
<1>6. CASE StartPoll
  <2> DEFINE upto == Least(clock, Begins + TicksPerDay)
  <2>1. /\ poll' = [on |-> TRUE, left |-> FirstEntries(Window(upto)), upto |-> upto]
        /\ UNCHANGED <<pay, hook, task, rows, mail>>
    BY <1>6 DEF StartPoll, bankVars
  <2> HIDE DEF upto
  <2>2. \A q \in poll'.left : Received(q)
    BY <2>1 DEF FirstEntries, Window, StatementLines, Received
  <2>3. poll' = [on |-> poll'.on, left |-> poll'.left, upto |-> poll'.upto]
    BY <2>1
  <2>4. QED
    BY <2>1, <2>2, <2>3 DEF CreditGoesOn, OriginsInv
<1>7. ASSUME NEW p \in Ids, RetryHook(p) PROVE CreditGoesOn
  <2>1. Received(p) /\ OneWay("hook", p)
    BY <1>7 DEF RetryHook, OriginsInv, OneWay, bankVars
  <2>2. QED
    BY <2>1, OneWayGoesOn DEF Ways
<1>8. ASSUME NEW p \in Ids, LookUp(p) PROVE CreditGoesOn
  <2>1. Received(p) /\ TakeUp("hook", p) /\ UNCHANGED <<pay, mail, rows>>
    BY <1>8 DEF LookUp, OriginsInv, bankVars, Ways
  <2>2. QED
    BY <2>1, OneWayGoesOn, TakenUp DEF Ways
<1>9. ASSUME NEW p \in Ids, PollEntry(p) PROVE CreditGoesOn
  <2>1. Received(p) /\ UNCHANGED <<pay, mail, rows>>
        /\ \/ poll' = [poll EXCEPT !.left = @ \ {p}] /\ UNCHANGED <<task, hook>>
           \/ TakeUp("poll", p)
    BY <1>9 DEF PollEntry, OriginsInv, bankVars
  <2>2. OneWay("poll", p)
    BY <2>1, TakenUp DEF OneWay, Ways
  <2>3. QED
    BY <2>1, <2>2, OneWayGoesOn DEF Ways
<1>10. ASSUME NEW p \in Ids, Import(p) PROVE CreditGoesOn
  <2>1. Received(p) /\ TakeUp("import", p) /\ UNCHANGED <<pay, mail, rows>>
    BY <1>10 DEF Import, bankVars
  <2>2. QED
    BY <2>1, OneWayGoesOn, TakenUp DEF Ways
<1>11. ASSUME NEW p \in Ids, NEW w \in Ways, Apply(w, p) \/ Fail(w, p) PROVE CreditGoesOn
  <2>1. Received(p)
    <3>1. task[<<w, p>>] # "none"
      BY <1>11 DEF Apply, PostCredit, WriteRow, Tell, Fail
    <3>2. QED
      BY <3>1 DEF OriginsInv
  <2>2. ASSUME PostCredit(w, p) PROVE OneWay(w, p)
    BY <2>2 DEF PostCredit, OneWay, bankVars
  <2>3. ASSUME WriteRow(w, p) PROVE OneWay(w, p)
    BY <2>3 DEF WriteRow, Thrown, OneWay, bankVars
  <2>4. ASSUME Tell(w, p) PROVE OneWay(w, p)
    BY <2>4 DEF Tell, Concluded, OneWay, bankVars
  <2>5. ASSUME Fail(w, p) PROVE OneWay(w, p)
    BY <2>5 DEF Fail, Thrown, OneWay, bankVars
  <2>6. OneWay(w, p)
    BY <1>11, <2>2, <2>3, <2>4, <2>5 DEF Apply
  <2>7. QED
    BY <2>1, <2>6, OneWayGoesOn
<1>12. QED
  BY <1>1, <1>3, <1>4, <1>5, <1>6, <1>7, <1>8, <1>9, <1>10, <1>11 DEF CreditNext

\* The bank and the requests of refunds: what was received stays received, the webhook of
\* a receipt is of one, and a request is for a transaction of ours.
LEMMA OthersKeepOrigins ==
  ASSUME OriginsInv, UNCHANGED <<hook, task, poll, rows>>,
         \A p : Received(p) => Received(p)',
         \A m \in mail' : m \in mail \/ (m.type = "pix_in.received" => Received(m.payment)'),
         \A r \in Refunders : refund'[r].at # "none" =>
           (refund[r].at # "none" /\ refund'[r].of = refund[r].of) \/ refund'[r].of \in rows
  PROVE  OriginsInv'
  BY DEF OriginsInv, Ids

LEMMA BankGoesOnReceived == ASSUME BankGoesOn PROVE \A p : Received(p) => Received(p)'
  BY DEF BankGoesOn, Onward, Received

LEMMA BankMail ==
  ASSUME BankNext
  PROVE  \A m \in mail' : \/ m \in mail
                          \/ m.type = "pix_in.received" => Received(m.payment)
<1>1. ASSUME NEW p \in Payments, NEW type, NEW copies, Emit(type, p, copies),
             type = "pix_in.received" => Received(p), NEW m \in mail'
      PROVE  \/ m \in mail
             \/ m.type = "pix_in.received" => Received(m.payment)
  BY <1>1 DEF Emit
<1>2. ASSUME NEW p \in Payments, NEW copies, PersistOut(p, copies), NEW m \in mail'
      PROVE  \/ m \in mail
             \/ m.type = "pix_in.received" => Received(m.payment)
  <2>1. CASE UNCHANGED mail
    BY <2>1
  <2>2. CASE Emit("pix_out.pending", p, copies)
    BY <1>1, <2>2
  <2>3. CASE mail' = mail \cup {[type |-> t, payment |-> p, status |-> "PROCESSING", copy |-> c]
                                  : t \in {"pix_out.settled", "pix_out.pending"}, c \in 1..copies}
    BY <2>3
  <2>4. QED
    BY <1>2, <2>1, <2>2, <2>3 DEF PersistOut
<1>3. ASSUME NEW p \in Payments, NEW copies, MarkSettled(p, copies), NEW m \in mail'
      PROVE  \/ m \in mail
             \/ m.type = "pix_in.received" => Received(m.payment)
  BY <1>1, <1>3 DEF MarkSettled
<1>4. ASSUME NEW p \in Payments, NEW copies, PersistIn(p, copies), NEW m \in mail'
      PROVE  \/ m \in mail
             \/ m.type = "pix_in.received" => Received(m.payment)
  BY <1>1, <1>4 DEF PersistIn, Received
<1>5. ASSUME NEW p \in Payments, NEW copies, PersistRefund(p, copies), NEW m \in mail'
      PROVE  \/ m \in mail
             \/ m.type = "pix_in.received" => Received(m.payment)
  BY <1>1, <1>5 DEF PersistRefund
<1>6. ASSUME NEW p \in Payments,
             Authorize(p) \/ SettleCommit(p) \/ SettleMove(p)
               \/ KeepInSuspense(p) \/ CreditReceived(p) \/ AutoRefund(p) \/ DebitRefund(p)
      PROVE  UNCHANGED mail
  BY <1>6 DEF Authorize, SettleCommit, SettleMove, KeepInSuspense, CreditReceived, AutoRefund, DebitRefund
<1>7. QED
  BY <1>2, <1>3, <1>4, <1>5, <1>6 DEF BankNext

LEMMA BankKeepsOrigins ==
  ASSUME OriginsInv, RefundsInv, BankNext \/ Outside, UNCHANGED <<creditVars, refund>>
  PROVE  OriginsInv'
<1>1. \A p : Received(p) => Received(p)'
  BY BankStepsGoOn, OutsideGoesOn, BankGoesOnReceived
<1>2. Outside => UNCHANGED mail
  BY DEF Outside, ReceivePix, AdvanceClock, SendPix, SetStatus
<1>3. \A m \in mail' : m \in mail \/ (m.type = "pix_in.received" => Received(m.payment)')
  BY <1>1, <1>2, BankMail
<1>4. UNCHANGED <<hook, task, poll, rows>>
  BY DEF creditVars
<1>5. QED
  BY <1>1, <1>3, <1>4, OthersKeepOrigins

\* The request of a refund that reaches the bank names a Pix received and written.
LEMMA CallBankKeepsStatement ==
  ASSUME PaymentsInv, OriginsInv, RefundsInv, NEW r \in Refunders, CallBank(r)
  PROVE  PaymentsInv' /\ \A p : Received(p) => Received(p)'
<1> DEFINE o == refund[r].of
           new == NewRefund(pay[o].account, refund[r].amount, r, o)
<1>1. refund[r] \in RefundRecord /\ refund[r].at = "held"
  BY DEF CallBank, RefundsInv, RefundTypes
<1>2. CASE UNCHANGED bankVars
  BY <1>2 DEF bankVars, PaymentsInv, Payments, OriginalsDone, BooksFollow, Lines, Signed, MovedOf,
     Received
<1>3. CASE Refund(pay[o].account, o, refund[r].amount, r)
  <2>1. o \in Stored /\ pay' = Append(pay, new) /\ UNCHANGED <<books, clock>>
    BY <1>3 DEF Refund, Begin, NewRefund
  <2>2. Received(o)
    BY <1>1 DEF OriginsInv
  <2>3. pay \in Seq(Payment) /\ o \in Payments /\ pay[o] \in Payment /\ Shape(pay[o])
    BY <2>1, ElementOfSeq DEF PaymentsInv, Stored, Payments
  <2>4. pay[o].kind = "in" /\ pay[o].step = "done"
    BY <2>1, <2>2, <2>3 DEF Received, Shape, Stored
  <2>5. pay[o].account \in Customers \cup {Suspense} /\ refund[r].amount \in Nat /\ o \in Nat
        /\ r \in Keys \cup {NoKey}
    BY <1>1, <2>3, RefundAssumption DEF Payment, RefundRecord
  <2> HIDE DEF o
  <2>6. /\ new \in Payment /\ Shape(new) /\ new.kind = "refund" /\ new.step = "checked"
        /\ new.original = o
    BY <2>5, NewRefundLines, ZenonT(60)
  <2> HIDE DEF new
  <2>7. PaymentsInv'
    BY <2>1, <2>3, <2>4, <2>6, LineAppend
  <2>8. /\ Payments = 1..Len(pay) /\ Len(pay) \in Nat /\ Payments' = 1..(Len(pay) + 1)
        /\ \A p \in Payments : pay'[p] = pay[p]
    BY <2>1, <2>3, <2>6, AppendProperties DEF Payments
  <2>9. QED
    BY <2>7, <2>8 DEF Received
<1>4. QED
  BY <1>2, <1>3 DEF CallBank

LEMMA RefundsKeepStatement ==
  ASSUME PaymentsInv, OriginsInv, RefundsInv, RefundNext PROVE PaymentsInv' /\ OriginsInv'
<1>1. refund \in [Refunders -> RefundRecord]
  BY DEF RefundsInv, RefundTypes
<1>2. ASSUME UNCHANGED <<books, pay, clock>> PROVE PaymentsInv' /\ \A p : Received(p) => Received(p)'
  BY <1>2 DEF PaymentsInv, Payments, OriginalsDone, BooksFollow, Lines, Signed, MovedOf, Received
<1>3. ASSUME NEW r \in Refunders, NEW o \in rows, NEW n \in Amounts, StartRefund(r, o, n)
      PROVE  PaymentsInv' /\ OriginsInv'
  <2>1. UNCHANGED <<books, pay, clock, mail, hook, task, poll, rows>>
    BY <1>3 DEF StartRefund, bankVars, creditVars
  <2>2. \A q \in Refunders : refund'[q] = IF q = r THEN [refund[r] EXCEPT !.at = "checked", !.of = o, !.amount = n]
                                                   ELSE refund[q]
    BY <1>1, <1>3 DEF StartRefund
  <2>3. refund'[r].of = o
    BY <1>1, <2>2 DEF RefundRecord
  <2>4. \A q \in Refunders : refund'[q].at # "none" =>
          (refund[q].at # "none" /\ refund'[q].of = refund[q].of) \/ refund'[q].of \in rows
    BY <2>2, <2>3
  <2>5. QED
    BY <1>2, <2>1, <2>4, OthersKeepOrigins
<1>4. ASSUME NEW r \in Refunders,
             HoldRefund(r) \/ CallBank(r) \/ LoseAnswer(r) \/ AnswerRefused(r)
               \/ VoidRefund(r) \/ WriteRefund(r)
      PROVE  PaymentsInv' /\ OriginsInv'
  <2>1. UNCHANGED <<mail, hook, task, poll, rows>>
    BY <1>4 DEF HoldRefund, CallBank, Refund, LoseAnswer, AnswerRefused, VoidRefund, WriteRefund,
       bankVars, creditVars
  <2>2. refund[r].at # "none" \/ VoidRefund(r)
    BY <1>4 DEF HoldRefund, CallBank, LoseAnswer, AnswerRefused, WriteRefund
  <2>3. refund[r].at # "none"
    BY <2>2 DEF VoidRefund
  <2>4. /\ \A q \in Refunders : q # r => refund'[q] = refund[q]
        /\ refund'[r].of = refund[r].of
    <3>1. \/ \E x : refund' = [refund EXCEPT ![r].at = x]
          \/ \E x : refund' = [refund EXCEPT ![r].hold = x]
          \/ \E x, y : refund' = [refund EXCEPT ![r].at = x, ![r].hold = y]
          \/ \E x, y : refund' = [refund EXCEPT ![r].at = x, ![r].row = y]
      BY <1>4 DEF HoldRefund, CallBank, LoseAnswer, AnswerRefused, VoidRefund, WriteRefund
    <3>2. QED
      BY <1>1, <3>1, ZenonT(60) DEF RefundRecord
  <2>5. \A q \in Refunders : refund'[q].at # "none" =>
          (refund[q].at # "none" /\ refund'[q].of = refund[q].of) \/ refund'[q].of \in rows
    BY <2>3, <2>4
  <2>6. PaymentsInv' /\ \A p : Received(p) => Received(p)'
    <3>1. CASE CallBank(r)
      BY <3>1, CallBankKeepsStatement
    <3>2. CASE ~CallBank(r)
      BY <1>2, <1>4, <3>2 DEF HoldRefund, LoseAnswer, AnswerRefused, VoidRefund, WriteRefund, bankVars
    <3>3. QED
      BY <3>1, <3>2
  <2>7. QED
    BY <2>1, <2>5, <2>6, OthersKeepOrigins
<1>5. ASSUME NEW m \in mail, HookRefund(m) PROVE PaymentsInv' /\ OriginsInv'
  <2>1. UNCHANGED <<books, pay, clock, hook, task, poll, rows>> /\ mail' \subseteq mail
    BY <1>5 DEF HookRefund, creditVars
  <2>2. \A q \in Refunders : refund'[q] = refund[q] \/ refund'[q] = [refund[q] EXCEPT !.hold = "posted"]
    BY <1>5 DEF HookRefund
  <2>3. \A q \in Refunders : refund'[q].of = refund[q].of /\ refund'[q].at = refund[q].at
    BY <1>1, <2>2, ZenonT(60) DEF RefundRecord
  <2>4. QED
    BY <1>2, <2>1, <2>3, OthersKeepOrigins
<1>6. QED
  BY <1>3, <1>4, <1>5 DEF RefundNext

StatementInv == PaymentsInv /\ OriginsInv

LEMMA StatementInitially == Init => StatementInv
<1> SUFFICES ASSUME Init PROVE PaymentsInv /\ OriginsInv
  BY DEF StatementInv
<1>1. pay = <<>> /\ clock = 0 /\ mail = {} /\ rows = {} /\ poll = Idle
      /\ refund = [r \in Refunders |-> NoRefund]
      /\ hook = [p \in Ids |-> "none"] /\ task = [t \in Ways \X Ids |-> "none"]
  BY DEF Init, BankInit, CreditInit
<1>2. pay \in Seq(Payment) /\ Payments = {}
  BY <1>1 DEF Payments
<1>3. Opening \in Int /\ Opening * Cardinality(Customers) \in Int
  <2>1. IsFiniteSet(Customers)
    BY BankAssumption, AccountsAssumption, FS_Subset
  <2>2. Opening \in Nat /\ Cardinality(Customers) \in Nat
    BY <2>1, BankAssumption, FS_CardinalityType
  <2>3. QED
    BY <2>2
<1>4. books \in [Accounts -> Counters]
  <2> DEFINE total == Opening * Cardinality(Customers)
             open == [ZeroCounters EXCEPT !.creditsPosted = Opening]
             world == [ZeroCounters EXCEPT !.debitsPosted = total]
  <2>1. total \in Int
    BY <1>3
  <2>2. books = [a \in Accounts |-> CASE a \in Customers -> open
                                     [] a = "world" -> world
                                     [] OTHER -> ZeroCounters]
    BY DEF Init, BankInit
  <2> HIDE DEF total
  <2>3. open \in Counters /\ world \in Counters /\ ZeroCounters \in Counters
    BY <1>3, <2>1 DEF Counters, ZeroCounters
  <2> HIDE DEF open, world
  <2>4. QED
    BY <2>2, <2>3
<1>5. ASSUME NEW c \in Customers PROVE PostedBalance(c, books[c]) = Opening
  <2>1. c \in Accounts /\ NormalBalance[c] = "CREDIT" /\ c # "world"
    BY BankAssumption
  <2>2. books[c] = [ZeroCounters EXCEPT !.creditsPosted = Opening]
    BY <2>1 DEF Init, BankInit
  <2>3. QED
    BY <1>3, <2>1, <2>2 DEF PostedBalance, ZeroCounters
<1>6. BooksFollow
  <2>1. \A c \in Customers : MovedOf(c) = {}
    BY <1>2 DEF MovedOf
  <2>2. SumFunctionOnSet(Lines, {}) = 0
    BY SumOfNothing
  <2>3. \A c \in Customers : SumFunctionOnSet(Lines, MovedOf(c)) = 0
    BY <2>1, <2>2
  <2>4. Opening = Opening + 0
    BY <1>3
  <2>5. QED
    BY Zenon, <1>5, <2>3, <2>4 DEF BooksFollow
<1>7. PaymentsInv
  BY <1>1, <1>2, <1>4, <1>6 DEF PaymentsInv, OriginalsDone
<1>8. OriginsInv
  BY <1>1 DEF OriginsInv, Idle, NoRefund
<1>9. QED
  BY <1>7, <1>8

LEMMA StatementStep == StatementInv /\ RefundsInv /\ [Next]_vars => StatementInv'
<1> SUFFICES ASSUME PaymentsInv, OriginsInv, RefundsInv, [Next]_vars PROVE PaymentsInv' /\ OriginsInv'
  BY DEF StatementInv
<1>1. ASSUME UNCHANGED <<books, pay, clock>> PROVE PaymentsInv'
  BY <1>1 DEF PaymentsInv, Payments, OriginalsDone, BooksFollow, Lines, Signed, MovedOf
<1>2. CASE (BankNext \/ Outside) /\ UNCHANGED <<creditVars, refund>>
  BY <1>2, BankKeepsStatement, OutsideKeepsStatement, BankKeepsOrigins
<1>3. CASE CreditNext /\ UNCHANGED refund
  <2>1. UNCHANGED <<books, pay, clock>>
    BY ZenonT(60), <1>3 DEF CreditNext, ReceiveHook, LoseHook, RetryHook, LookUp, ExpireLock, PollEntry, Import,
       Apply, PostCredit, WriteRow, Tell, Fail, StartPoll, EndPoll, FailPoll, bankVars
  <2>2. QED
    BY <1>1, <1>3, <2>1, CreditStepsGoOn, CreditKeepsOrigins
<1>4. CASE RefundNext
  BY <1>4, RefundsKeepStatement
<1>5. CASE UNCHANGED vars
  BY <1>1, <1>5 DEF vars, bankVars, creditVars, OriginsInv, Received, Payments
<1>6. QED
  BY <1>2, <1>3, <1>4, <1>5 DEF Next

\* The statement of a customer closes with the bank's ledger at every instant, for any
\* number of payments, fees, automatic refunds and refunds of clients under way: every
\* payment that moved money is on the statement or between its posting and its writing,
\* once (statementLines, settle, receivePix, refund).
THEOREM StatementAlwaysCloses == Spec => []StatementCloses
<1>1. Init => StatementInv /\ RefundsInv /\ CreditsInv
  BY StatementInitially, RefundsInitially, CreditsInitially
<1>2. StatementInv => StatementCloses
  BY ClosesByInvariant DEF StatementInv
<1>3. QED
  BY <1>1, <1>2, StatementStep, RefundsStep, CreditsStep, PTL DEF Spec

=============================================================================
