-------------------------------- MODULE Bank --------------------------------
(***************************************************************************)
(* The movements of the Mock Bank, the provider the whole system runs      *)
(* against: Pix out in two phases, Pix in, refunds, and the books behind   *)
(* them. A request is a chain of steps cut where the code awaits: the      *)
(* checks, the posting in the ledger (one transaction at a time behind     *)
(* the store's mutex), the writing of the payment, the settlement. Any     *)
(* other request may run in between. A payment takes the next number when  *)
(* its request begins; it is visible once written (persist).               *)
(*                                                                         *)
(* The scenario of a Pix out follows from its cents; here it is chosen.    *)
(* Those that refuse at once (INSUFFICIENT_FUNDS, PROVIDER_ERROR, a limit) *)
(* change nothing and have no action.                                      *)
(***************************************************************************)
EXTENDS LedgerOps, Sequences

CONSTANTS
    Customers,       \* accounts of customers
    Keys,            \* idempotency keys
    Amounts,         \* amounts of a Pix
    Limits,          \* the limit of the hour, by day and by night
    Fee,             \* pixOutFeeCents
    Opening,         \* balance of every customer at the start
    Copies,          \* deliveries of a webhook: 2 when duplicates are injected
    Scenarios,       \* scenarios of a Pix out, out of OutScenarios
    MaxPayments,     \* bound on payments
    MaxClock,        \* bound on the clock
    RefundWindow     \* PIX_REFUND_WINDOW_DAYS, in units of the clock

OutScenarios == {"SETTLE", "TIMEOUT", "AUTO_REFUND", "DUPLICATE_WEBHOOK",
                 "OUT_OF_ORDER_WEBHOOK"}

ASSUME BankAssumption ==
    /\ {Fee, Opening, MaxPayments, MaxClock, RefundWindow} \subseteq Nat
    /\ Amounts \subseteq Nat \ {0}
    /\ Copies \subseteq {1, 2}
    /\ Scenarios \subseteq OutScenarios
    /\ Accounts = Customers \cup {"clearing", "fees", "world"}
    /\ NormalBalance["world"] = "DEBIT"
    /\ \A c \in Customers : NormalBalance[c] = "CREDIT"
    /\ Customers \cap {"clearing", "fees", "world", "suspense"} = {}
    /\ "noKey" \notin Keys

VARIABLES
    books,           \* counters of every ledger account
    account,         \* status of every customer's account
    pay,             \* payments, by number
    byKey,           \* paymentsByIdempotencyKey; 0 is no entry
    mail,            \* webhooks on their way
    clock

bankVars == <<books, account, pay, byKey, mail, clock>>

NoKey == "noKey"
Suspense == "suspense"
AccountStatus == {"ACTIVE", "BLOCKED", "CLOSED"}
Steps == {"checked", "posted", "written", "announced", "committed", "moved",
          "settled", "done", "hung", "failed"}

Payment ==
    [kind : {"out", "in", "refund"}, account : Customers \cup {Suspense},
     amount : Nat, fee : Nat, key : Keys \cup {NoKey}, original : Nat,
     scenario : OutScenarios, status : {"PROCESSING", "SETTLED", "REVERSED",
     "PARTIALLY_REVERSED"}, refunded : Nat, at : Nat, step : Steps, stored : BOOLEAN]

Payments == DOMAIN pay
Stored == {p \in Payments : pay[p].stored}

BankTypeOK ==
    /\ books \in [Accounts -> Counters]
    /\ account \in [Customers -> AccountStatus]
    /\ Len(pay) <= MaxPayments /\ \A p \in Payments : pay[p] \in Payment
    /\ byKey \in [Keys -> 0..MaxPayments]
    /\ clock \in 0..MaxClock

\* An account opened with money already on it, against the outside world.
BankInit ==
    /\ books = [a \in Accounts |->
         CASE a \in Customers -> [ZeroCounters EXCEPT !.creditsPosted = Opening]
           [] a = "world" -> [ZeroCounters EXCEPT !.debitsPosted = Opening * Cardinality(Customers)]
           [] OTHER -> ZeroCounters]
    /\ account = [c \in Customers |-> "ACTIVE"]
    /\ pay = <<>>
    /\ byKey = [k \in Keys |-> 0]
    /\ mail = {}
    /\ clock = 0

(***************************************************************************)
(* The ledger                                                              *)
(***************************************************************************)

Debit(n) == [direction |-> "DEBIT", amount |-> n]
Credit(n) == [direction |-> "CREDIT", amount |-> n]

\* The legs of the postings. Each is one transaction of the engine, behind
\* the mutex of the store: all of it or, without funds, nothing.
Transfer(from, to, n) == [a \in {from, to} |-> IF a = from THEN Debit(n) ELSE Credit(n)]
CreditFromExternal(p) == Transfer("world", p.account, p.amount)
AuthorizePixOut(p) ==
    [a \in {p.account, "clearing"} \cup (IF p.fee > 0 THEN {"fees"} ELSE {}) |->
       IF a = p.account THEN Debit(p.amount + p.fee)
       ELSE Credit(IF a = "clearing" THEN p.amount ELSE p.fee)]
SettleExternal(p) == Transfer("clearing", "world", p.amount)
PostRefund(p) == Transfer(p.account, "world", p.amount)

(***************************************************************************)
(* Helpers of the requests                                                 *)
(***************************************************************************)

NewPayment(kind, a, n, k) ==
    [kind |-> kind, account |-> a, amount |-> n, fee |-> IF kind = "out" THEN Fee ELSE 0,
     key |-> k, original |-> 0, scenario |-> "SETTLE",
     status |-> IF kind = "out" THEN "PROCESSING" ELSE "SETTLED",
     refunded |-> 0, at |-> clock, step |-> "checked", stored |-> FALSE]

\* The request's first lines: a key already taken returns that payment.
FreshKey(k) == IF k = NoKey THEN TRUE ELSE byKey[k] = 0

Begin(p) == Len(pay) < MaxPayments /\ pay' = Append(pay, p)
Step(p, s) == pay' = [pay EXCEPT ![p].step = s]

\* persist: the payment becomes visible, its key points to it.
IndexKey(p) ==
    byKey' = IF pay[p].key = NoKey THEN byKey ELSE [byKey EXCEPT ![pay[p].key] = p]

\* emit: one delivery, or two when duplicates are asked for or injected. A
\* delivery that fails is logged and never repeated.
Emit(type, p, copies) ==
    mail' = mail \cup {[type |-> type, payment |-> p, status |-> pay'[p].status, copy |-> c]
                         : c \in 1..copies}

(***************************************************************************)
(* Pix out                                                                 *)
(***************************************************************************)

SendPix(a, n, k, s) ==
    /\ FreshKey(k)
    /\ account[a] = "ACTIVE"
    /\ \E limit \in Limits : n <= limit
    /\ Begin([NewPayment("out", a, n, k) EXCEPT !.scenario = s])
    /\ UNCHANGED <<books, account, byKey, mail, clock>>

Authorize(p) ==
    LET legs == AuthorizePixOut(pay[p])
        after == AfterPost(books, legs, "PENDING")
    IN  /\ pay[p].kind = "out" /\ pay[p].step = "checked"
        /\ IF GuardHolds(after, legs)
           THEN books' = after /\ Step(p, "posted")
           ELSE Step(p, "failed") /\ UNCHANGED books
        /\ UNCHANGED <<account, byKey, mail, clock>>

\* The payment is written, and either the request hangs for good or the
\* settlement starts and announces the payment.
PersistOut(p, copies) ==
    /\ pay[p].kind = "out" /\ pay[p].step = "posted"
    /\ pay' = [pay EXCEPT ![p].stored = TRUE,
                          ![p].step = IF pay[p].scenario = "TIMEOUT"
                                      THEN "hung" ELSE "announced"]
    /\ IndexKey(p)
    /\ CASE pay[p].scenario = "TIMEOUT" -> UNCHANGED mail
         [] pay[p].scenario = "OUT_OF_ORDER_WEBHOOK" ->
              mail' = mail \cup {[type |-> t, payment |-> p, status |-> "PROCESSING", copy |-> c]
                                   : t \in {"pix_out.settled", "pix_out.pending"}, c \in 1..copies}
         [] OTHER -> Emit("pix_out.pending", p, copies)
    /\ UNCHANGED <<books, account, clock>>

SettleCommit(p) ==
    /\ pay[p].step = "announced"
    /\ books' = AfterResolve(books, AuthorizePixOut(pay[p]), TRUE)
    /\ Step(p, "committed")
    /\ UNCHANGED <<account, byKey, mail, clock>>

SettleMove(p) ==
    /\ pay[p].step = "committed"
    /\ books' = AfterPost(books, SettleExternal(pay[p]), "POSTED")
    /\ Step(p, "moved")
    /\ UNCHANGED <<account, byKey, mail, clock>>

\* Mutant: the status is left behind.
MarkSettledNot(p, copies) ==
    /\ pay[p].step = "moved"
    /\ Step(p, "settled")
    /\ UNCHANGED <<books, account, byKey, mail, clock>>

\* The status follows the ledger; the webhook follows the status, except
\* where it was sent ahead.
MarkSettled(p, copies) ==
    /\ pay[p].step = "moved"
    /\ pay' = [pay EXCEPT ![p].status = "SETTLED", ![p].at = clock, ![p].step = "settled"]
    /\ IF pay[p].scenario = "OUT_OF_ORDER_WEBHOOK" THEN UNCHANGED mail
       ELSE Emit("pix_out.settled", p,
                 IF pay[p].scenario = "DUPLICATE_WEBHOOK" THEN 2 ELSE copies)
    /\ UNCHANGED <<books, account, byKey, clock>>

(***************************************************************************)
(* Pix in                                                                  *)
(***************************************************************************)

\* receivePix: a, the account named or the one the key resolves to.
ReceivePix(a, n) ==
    /\ Begin(NewPayment("in", a, n, NoKey))
    /\ UNCHANGED <<books, account, byKey, mail, clock>>

\* A key that resolves to nobody: the payment is kept in suspense.
KeepInSuspense(p) ==
    /\ pay[p].kind = "in" /\ pay[p].step = "checked" /\ pay[p].account = Suspense
    /\ pay' = [pay EXCEPT ![p].stored = TRUE, ![p].step = "done"]
    /\ UNCHANGED <<books, account, byKey, mail, clock>>

CreditReceived(p) ==
    /\ pay[p].kind = "in" /\ pay[p].step = "checked" /\ pay[p].account # Suspense
    /\ books' = AfterPost(books, CreditFromExternal(pay[p]), "POSTED")
    /\ Step(p, "posted")
    /\ UNCHANGED <<account, byKey, mail, clock>>

PersistIn(p, copies) ==
    /\ pay[p].kind = "in" /\ pay[p].step = "posted"
    /\ pay' = [pay EXCEPT ![p].stored = TRUE, ![p].step = "done"]
    /\ Emit("pix_in.received", p, copies)
    /\ UNCHANGED <<books, account, byKey, clock>>

(***************************************************************************)
(* Refunds                                                                 *)
(***************************************************************************)

Refundable(o, n) == pay[o].refunded + n <= pay[o].amount

\* refund: checks against what the original says now; original is found by
\* its end-to-end id, which Pix in and Pix out have and refunds have not.
Refund(a, o, n, k) ==
    /\ FreshKey(k)
    /\ o \in Stored /\ pay[o].kind # "refund"
    /\ clock - pay[o].at <= RefundWindow
    /\ Refundable(o, n)
    /\ Begin([NewPayment("refund", a, n, k) EXCEPT !.original = o])
    /\ UNCHANGED <<books, account, byKey, mail, clock>>

\* The scenario AUTO_REFUND: after the settlement the bank refunds by itself.
AutoRefund(p) ==
    /\ pay[p].step = "settled"
    /\ IF /\ pay[p].scenario = "AUTO_REFUND"
          /\ Refundable(p, pay[p].amount)
       THEN /\ Len(pay) < MaxPayments
            /\ pay' = Append([pay EXCEPT ![p].step = "done"],
                             [NewPayment("refund", pay[p].account, pay[p].amount, NoKey)
                                EXCEPT !.original = p])
       ELSE Step(p, "done")
    /\ UNCHANGED <<books, account, byKey, mail, clock>>

DebitRefund(p) ==
    LET legs == PostRefund(pay[p])
        after == AfterPost(books, legs, "POSTED")
    IN  /\ pay[p].kind = "refund" /\ pay[p].step = "checked"
        /\ IF GuardHolds(after, legs)
           THEN books' = after /\ Step(p, "posted")
           ELSE Step(p, "failed") /\ UNCHANGED books
        /\ UNCHANGED <<account, byKey, mail, clock>>

\* The original adds the amount up and the refund is written.
PersistRefund(p, copies) ==
    /\ pay[p].kind = "refund" /\ pay[p].step = "posted"
    /\ LET o == pay[p].original
           total == pay[o].refunded + pay[p].amount
       IN  pay' = [pay EXCEPT ![o].refunded = total,
                              ![o].status = IF total >= pay[o].amount
                                            THEN "REVERSED" ELSE "PARTIALLY_REVERSED",
                              ![p].stored = TRUE, ![p].step = "done"]
    /\ IndexKey(p)
    /\ Emit("pix_refund.settled", p, copies)
    /\ UNCHANGED <<books, account, clock>>

(***************************************************************************)
(* The control panel, the account routes and the statement                 *)
(***************************************************************************)

\* bloquear, desbloquear, encerrar: whatever the status was.
SetStatus(a, s) ==
    /\ account[a] # s
    /\ account' = [account EXCEPT ![a] = s]
    /\ UNCHANGED <<books, pay, byKey, mail, clock>>

\* clock/advance; a Pix in is written within the lap of the pollers.
AdvanceClock ==
    /\ clock < MaxClock
    /\ clock' = clock + 1
    /\ UNCHANGED <<books, account, pay, byKey, mail>>

\* statementLines: what settled, each payment with its sign, the fee as a
\* line of its own.
SETTLED_FOR_STATEMENT == {"SETTLED", "REVERSED", "PARTIALLY_REVERSED"}
OnStatement(p) == pay[p].stored /\ pay[p].status \in SETTLED_FOR_STATEMENT
StatementLines(c, from, to) ==
    {p \in Payments : /\ OnStatement(p) /\ pay[p].account = c
                      /\ pay[p].at >= from /\ pay[p].at <= to}
Signed(p) == IF pay[p].kind = "in" THEN pay[p].amount ELSE -(pay[p].amount + pay[p].fee)

BankNext ==
    \E p \in Payments :
         \/ Authorize(p) \/ SettleCommit(p) \/ SettleMove(p)
         \/ KeepInSuspense(p) \/ CreditReceived(p) \/ AutoRefund(p) \/ DebitRefund(p)
         \/ \E copies \in Copies : \/ PersistOut(p, copies) \/ MarkSettled(p, copies)
                                 \/ PersistIn(p, copies) \/ PersistRefund(p, copies)

(***************************************************************************)
(* Properties                                                              *)
(***************************************************************************)

\* Lines of c that the ledger has posted and the statement cannot show yet:
\* their request is between the posting and the writing. SettleMove and
\* MarkSettled leave a settlement there for two awaits.
InTransit(c) ==
    {p \in Payments : /\ pay[p].account = c
                      /\ \/ pay[p].step = "posted" /\ pay[p].kind # "out"
                         \/ pay[p].step \in {"committed", "moved"}}

\* The statement closes with the ledger: the opening balance, the lines
\* and what is in transit add up to the posted balance (the promise the
\* comment of statementLines makes, fee lines included). It fails when a
\* payment that moved money is never marked settled or is marked twice.
StatementCloses ==
    \A c \in Customers :
      PostedBalance(c, books[c]) =
        Opening + SumFunctionOnSet([p \in Payments |-> Signed(p)],
                                   {p \in Payments : OnStatement(p) /\ pay[p].account = c}
                                     \cup InTransit(c))
=============================================================================
