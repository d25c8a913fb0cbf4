------------------------------ MODULE CreditIn ------------------------------
(***************************************************************************)
(* How a Pix received at the bank reaches our books. Three ways lead to    *)
(* the same applyDrafts: the webhook (at most two attempts, one event per  *)
(* payment), the poller of the statement (which claims an entry before it  *)
(* applies it) and the import of the reconciliation. applyDrafts takes the *)
(* lock of the transaction, looks it up, credits the shadow ledger under   *)
(* an idempotency key, writes the transaction and appends the event for    *)
(* the client: four steps, no transaction around them. A step may fail or  *)
(* the process die between any two; the lock is then free again.           *)
(***************************************************************************)
EXTENDS Bank

CONSTANTS
    TicksPerDay,     \* the statement is asked for by day
    Lap,             \* lapSeconds: overlap of two windows
    PageLimit,       \* MAX_PAGES * PAGE_SIZE entries per poll
    MaxFaults        \* bound on failures, deaths and lost locks

ASSUME CreditAssumption ==
    /\ {TicksPerDay, PageLimit} \subseteq Nat \ {0}
    /\ {Lap, MaxFaults} \subseteq Nat

VARIABLES
    hook,            \* the inbound event of a payment's webhook
    task,            \* how far each way is with each payment
    lock,            \* the way that holds the lock of a transaction
    posted,          \* idempotency keys the shadow ledger has posted under
    credits,         \* postings to the customer's account, per payment
    rows,            \* payments that have a transaction
    told,            \* events appended for the client, per payment
    claimed,         \* entries the poller has claimed (poll:<entry>)
    watermark,       \* of the poll cursor
    poll,            \* the poll under way: entries left and end of its window
    faults

creditVars == <<hook, task, lock, posted, credits, rows, told, claimed, watermark, poll,
                faults>>

Ids == 1..MaxPayments
Ways == {"hook", "poll", "import"}
Free == "free"
Idle == [on |-> FALSE, left |-> {}, upto |-> 0]
Stages == {"none", "queued", "looked", "credited", "written"}
HookStates == {"none", "again", "taken", "done", "stuck", "dead"}

CreditTypeOK ==
    /\ hook \in [Ids -> HookStates]
    /\ task \in [Ways \X Ids -> Stages]
    /\ lock \in [Ids -> Ways \cup {Free}]
    /\ posted \subseteq (Ways \cup {"pix-in"}) \X Ids
    /\ credits \in [Ids -> Nat]
    /\ rows \subseteq Ids /\ claimed \subseteq Ids
    /\ told \in [Ids -> Nat]
    /\ watermark \in 0..MaxClock
    /\ poll \in [on : BOOLEAN, left : SUBSET Ids, upto : 0..MaxClock]
    /\ faults \in 0..MaxFaults

CreditInit ==
    /\ hook = [p \in Ids |-> "none"]
    /\ task = [t \in Ways \X Ids |-> "none"]
    /\ lock = [p \in Ids |-> Free]
    /\ posted = {} /\ rows = {} /\ claimed = {}
    /\ credits = [p \in Ids |-> 0]
    /\ told = [p \in Ids |-> 0]
    /\ watermark = 0
    /\ poll = Idle
    /\ faults = 0

Move(w, p, s) == task' = [task EXCEPT ![<<w, p>>] = s]
Received(p) == p \in Payments /\ pay[p].kind = "in"

(***************************************************************************)
(* The webhook                                                             *)
(***************************************************************************)

\* The event of a payment, stored once: a second copy is only acknowledged.
ReceiveHook(m) ==
    /\ m \in mail /\ m.type = "pix_in.received"
    /\ mail' = mail \ {m}
    /\ IF hook[m.payment] = "none"
       THEN hook' = [hook EXCEPT ![m.payment] = "taken"] /\ Move("hook", m.payment, "queued")
       ELSE UNCHANGED <<hook, task>>
    /\ UNCHANGED <<books, account, pay, byKey, clock, lock, posted, credits, rows, told, claimed,
                   watermark, poll, faults>>

\* A delivery that fails is not repeated.
LoseHook(m) ==
    /\ m \in mail /\ m.type = "pix_in.received"
    /\ faults < MaxFaults
    /\ faults' = faults + 1
    /\ mail' = mail \ {m}
    /\ UNCHANGED <<books, account, pay, byKey, clock, hook, task, lock, posted, credits, rows, told,
                   claimed, watermark, poll>>

\* The sweeper offers a failed event once more.
RetryHook(p) ==
    /\ hook[p] = "again" /\ task[<<"hook", p>>] = "none"
    /\ hook' = [hook EXCEPT ![p] = "taken"]
    /\ Move("hook", p, "queued")
    /\ UNCHANGED <<bankVars, lock, posted, credits, rows, told, claimed, watermark, poll, faults>>

(***************************************************************************)
(* applyDrafts                                                             *)
(***************************************************************************)

\* What becomes of the caller when its draft was applied or was known.
Concluded(w, p) ==
    /\ hook' = IF w = "hook" THEN [hook EXCEPT ![p] = "done"] ELSE hook
    /\ poll' = IF w = "poll" THEN [poll EXCEPT !.left = @ \ {p}] ELSE poll

\* What becomes of it when the draft threw: the event is FAILED, then dead at
\* the second attempt; the poll ends and its watermark stays; the break stays.
Thrown(w, p, again) ==
    /\ hook' = IF w = "hook" THEN [hook EXCEPT ![p] = again] ELSE hook
    /\ poll' = IF w = "poll" THEN Idle ELSE poll

Unlocked(w, p) == [lock EXCEPT ![p] = IF @ = w THEN Free ELSE @]

\* findTransaction, then the dedupe by end-to-end id: a transaction that
\* exists refuses the same status again, and nothing changes.
LookedUp(w, p) ==
    IF p \in rows
    THEN Move(w, p, "none") /\ Concluded(w, p) /\ UNCHANGED lock
    ELSE Move(w, p, "looked") /\ lock' = [lock EXCEPT ![p] = w] /\ UNCHANGED <<hook, poll>>

\* The lock is not there: the event stays PROCESSING, the poller and the
\* import go on without the entry.
LockLost(w, p) ==
    /\ Move(w, p, "none")
    /\ hook' = IF w = "hook" THEN [hook EXCEPT ![p] = "stuck"] ELSE hook
    /\ poll' = IF w = "poll" THEN [poll EXCEPT !.left = @ \ {p}] ELSE poll
    /\ UNCHANGED lock

\* lock.run around applyDraft, up to the first write.
TakeUp(w, p) == IF lock[p] = Free THEN LookedUp(w, p) ELSE LockLost(w, p)

LookUp(p) ==
    /\ task[<<"hook", p>>] = "queued"
    /\ TakeUp("hook", p)
    /\ UNCHANGED <<bankVars, posted, credits, rows, told, claimed, watermark, faults>>

\* What a draft names as its payment. The webhook gives the transaction; an
\* entry of the statement gives its transaction, or its own id where it names
\* none. The adapter of the mock bank fills both with the id of the payment.
Entry(p) == [providerTransactionId |-> p, providerEntryId |-> p]
Absent == 0
EntryPayment(e) ==
    IF e.providerTransactionId # Absent THEN e.providerTransactionId ELSE e.providerEntryId
ProviderId(w, p) == IF w = "hook" THEN p ELSE EntryPayment(Entry(p))

\* Mutant: the key of the credit names the way it came.
CreditKeyPerWay(w, p) == <<w, ProviderId(w, p)>>

\* The idempotency key pix-in:<provider id>.
CreditKey(w, p) == <<"pix-in", ProviderId(w, p)>>

\* Mutant: a key already posted is an error.
PostCreditStrict(w, p) ==
    /\ task[<<w, p>>] = "looked"
    /\ CreditKey(w, p) \notin posted
    /\ posted' = posted \cup {CreditKey(w, p)}
    /\ credits' = [credits EXCEPT ![p] = @ + 1]
    /\ Move(w, p, "credited")
    /\ UNCHANGED <<bankVars, hook, lock, rows, told, claimed, watermark, poll, faults>>

\* creditIn: a key already posted answers with that posting, any other one
\* moves the balance again.
PostCredit(w, p) ==
    /\ task[<<w, p>>] = "looked"
    /\ IF CreditKey(w, p) \in posted
       THEN UNCHANGED <<posted, credits>>
       ELSE /\ posted' = posted \cup {CreditKey(w, p)}
            /\ credits' = [credits EXCEPT ![p] = @ + 1]
    /\ Move(w, p, "credited")
    /\ UNCHANGED <<bankVars, hook, lock, rows, told, claimed, watermark, poll, faults>>

\* transactions.create: provider id and end-to-end id are unique; the second
\* writer throws.
WriteRow(w, p) ==
    /\ task[<<w, p>>] = "credited"
    /\ IF p \in rows
       THEN /\ Move(w, p, "none") /\ Thrown(w, p, "again")
            /\ lock' = Unlocked(w, p) /\ UNCHANGED rows
       ELSE /\ rows' = rows \cup {p} /\ Move(w, p, "written")
            /\ UNCHANGED <<hook, poll, lock>>
    /\ UNCHANGED <<bankVars, posted, credits, told, claimed, watermark, faults>>

\* outbox.append, the cache, and the end.
Tell(w, p) ==
    /\ task[<<w, p>>] = "written"
    /\ told' = [told EXCEPT ![p] = @ + 1]
    /\ Move(w, p, "none") /\ Concluded(w, p)
    /\ lock' = Unlocked(w, p)
    /\ UNCHANGED <<bankVars, posted, credits, rows, claimed, watermark, faults>>

\* A statement fails, or the process dies: the caller learns it or, dead,
\* leaves the event PROCESSING.
Fail(w, p) ==
    /\ task[<<w, p>>] \notin {"none"}
    /\ faults < MaxFaults
    /\ faults' = faults + 1
    /\ Move(w, p, "none")
    /\ \E again \in {"again", "dead", "stuck"} : Thrown(w, p, again)
    /\ lock' = Unlocked(w, p)
    /\ UNCHANGED <<bankVars, posted, credits, rows, told, claimed, watermark>>

\* The lock outlives neither its TTL nor Redis: it is gone, the work goes on.
ExpireLock(p) ==
    /\ lock[p] # Free
    /\ faults < MaxFaults
    /\ faults' = faults + 1
    /\ lock' = [lock EXCEPT ![p] = Free]
    /\ UNCHANGED <<bankVars, hook, task, posted, credits, rows, told, claimed, watermark, poll>>

(***************************************************************************)
(* The poller and the import                                               *)
(***************************************************************************)

Day(t) == t \div TicksPerDay
Least(a, b) == IF a < b THEN a ELSE b
Begins == IF watermark < Lap THEN 0 ELSE watermark - Lap

\* The window starts a lap before the watermark, spans a day at most, and is
\* asked for by date: the provider answers with whole days. Credits only.
Window(upto) ==
    LET from == Day(Begins) * TicksPerDay
        to == Day(upto) * TicksPerDay + TicksPerDay - 1
    IN  {p \in UNION {StatementLines(c, from, to) : c \in Customers} : pay[p].kind = "in"}

\* drain stops after MAX_PAGES pages, oldest entries first.
FirstEntries(set) ==
    {p \in set : Cardinality({q \in set : pay[q].at < pay[p].at \/ (pay[q].at = pay[p].at /\ q < p)})
                   < PageLimit}

\* A poll that would find nothing new is left out.
StartPoll ==
    LET upto == Least(clock, Begins + TicksPerDay)
    IN  /\ ~poll.on
        /\ Window(upto) \ claimed # {} \/ upto > watermark
        /\ poll' = [on |-> TRUE, left |-> FirstEntries(Window(upto)), upto |-> upto]
        /\ UNCHANGED <<bankVars, hook, task, lock, posted, credits, rows, told, claimed,
                       watermark, faults>>

\* applyEntry: the entry is claimed before it is applied; a known entry is
\* passed over.
PollEntry(p) ==
    /\ poll.on /\ p \in poll.left /\ \A q \in poll.left : p <= q
    /\ \A q \in Ids : task[<<"poll", q>>] = "none"
    /\ IF p \in claimed
       THEN poll' = [poll EXCEPT !.left = @ \ {p}] /\ UNCHANGED <<claimed, task, hook, lock>>
       ELSE claimed' = claimed \cup {p} /\ TakeUp("poll", p)
    /\ UNCHANGED <<bankVars, posted, credits, rows, told, watermark, faults>>

\* The page is over: the watermark moves to the end of the window.
EndPoll ==
    /\ poll.on /\ poll.left = {}
    /\ watermark' = poll.upto
    /\ poll' = Idle
    /\ UNCHANGED <<bankVars, hook, task, lock, posted, credits, rows, told, claimed, faults>>

\* The provider or the claim fails between two entries: recordFailure.
FailPoll ==
    /\ poll.on
    /\ \A q \in Ids : task[<<"poll", q>>] = "none"
    /\ faults < MaxFaults
    /\ faults' = faults + 1
    /\ poll' = Idle
    /\ UNCHANGED <<bankVars, hook, task, lock, posted, credits, rows, told, claimed, watermark>>

\* A reconciliation finds the credit on the statement and nowhere else.
Import(p) ==
    /\ Received(p) /\ OnStatement(p) /\ pay[p].account \in Customers
    /\ p \notin rows
    /\ task[<<"import", p>>] = "none"
    /\ TakeUp("import", p)
    /\ UNCHANGED <<bankVars, posted, credits, rows, told, claimed, watermark, faults>>

Apply(w, p) ==
    PostCredit(w, p) \/ WriteRow(w, p) \/ Tell(w, p)

CreditNext ==
    \/ \E m \in mail : ReceiveHook(m) \/ LoseHook(m)
    \/ \E p \in Ids : \/ RetryHook(p) \/ LookUp(p) \/ ExpireLock(p) \/ PollEntry(p) \/ Import(p)
                      \/ \E w \in Ways : Apply(w, p) \/ Fail(w, p)
    \/ StartPoll \/ EndPoll \/ FailPoll

(***************************************************************************)
(* Properties                                                              *)
(***************************************************************************)

\* A Pix received moves the shadow balance once, whichever ways it comes by, in
\* whatever order, with a crash between the credit and the transaction and with
\* a lock that expires under its holder; and no transaction is written whose
\* credit the ledger does not know ("um extrato com um credito que o razao nao
\* conhece").
CreditedOnce ==
    \A p \in Ids : credits[p] <= 1 /\ (p \in rows => credits[p] = 1)

\* The poller leaves no credit behind its watermark that it has not claimed
\* ("um poller pula um dia em silencio" is what poll() guards against).
PollerSkipsNothing ==
    \A p \in Payments :
      (OnStatement(p) /\ pay[p].kind = "in" /\ pay[p].account \in Customers
         /\ pay[p].at + Lap < watermark) => p \in claimed

\* Every Pix the bank has written for a customer has, in the end, its credit
\* and its transaction, although webhooks are lost and attempts fail.
EveryCreditRecorded ==
    \A p \in Ids :
      (p \in Payments /\ pay[p].kind = "in" /\ pay[p].account \in Customers /\ pay[p].stored)
        ~> (p \in rows /\ credits[p] > 0)
=============================================================================
