-------------------------- MODULE MCReconciliation --------------------------
(* Books of two payments of one account, each with something gone wrong.   *)
EXTENDS Reconciliation, TLC

CONSTANTS w1, w2

\* The Friday before Carnival of 2026; the next business day is 5 days later.
Friday == DayOf(2026, 2, 13)
AshWednesday == DayOf(2026, 2, 18)

\* The window of an intraday run, in minutes.
FourHoursBack == -240

Entry(n, e2e, cents, day, direction, type) ==
  [id |-> <<"entry", n>>, pay |-> n, e2e |-> e2e, at |-> n - 200, day |-> day,
   direction |-> direction, cents |-> cents, type |-> type]
Txn(n, copy, e2e, cents, at, direction, status, party, ltx) ==
  [id |-> <<"tx", n, copy>>, pay |-> n, e2e |-> e2e, ptx |-> None, at |-> at, day |-> Friday,
   direction |-> direction, cents |-> cents, type |-> "PIX", status |-> status,
   party |-> party, ltx |-> ltx]
Move(n, copy, cents, direction, type) ==
  [id |-> <<"posting", n, copy>>, pay |-> n, at |-> n - 200, day |-> Friday,
   direction |-> direction, cents |-> cents, type |-> type]

Credit(n, e2e, cents, day) == Entry(n, e2e, cents, day, "CREDIT", "PIX")
Received(n, copy, e2e, cents) ==
  Txn(n, copy, e2e, cents, n - 200, "CREDIT", "SETTLED", "payer", <<"posting", n, copy>>)
Receipt(n, copy, cents) == Move(n, copy, cents, "CREDIT", "PIX_IN_RECEIVE")

E2e(n) == <<"E", n>>
Book(p, posts, c, l) ==
  [statement |-> p, late |-> posts, txns |-> c, moves |-> l]

\* What may have become of payment n of the given amount.
Stories(n, cents) ==
  { Book({Credit(n, E2e(n), cents, Friday)}, {}, {Received(n, 1, E2e(n), cents)},
         {Receipt(n, 1, cents)}),                                       \* all agree
    Book({Credit(n, E2e(n), cents, Friday)}, {}, {Received(n, 1, E2e(n), cents)},
         {[Receipt(n, 1, cents) EXCEPT !.at = WindowStart - n]}),       \* earlier that day
    Book({Credit(n, E2e(n), cents, AshWednesday)}, {}, {Received(n, 1, None, cents)},
         {Receipt(n, 1, cents)}),                                       \* posted after Carnival
    Book({Credit(n, E2e(n), cents, AshWednesday)}, {}, {Received(n, 1, E2e(n), cents + 3)},
         {Receipt(n, 1, cents + 5)}),                                   \* three amounts
    Book({Credit(n, E2e(n), cents, Friday)}, {}, {}, {}),               \* webhook lost
    Book({Credit(n, None, cents, Friday)}, {}, {}, {}),                 \* and no E2EID
    Book({}, {}, {Txn(n, 1, E2e(n), cents, 0, "DEBIT", "PENDING", "payee", None)}, {}),
    Book({}, {Credit(n, E2e(n), cents, Friday)}, {Received(n, 1, E2e(n), cents)},
         {Receipt(n, 1, cents)}),                                       \* the statement is late
    Book({Credit(n, None, cents, Friday)}, {},
         {Received(n, 1, None, cents), Received(n, 2, None, cents)},
         {Receipt(n, 1, cents), Receipt(n, 2, cents)}),                 \* written twice
    Book({Entry(n, E2e(n), cents, Friday, "DEBIT", "FEE")}, {}, {},
         {Receipt(n, 1, cents), Move(n, 2, cents, "DEBIT", "BLOCK_FUNDS")}) }

Both(a, b) == Book(a.statement \cup b.statement, a.late \cup b.late,
                   a.txns \cup b.txns, a.moves \cup b.moves)

Bounded(book, n, faulty, asked) ==
  book @@ [runs |-> n, faults |-> faulty, decisions |-> asked]

\* Two payments of like amounts and one run; or one payment and two runs, with
\* a fault or with a decision of an operator.
MCWorlds ==
  {Bounded(Both(a, b), 1, 0, 0) : a \in Stories(1, 100),
                                  b \in Stories(2, 100) \cup Stories(2, 101)}
  \cup {Bounded(a, 2, 1, 0) : a \in Stories(1, 100)}
  \cup {Bounded(a, 2, 0, 1) : a \in Stories(1, 100)}

MCAdjusted == {Bounded(a, 1, 0, 1) : a \in Stories(1, 100)}

WorkerSymmetry == Permutations({w1, w2})
=============================================================================
