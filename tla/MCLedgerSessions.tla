-------------------------- MODULE MCLedgerSessions --------------------------
(***************************************************************************)
(* One customer and the outside world, a PIX in, two reserves that         *)
(* together exceed it, and both resolutions of the first reserve.          *)
(***************************************************************************)
EXTENDS LedgerSessions, TLC

CONSTANTS External, Available, kIn, kHold, kOther, kSettle, kVoid,
          s1, s2, p1, p2

MCNormalBalance == External :> "DEBIT" @@ Available :> "CREDIT"

MCLockSeq == <<Available, External>>

Dr(n) == [direction |-> "DEBIT", amount |-> n]
Cr(n) == [direction |-> "CREDIT", amount |-> n]

In == External :> Dr(1) @@ Available :> Cr(1)
Out == Available :> Dr(1) @@ External :> Cr(1)

PostCall(k, l, ph) == [op |-> "post", key |-> k, legs |-> l, phase |-> ph, hold |-> NoKey]
ResolveCall(op, k, h) == [op |-> op, key |-> k, legs |-> <<>>, phase |-> "POSTED", hold |-> h]

MCCalls ==
    { PostCall(kIn, In, "POSTED"),
      PostCall(kHold, Out, "PENDING"),
      PostCall(kOther, Out, "PENDING"),
      ResolveCall("commit", kSettle, kHold),
      ResolveCall("void", kVoid, kHold) }

\* The calls that contend for one reserve.
MCReserveCalls == {c \in MCCalls : c.key # kOther}

\* Each session in a process of its own: api and worker, or two replicas.
OwnProcess == s1 :> p1 @@ s2 :> p2

\* Two requests served by the same process.
SameProcess == s1 :> p1 @@ s2 :> p1
=============================================================================
