----------------------------- MODULE MCRefunds -----------------------------
(***************************************************************************)
(* Instances of Refunds: one customer; amounts of one and two.             *)
(***************************************************************************)
EXTENDS Refunds

MCAccounts == {"ana", "clearing", "fees", "world"}
MCNormalBalance == [a \in MCAccounts |-> IF a = "world" THEN "DEBIT" ELSE "CREDIT"]
MCAllowsNegative == {"world"}
=============================================================================
