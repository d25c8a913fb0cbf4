------------------------------ MODULE MCOutbox ------------------------------
(***************************************************************************)
(* Outbox on small instances: the life of a payment, announced to one      *)
(* endpoint that filters by resource.                                      *)
(***************************************************************************)
EXTENDS Outbox

TypeOf == [e \in Events |-> <<"pix_out", IF e = 1 THEN "pending" ELSE "settled">>]

ByResource == [p \in Endpoints |-> {<<"pix_out", "*">>}]
=============================================================================
