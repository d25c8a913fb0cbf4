------------------------------- MODULE MCLadder -------------------------------
(***************************************************************************)
(* Ladder with a shorter ladder. The delays keep the shape of the code's   *)
(* (5s, 15s, 60s, 5m, 15m, 1h, 6h): each is at least the one before, and   *)
(* the later ones are longer than the period of the sweeper.               *)
(***************************************************************************)
EXTENDS Ladder

ShortLadder == [s \in 0..3 |-> s]
=============================================================================
