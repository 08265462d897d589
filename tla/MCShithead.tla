----------------------------- MODULE MCShithead -----------------------------
(* Instances of shithead for TLC. *)
EXTENDS Shithead

MCUser == 1..4
MCCard == {4, 7, 10}
=============================================================================
