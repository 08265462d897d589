----------------------------- MODULE MCLiarGame -----------------------------
(* Instances of the liar game for TLC. *)
EXTENDS LiarGame

CONSTANTS six, queen

MCUser == 1..4
MCFace == {six, queen}
=============================================================================
