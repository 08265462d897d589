----------------------------- MODULE MCNetwork -----------------------------
(* Instances of the network for TLC. *)
EXTENDS Network, TLC

CONSTANTS i1, i2, i3, n1, n2, c1, c2, game1, game2, STATUSUPDATE

Addresses == Permutations({i1, i2, i3})
=============================================================================
