---------------------------- MODULE MCModuleMgr ----------------------------
(* Instances of the module manager for TLC. *)
EXTENDS ModuleMgr, TLC

CONSTANTS uno, liar, a1, a2, a3, u1, u2

Addresses == Permutations({a1, a2, a3}) \cup Permutations({u1, u2})
=============================================================================
