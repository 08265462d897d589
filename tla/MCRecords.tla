------------------------------ MODULE MCRecords ------------------------------
(* Two texts to quote under up to two numbers, a message for one of two       *)
(* nicknames and a text that they want to remember.                           *)
EXTENDS Records, TLC

Symmetry == Permutations(Nick) \cup Permutations(Quote)
=============================================================================
