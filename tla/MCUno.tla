------------------------------- MODULE MCUno -------------------------------
(* Instances of UNO for TLC. *)
EXTENDS Uno

MCUser == 1..4
MCFace == {"0", "D2", "R", "S", "WD4"}

\* 0x8F, the default, and 0x01, without ranking or "draw +4" stacks.
Default == Mode
Unranked == {"STACK_D2"}

MCModeSet == {Default, Unranked}
NoUModes == {Default}
=============================================================================
