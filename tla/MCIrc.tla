-------------------------------- MODULE MCIrc --------------------------------
(* Small instances of the IRC client. *)
EXTENDS Irc
=============================================================================
