---------------------------- MODULE MCConnection ----------------------------
(* A server that sends up to four bytes, read two at a time, while the main   *)
(* thread sends a line and closes the connection.                             *)
EXTENDS Connection
=============================================================================
