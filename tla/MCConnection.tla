---------------------------- MODULE MCConnection ----------------------------
(* Connection with a queue of a few events.                                *)
EXTENDS Connection
=============================================================================
