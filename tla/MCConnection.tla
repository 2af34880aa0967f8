---------------------------- MODULE MCConnection ----------------------------
(* Connection for TLC; see the .cfg files for the bounds. *)
EXTENDS Connection
=============================================================================
