---------------------------- MODULE MCLifecycle -----------------------------
(* Lifecycle for TLC; see the .cfg files for the bounds. *)
EXTENDS Lifecycle
=============================================================================
