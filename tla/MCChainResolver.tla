-------------------------- MODULE MCChainResolver ---------------------------
(* ChainResolver for TLC; see the .cfg file for the bounds. *)
EXTENDS ChainResolver
=============================================================================
