----------------------------- MODULE MCDnsCache -----------------------------
(* DnsCache for TLC: interchangeable calls and keys. *)
EXTENDS DnsCache, TLC

Symmetry == Permutations(Calls) \cup Permutations(Keys)
=============================================================================
