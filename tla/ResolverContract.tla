-------------------------- MODULE ResolverContract --------------------------
(***************************************************************************)
(* What a caller of the Resolver interface (dns/dns.go, dns/resolver) may  *)
(* rely on, for one call of Resolve: once called it returns exactly once,  *)
(* and it blames the context only when that context is done.  ResolveHost, *)
(* Cache and ChainResolver call other resolvers through this interface;    *)
(* DnsCache, ChainResolver and TypeLookup each implement it.               *)
(***************************************************************************)
CONSTANTS Outcomes,     \* what Resolve may return: addresses, empty, errors
          CtxErr,       \* the error of the call's own context
          None          \* not returned yet

VARIABLES called,       \* whether Resolve was entered
          ctxDone,      \* whether the call's ctx is done
          ret           \* what Resolve returned

cvars == <<called, ctxDone, ret>>

Init == called \in BOOLEAN /\ ctxDone = FALSE /\ ret = None

Call == ~called /\ called' = TRUE /\ UNCHANGED <<ctxDone, ret>>

Expire ==
  /\ called /\ ret = None /\ ~ctxDone
  /\ ctxDone' = TRUE
  /\ UNCHANGED <<called, ret>>

Return ==
  /\ called /\ ret = None
  /\ ret' \in Outcomes
  /\ ret' = CtxErr => ctxDone
  /\ UNCHANGED <<called, ctxDone>>

Next == Call \/ Expire \/ Return

Step == [Next]_cvars
Live == called ~> ret # None

Spec == Init /\ [][Next]_cvars /\ Live
=============================================================================
