---------------------------- MODULE MCAddrSelect ----------------------------
(* AddrSelect for TLC: destinations of both families, reached from native,
   tunnelled, deprecated and home sources, or not at all. *)
EXTENDS AddrSelect

Addr(k, n) == [kind |-> k, net |-> n]

Via(a, name, p2p, flags) ==
  [addr |-> a, iface |-> [name |-> name, pointToPoint |-> p2p], flags |-> flags]

Lan4  == Via(Addr("v4", \hC0A8), "eth", FALSE, 0)
Tun4  == Via(Addr("v4", \h0A08), "wg", TRUE, 0)
Lan6  == Via(Addr("global6", \h2A02), "eth", FALSE, 128)
Old6  == Via(Addr("global6", \h2A02), "eth", FALSE, 32)
Home6 == [Via(Addr("global6", \h2600), "eth", FALSE, 16) EXCEPT !.iface = None]
Sit6  == Via(Addr("6to4", \h2002), "sit", FALSE, 128)
Loop6 == Via(Addr("loop6", 0), "lo", FALSE, 128)

From(dests, routes) == [da : dests, route : routes]

MCCandidates ==
  From({Addr("v4", \h6810)}, {Lan4, Tun4, None})
    \cup From({Addr("v4loop", \h7F00), Addr("v4", \hC0A8)}, {Lan4})
    \cup From({Addr("global6", \h2A00)}, {Lan6, Old6, Home6, Sit6, None})
    \cup From({Addr("global6", \h2606), Addr("ula", \hFD00), Addr("link6", \hFE80),
                Addr("teredo", \h2001)}, {Lan6})
    \cup From({Addr("6to4", \h2002)}, {Lan6, Sit6})
    \cup From({Addr("loop6", 0)}, {Loop6})
=============================================================================
