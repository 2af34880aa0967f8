----------------------------- MODULE AddrSelect -----------------------------
(***************************************************************************)
(* SortByRFC6724 of dns/addrselect/addrselect.go: the resolved addresses   *)
(* are sorted by the rules of RFC 6724 section 6, so that ResolveHost      *)
(* takes the best one.                                                     *)
(*                                                                         *)
(* An address is the kind of prefix it lies in and the NetBits first bits  *)
(* of it (the code compares the first 64).  A route is what the kernel     *)
(* knows of a destination: the address of this host that packets to it     *)
(* leave from, the interface that has it, unless the interface is gone by  *)
(* the time it is looked for, and the address flags in /proc; None is no   *)
(* route.                                                                  *)
(***************************************************************************)
EXTENDS Integers, Sequences, FiniteSets, FiniteSetsExt

CONSTANTS Candidates,   \* pairs [da, route] of a destination and its route
          MaxLen,       \* bound: addresses to sort
          None

V4Kinds == {"v4", "v4loop", "v4link"}
V6Kinds == {"loop6", "compat", "teredo", "6to4", "6bone", "site", "ula",
            "link6", "mcastOrg", "global6"}
Kinds == V4Kinds \cup V6Kinds

(* Leading bits of an address that the model keeps. *)
NetBits == 16

Addresses == [kind : Kinds, net : 0..(2^NetBits - 1)]

ASSUME MaxLenNat        == MaxLen \in Nat
ASSUME NoneIsNoAddress  == None \notin Addresses
ASSUME CandidatesRouted ==
  \A c \in Candidates :
    c.da \in Addresses /\ (c.route # None => c.route.addr \in Addresses)

VARIABLES linux,        \* whether the kernel's address flags can be read
          addrs,        \* addrs to sort
          srcs,         \* their sources, element by element
          addrAttr,     \* their attributes
          srcAttr,      \* the attributes of their sources
          i, j,         \* indices of the insertion sort
          orig          \* history: the pairs as they came

vars == <<linux, addrs, srcs, addrAttr, srcAttr, i, j, orig>>

-----------------------------------------------------------------------------
(* rfc6724policyTable, with the kinds each prefix contains. *)
policyTable ==
  << [bits |-> 128, precedence |-> 50, label |-> 0,  has |-> {"loop6"}],
     [bits |-> 96,  precedence |-> 35, label |-> 4,  has |-> V4Kinds],
     [bits |-> 96,  precedence |-> 1,  label |-> 3,  has |-> {"compat", "loop6"}],
     [bits |-> 32,  precedence |-> 5,  label |-> 5,  has |-> {"teredo"}],
     [bits |-> 16,  precedence |-> 30, label |-> 2,  has |-> {"6to4"}],
     [bits |-> 16,  precedence |-> 1,  label |-> 12, has |-> {"6bone"}],
     [bits |-> 10,  precedence |-> 1,  label |-> 11, has |-> {"site"}],
     [bits |-> 7,   precedence |-> 3,  label |-> 13, has |-> {"ula"}],
     [bits |-> 0,   precedence |-> 40, label |-> 1,  has |-> Kinds] >>

(* The first entry that contains the address. *)
Classify(k) ==
  policyTable[Min({n \in DOMAIN policyTable : k \in policyTable[n].has})]

scopeLinkLocal == 2
scopeSiteLocal == 5
scopeOrgLocal  == 8
scopeGlobal    == 14

(* A multicast address carries its scope in its second byte. *)
classifyScope(k) ==
  CASE k \in {"loop6", "v4loop", "v4link", "link6"} -> scopeLinkLocal
    [] k = "mcastOrg" -> scopeOrgLocal
    [] k = "site"     -> scopeSiteLocal
    [] OTHER          -> scopeGlobal

(* Mutant of ipAttrOf: the precedence is not filled in. *)
ipAttrWithoutPrecedence(a) ==
  IF a = None THEN [scope |-> 0, precedence |-> 0, label |-> 0]
  ELSE [scope      |-> classifyScope(a.kind),
        precedence |-> 0,
        label      |-> Classify(a.kind).label]

ipAttrOf(a) ==
  IF a = None THEN [scope |-> 0, precedence |-> 0, label |-> 0]
  ELSE [scope      |-> classifyScope(a.kind),
        precedence |-> Classify(a.kind).precedence,
        label      |-> Classify(a.kind).label]

(* Leading bits two addresses share; none across families. *)
commonPrefixLen(a, b) ==
  IF (a.kind \in V4Kinds) # (b.kind \in V4Kinds) THEN 0
  ELSE LET Top(x, n) == x.net \div 2^(NetBits - n)
       IN  Max({n \in 0..NetBits : Top(a, n) = Top(b, n)})

-----------------------------------------------------------------------------
(* Prefixes of interface names that stand for tunnels. *)
tunnelNames == {"tun", "tap", "sit", "ip6tnl", "he-ipv6"}

(* An interface that was not found counts as native. *)
isNative(iface) ==
  iface = None \/ (~iface.pointToPoint /\ iface.name \notin tunnelNames)

(* The flags the kernel keeps for a source, which lists IPv6 addresses only and
   on Linux only: IFA_F_DEPRECATED and IFA_F_HOMEADDRESS. *)
getAddrFlags(route) ==
  LET known == linux /\ route.addr.kind \in V6Kinds
  IN  [deprecated |-> known /\ (route.flags \div 32) % 2 = 1,
       home       |-> known /\ (route.flags \div 16) % 2 = 1]

(* defaultSrcAddrs for one destination: the zero srcInfo without a route. *)
defaultSrcAddr(route) ==
  IF route = None
  THEN [addr |-> None, native |-> FALSE, deprecated |-> FALSE, home |-> FALSE]
  ELSE [addr       |-> route.addr,
        native     |-> isNative(route.iface),
        deprecated |-> getAddrFlags(route).deprecated,
        home       |-> getAddrFlags(route).home]

-----------------------------------------------------------------------------
(* One rule of Less: the larger measure wins, a draw is left to the rest. *)
Decide(x, y, rest) == x > y \/ (x = y /\ rest)

Bit(b) == IF b THEN 1 ELSE 0

(* Mutant of Less: destinations without a route are equal to all others. *)
LessOfRouted(m, n) ==
  /\ srcs[m].addr # None /\ srcs[n].addr # None
  /\ addrAttr[m].precedence > addrAttr[n].precedence

(* Less(m, n): the element at m is a better destination than the one at n. *)
Less(m, n) ==
  LET Valid(k)     == Bit(srcs[k].addr # None)
      ScopeOK(k)   == Bit(addrAttr[k].scope = srcAttr[k].scope)
      LabelOK(k)   == Bit(addrAttr[k].label = srcAttr[k].label)
      IsV6(k)      == addrs[k].kind \in V6Kinds
      Common(k)    == commonPrefixLen(srcs[k].addr, addrs[k])
  IN  Decide(Valid(m), Valid(n),                                    \* rule 1
      Valid(m) = 1 /\
      Decide(ScopeOK(m), ScopeOK(n),                                \* rule 2
      Decide(Bit(~srcs[m].deprecated), Bit(~srcs[n].deprecated),    \* rule 3
      Decide(Bit(srcs[m].home), Bit(srcs[n].home),                  \* rule 4
      Decide(LabelOK(m), LabelOK(n),                                \* rule 5
      Decide(addrAttr[m].precedence, addrAttr[n].precedence,        \* rule 6
      Decide(Bit(srcs[m].native), Bit(srcs[n].native),              \* rule 7
      Decide(-addrAttr[m].scope, -addrAttr[n].scope,                \* rule 8
      IsV6(m) /\ IsV6(n) /\ Common(m) > Common(n)))))))))           \* rules 9, 10

Exchange(s, m, n) == [s EXCEPT ![m] = s[n], ![n] = s[m]]

(* Mutant of Swap: the sources stay behind. *)
SwapAddrsOnly(m, n) ==
  /\ addrs'    = Exchange(addrs, m, n)
  /\ addrAttr' = Exchange(addrAttr, m, n)
  /\ UNCHANGED <<srcs, srcAttr>>

(* Mutant of Swap: the attributes of the sources stay behind. *)
SwapThreeOfFour(m, n) ==
  /\ addrs'    = Exchange(addrs, m, n)
  /\ srcs'     = Exchange(srcs, m, n)
  /\ addrAttr' = Exchange(addrAttr, m, n)
  /\ UNCHANGED srcAttr

Swap(m, n) ==
  /\ addrs'    = Exchange(addrs, m, n)
  /\ srcs'     = Exchange(srcs, m, n)
  /\ addrAttr' = Exchange(addrAttr, m, n)
  /\ srcAttr'  = Exchange(srcAttr, m, n)

(* SortByRFC6724: sources and attributes are computed once, before the sort. *)
Init ==
  /\ linux \in BOOLEAN
  /\ \E n \in 2..MaxLen : orig \in [1..n -> Candidates]
  /\ addrs = [k \in DOMAIN orig |-> orig[k].da]
  /\ srcs = [k \in DOMAIN orig |-> defaultSrcAddr(orig[k].route)]
  /\ addrAttr = [k \in DOMAIN orig |-> ipAttrOf(orig[k].da)]
  /\ srcAttr = [k \in DOMAIN orig |-> ipAttrOf(srcs[k].addr)]
  /\ i = 2 /\ j = 2

(* Mutant of OutOfOrder: equals change places. *)
OutOfOrderOrEqual == j > 1 /\ ~Less(j - 1, j)

(* sort.Stable sorts blocks of up to 20 elements by insertion. *)
OutOfOrder == j > 1 /\ Less(j, j - 1)

InsertSwap ==
  /\ i <= Len(addrs)
  /\ OutOfOrder
  /\ Swap(j, j - 1)
  /\ j' = j - 1
  /\ UNCHANGED <<linux, i, orig>>

InsertNext ==
  /\ i <= Len(addrs)
  /\ ~OutOfOrder
  /\ i' = i + 1 /\ j' = i + 1
  /\ UNCHANGED <<linux, addrs, srcs, addrAttr, srcAttr, orig>>

Sorted == i > Len(addrs)

Finished == Sorted /\ UNCHANGED vars

Next == InsertSwap \/ InsertNext \/ Finished

Spec == Init /\ [][Next]_vars

-----------------------------------------------------------------------------
Elem(k) == [da |-> addrs[k], src |-> srcs[k]]
Orig(k) == [da |-> orig[k].da, src |-> defaultSrcAddr(orig[k].route)]
Pairs   == {Orig(k) : k \in DOMAIN orig}

TypeOK ==
  /\ DOMAIN addrs = DOMAIN orig /\ DOMAIN srcs = DOMAIN orig
  /\ \A k \in DOMAIN orig : Elem(k) \in Pairs
  /\ i \in 2..(Len(orig) + 1) /\ j \in 1..(Len(orig) + 1)

(* However the elements move, an address keeps its own source and attributes,
   and none is lost or doubled. *)
Aligned ==
  /\ \A k \in DOMAIN orig :
       /\ addrAttr[k] = ipAttrOf(addrs[k])
       /\ srcAttr[k] = ipAttrOf(srcs[k].addr)
  /\ \A c \in Pairs :
       Cardinality({k \in DOMAIN orig : Orig(k) = c})
         = Cardinality({k \in DOMAIN orig : Elem(k) = c})

(* The result is sorted as a whole, not only neighbour by neighbour: Less is
   transitive although rule 9 compares only within IPv6. *)
FullySorted ==
  Sorted => \A m, n \in DOMAIN orig : m < n => ~Less(n, m)

(* Addresses no rule tells apart stay in the order of the reply. *)
Places(c) == {k \in DOMAIN orig : Orig(k) = c}

Stability ==
  Sorted =>
    \A m, n \in DOMAIN orig :
      m < n /\ ~Less(m, n) /\ ~Less(n, m) =>
        Min(Places(Elem(m))) <= Max(Places(Elem(n)))

(* ResolveHost dials the first address and no other: it is one without a route
   only if all are. *)
ReachableFirst ==
  Sorted /\ (\E k \in DOMAIN orig : orig[k].route # None) =>
    srcs[1].addr # None
=============================================================================
