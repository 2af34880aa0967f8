-------------------------- MODULE AddrSelectProofs --------------------------
(***************************************************************************)
(* Proofs about AddrSelect: Less is a strict weak order on the pairs of a  *)
(* destination and its source, and the stable insertion sort by it, for    *)
(* any number of addresses of any kinds.                                   *)
(***************************************************************************)
EXTENDS AddrSelect, Functions, NaturalsInduction, FiniteSetTheorems, TLAPS

-----------------------------------------------------------------------------
(* The well-ordering of the naturals, and the greatest element of a bounded
   set of them. *)
LEMMA Least ==
  ASSUME NEW S \in SUBSET Nat, S # {}
  PROVE  \E m \in S : \A x \in S : m <= x
<1>1. PICK m \in S : \A y \in S : ~(<<y, m>> \in OpToRel(<, Nat))
  BY WFMin, NatLessThanWellFounded
<1>2. ASSUME NEW x \in S PROVE m <= x
  <2>1. x \in Nat /\ m \in Nat
    OBVIOUS
  <2>2. x < m => <<x, m>> \in OpToRel(<, Nat)
    BY <2>1 DEF OpToRel
  <2>3. ~(x < m)
    BY <1>1, <2>2
  <2>4. QED
    BY <2>1, <2>3
<1>3. QED
  BY <1>2

LEMMA Greatest ==
  ASSUME NEW S \in SUBSET Nat, S # {}, NEW b \in Nat, \A x \in S : x <= b
  PROVE  \E m \in S : \A x \in S : m >= x
<1> DEFINE T == {y \in Nat : \E x \in S : y = b - x}
<1>1. \A x \in S : x \in Nat /\ b - x \in T
  OBVIOUS
<1>2. PICK t \in T : \A y \in T : t <= y
  <2>1. T \in SUBSET Nat /\ T # {}
    BY <1>1
  <2> HIDE DEF T
  <2>2. QED
    BY <2>1, Least
<1>3. PICK m \in S : t = b - m
  OBVIOUS
<1>4. ASSUME NEW x \in S PROVE m >= x
  <2>1. b - m <= b - x
    BY <1>1, <1>2, <1>3
  <2>2. QED
    BY <1>1, <2>1
<1>5. QED
  BY <1>4

(* What Min and Max of the library return. *)
LEMMA MinLeast ==
  ASSUME NEW S \in SUBSET Nat, S # {}
  PROVE  Min(S) \in S /\ \A x \in S : Min(S) <= x
  BY Least DEF Min

LEMMA MaxGreatest ==
  ASSUME NEW S \in SUBSET Nat, S # {}, NEW b \in Nat, \A x \in S : x <= b
  PROVE  Max(S) \in S /\ \A x \in S : Max(S) >= x
  BY Greatest DEF Max

LEMMA MinIs ==
  ASSUME NEW S \in SUBSET Nat, NEW m \in S, \A x \in S : m <= x
  PROVE  Min(S) = m
<1>1. Min(S) \in S /\ Min(S) <= m
  BY MinLeast
<1>2. Min(S) \in Nat /\ m \in Nat /\ m <= Min(S)
  BY <1>1
<1>3. QED
  BY <1>1, <1>2
-----------------------------------------------------------------------------
(* rfc6724policyTable gives IPv4-mapped addresses a precedence of their own,
   so destinations of the two families never draw in rule 6. *)
LEMMA Precedences ==
  ASSUME NEW k \in Kinds
  PROVE  /\ Classify(k).precedence \in Nat
         /\ (k \in V4Kinds) <=> (Classify(k).precedence = 35)
<1> DEFINE hits == {n \in DOMAIN policyTable : k \in policyTable[n].has}
<1>1. DOMAIN policyTable = 1..9
  BY DEF policyTable
<1>2. hits \in SUBSET Nat /\ Classify(k) = policyTable[Min(hits)]
  BY <1>1 DEF Classify
<1>3. CASE k \in V4Kinds
  <2>1. 2 \in hits /\ \A n \in hits : 2 <= n
    BY <1>1, <1>3 DEF policyTable, V4Kinds, V6Kinds
  <2>2. Min(hits) = 2
    BY <1>2, <2>1, MinIs
  <2>3. QED
    BY <1>2, <1>3, <2>2 DEF policyTable
<1>4. CASE k \notin V4Kinds
  <2>1. 9 \in hits /\ 2 \notin hits
    BY <1>1, <1>4 DEF policyTable, Kinds
  <2>2. Min(hits) \in (1..9) \ {2}
    BY <1>1, <1>2, <2>1, MinLeast
  <2>3. QED
    BY <1>2, <1>4, <2>2 DEF policyTable
<1>5. QED
  BY <1>3, <1>4

(* No bit is left of an address shifted by all of its bits. *)
LEMMA NoBits ==
  ASSUME NEW x \in Addresses
  PROVE  x.net \div 2^(NetBits - 0) = 0
<1> DEFINE w == 2^NetBits
<1>1. w \in Nat /\ w > 0
  BY SMT DEF NetBits
<1>2. 2^(NetBits - 0) = w
  BY SMT DEF NetBits
<1>3. x.net \in 0..(w - 1)
  BY Zenon DEF Addresses
<1> HIDE DEF w
<1>4. ASSUME NEW n \in 0..(w - 1) PROVE n \div w = 0
  <2>1. n \in Nat /\ n < w
    BY <1>1, SMT
  <2>2. QED
    BY ONLY <1>1, <2>1, SMT
<1>5. QED
  BY <1>2, <1>3, <1>4, Zenon

(* Two addresses of one family share between 0 and NetBits leading bits. *)
LEMMA CommonBits ==
  ASSUME NEW a \in Addresses, NEW b \in Addresses
  PROVE  commonPrefixLen(a, b) \in 0..NetBits
<1> DEFINE Top(x, n) == x.net \div 2^(NetBits - n)
           S == {n \in 0..NetBits : Top(a, n) = Top(b, n)}
<1>1. CASE (a.kind \in V4Kinds) # (b.kind \in V4Kinds)
  BY <1>1 DEF commonPrefixLen, NetBits
<1>2. CASE (a.kind \in V4Kinds) = (b.kind \in V4Kinds)
  <2>1. commonPrefixLen(a, b) = Max(S)
    BY <1>2 DEF commonPrefixLen
  <2>2. 0 \in S
    <3>1. Top(a, 0) = 0 /\ Top(b, 0) = 0
      BY NoBits
    <3>2. QED
      BY <3>1 DEF NetBits
  <2>3. \A x \in S : x \in Nat /\ x <= NetBits
    BY DEF NetBits
  <2>4. NetBits \in Nat
    BY DEF NetBits
  <2>5. Max(S) \in S
    <3> HIDE DEF S
    <3>1. S \in SUBSET Nat /\ S # {}
      BY <2>2, <2>3
    <3>2. QED
      BY <2>3, <2>4, <3>1, MaxGreatest, Zenon
  <2>6. QED
    BY <2>1, <2>5
<1>3. QED
  BY <1>1, <1>2
-----------------------------------------------------------------------------
(* What the rules of Less measure, as functions of a destination and source. *)
WellFormed(x) == x.da \in Addresses /\ x.src.addr \in Addresses \cup {None}

Valid(x)    == Bit(x.src.addr # None)
ScopeOK(x)  == Bit(ipAttrOf(x.da).scope = ipAttrOf(x.src.addr).scope)
Current(x)  == Bit(~x.src.deprecated)
AtHome(x)   == Bit(x.src.home)
LabelOK(x)  == Bit(ipAttrOf(x.da).label = ipAttrOf(x.src.addr).label)
Preced(x)   == ipAttrOf(x.da).precedence
Native(x)   == Bit(x.src.native)
Narrow(x)   == -ipAttrOf(x.da).scope
IsV6(x)     == x.da.kind \in V6Kinds
Common(x)   == commonPrefixLen(x.src.addr, x.da)

Better(x, y) ==
  Decide(Valid(x), Valid(y),
  Valid(x) = 1 /\
  Decide(ScopeOK(x), ScopeOK(y),
  Decide(Current(x), Current(y),
  Decide(AtHome(x), AtHome(y),
  Decide(LabelOK(x), LabelOK(y),
  Decide(Preced(x), Preced(y),
  Decide(Native(x), Native(y),
  Decide(Narrow(x), Narrow(y),
  IsV6(x) /\ IsV6(y) /\ Common(x) > Common(y)))))))))

(* Every measure is a number; the length of a common prefix is one when there
   is a source. *)
LEMMA Measures ==
  ASSUME NEW x, WellFormed(x)
  PROVE  /\ Valid(x) \in {0, 1} /\ ScopeOK(x) \in Int /\ Current(x) \in Int
         /\ AtHome(x) \in Int /\ LabelOK(x) \in Int /\ Native(x) \in Int
         /\ Preced(x) \in Int /\ Narrow(x) \in Int
         /\ Valid(x) = 1 => Common(x) \in Int
         /\ IsV6(x) <=> Preced(x) # 35
<1>1. /\ Valid(x) \in {0, 1} /\ ScopeOK(x) \in Int /\ Current(x) \in Int
      /\ AtHome(x) \in Int /\ LabelOK(x) \in Int /\ Native(x) \in Int
  BY DEF Bit, Valid, ScopeOK, Current, AtHome, LabelOK, Native
<1>2. x.da # None /\ x.da.kind \in Kinds
  BY NoneIsNoAddress DEF WellFormed, Addresses
<1>3. Narrow(x) \in Int
  BY <1>2 DEF Narrow, ipAttrOf, classifyScope, scopeLinkLocal, scopeOrgLocal,
              scopeSiteLocal, scopeGlobal
<1>4. Preced(x) \in Int /\ (IsV6(x) <=> Preced(x) # 35)
  <2>1. Preced(x) = Classify(x.da.kind).precedence
    BY <1>2 DEF Preced, ipAttrOf
  <2>2. IsV6(x) <=> x.da.kind \notin V4Kinds
    BY <1>2 DEF IsV6, Kinds, V4Kinds, V6Kinds
  <2>3. QED
    BY <1>2, <2>1, <2>2, Precedences
<1>5. Valid(x) = 1 => Common(x) \in Int
  <2>1. Valid(x) = 1 => x.src.addr \in Addresses
    BY DEF Valid, Bit, WellFormed
  <2>2. QED
    BY <2>1, CommonBits DEF Common, WellFormed, NetBits
<1>6. QED
  BY <1>1, <1>3, <1>4, <1>5

(* The rules make a strict weak order, although rule 9 compares prefixes only
   within IPv6: two destinations that draw up to rule 8 have one precedence and
   so one family. *)
LEMMA BetterIsOrder ==
  ASSUME NEW x, NEW y, NEW z, WellFormed(x), WellFormed(y), WellFormed(z)
  PROVE  /\ ~(Better(x, y) /\ Better(y, x))
         /\ Better(x, z) => Better(x, y) \/ Better(y, z)
<1>1. ~(Better(x, y) /\ Better(y, x))
  BY Measures DEF Better, Decide
<1>2. Better(x, z) => Better(x, y) \/ Better(y, z)
  BY Measures DEF Better, Decide
<1>3. QED
  BY <1>1, <1>2
-----------------------------------------------------------------------------
Tie(x, y) == ~Better(x, y) /\ ~Better(y, x)

(* The sequence e is in order up to u, but for the element at v that is on its
   way down: it has overtaken only worse ones. *)
Inserting(e, u, v) ==
  /\ \A m, n \in DOMAIN e : m < n /\ n <= u /\ n # v => ~Better(e[n], e[m])
  /\ \A n \in DOMAIN e : v < n /\ n <= u => Better(e[v], e[n])

(* The element at k came from p[k]: what is beyond u is in its place, the one
   at v came from u, and of those between the ones that draw are in the order
   in which they came. *)
StableSoFar(e, p, u, v) ==
  /\ \A k \in DOMAIN e : k > u => p[k] = k
  /\ v \in DOMAIN e => p[v] = u
  /\ \A k \in DOMAIN e : k <= u /\ k # v => p[k] < u
  /\ \A m, n \in DOMAIN e :
       m < n /\ n <= u /\ m # v /\ n # v /\ Tie(e[m], e[n]) => p[m] < p[n]

Permutation(p, D) ==
  /\ p \in [D -> D]
  /\ \A k, l \in D : p[k] = p[l] => k = l
  /\ \A k \in D : \E l \in D : p[l] = k

SortState(D, e, p, u, v) ==
  /\ DOMAIN e = D /\ Permutation(p, D)
  /\ Inserting(e, u, v) /\ StableSoFar(e, p, u, v)

(* The steps of sort.Stable's insertion: an element that is better than its
   left neighbour changes places with it, ... *)
LEMMA SwapKeepsState ==
  ASSUME NEW N \in Nat, NEW e, NEW p, NEW u \in Nat, NEW v \in Nat,
         1 < v, v <= u, u <= N,
         \A k \in 1..N : WellFormed(e[k]),
         SortState(1..N, e, p, u, v),
         Better(e[v], e[v - 1])
  PROVE  SortState(1..N, Exchange(e, v, v - 1), Exchange(p, v, v - 1), u, v - 1)
<1> DEFINE f == Exchange(e, v, v - 1)
           q == Exchange(p, v, v - 1)
<1>1. DOMAIN e = 1..N /\ p \in [1..N -> 1..N] /\ v - 1 \in 1..N /\ v \in 1..N
  <2>1. v - 1 \in 1..N /\ v \in 1..N
    OBVIOUS
  <2>2. DOMAIN e = 1..N /\ p \in [1..N -> 1..N]
    BY Zenon DEF SortState, Permutation
  <2>3. QED
    BY <2>1, <2>2
<1>2. /\ DOMAIN f = 1..N
      /\ f[v] = e[v - 1] /\ f[v - 1] = e[v]
      /\ \A k \in 1..N : k # v /\ k # v - 1 => f[k] = e[k]
  BY <1>1 DEF Exchange
<1>3. /\ q \in [1..N -> 1..N]
      /\ q[v] = p[v - 1] /\ q[v - 1] = p[v]
      /\ \A k \in 1..N : k # v /\ k # v - 1 => q[k] = p[k]
  BY <1>1 DEF Exchange
<1> HIDE DEF f, q
<1>4. Permutation(q, 1..N)
  <2>1. \A k, l \in 1..N : p[k] = p[l] => k = l
    BY DEF SortState, Permutation
  <2>2. \A k, l \in 1..N : q[k] = q[l] => k = l
    BY <1>1, <1>3, <2>1
  <2>3. ASSUME NEW k \in 1..N PROVE \E l \in 1..N : q[l] = k
    <3>1. PICK l \in 1..N : p[l] = k
      BY DEF SortState, Permutation
    <3>2. QED
      BY <1>1, <1>3, <3>1
  <2>4. QED
    BY <1>3, <2>2, <2>3 DEF Permutation
<1>5. Inserting(f, u, v - 1)
  <2>1. ASSUME NEW m \in 1..N, NEW n \in 1..N, m < n, n <= u, n # v - 1
        PROVE  ~Better(f[n], f[m])
    <3>1. ASSUME NEW a \in 1..N, NEW b \in 1..N, a < b, b <= u, b # v
          PROVE  ~Better(e[b], e[a])
      BY <1>1, <3>1 DEF SortState, Inserting
    <3>2. CASE n = v /\ m = v - 1
      <4>1. ~Better(e[v - 1], e[v])
        BY <1>1, BetterIsOrder
      <4>2. QED
        BY <1>2, <3>2, <4>1
    <3>3. CASE n = v /\ m # v - 1
      BY <1>1, <1>2, <2>1, <3>1, <3>3
    <3>4. CASE n # v /\ m = v
      <4>1. v - 1 < n
        BY <2>1, <3>4
      <4>2. QED
        BY <1>1, <1>2, <2>1, <3>1, <3>4, <4>1
    <3>5. CASE n # v /\ m = v - 1
      <4>1. v < n
        BY <2>1, <3>5
      <4>2. QED
        BY <1>1, <1>2, <2>1, <3>1, <3>5, <4>1
    <3>6. CASE n # v /\ m # v /\ m # v - 1
      BY <1>1, <1>2, <2>1, <3>1, <3>6
    <3>7. QED
      BY <3>2, <3>3, <3>4, <3>5, <3>6
  <2>2. ASSUME NEW n \in 1..N, v - 1 < n, n <= u PROVE Better(f[v - 1], f[n])
    <3>1. CASE n = v
      BY <1>2, <3>1
    <3>2. CASE n # v
      <4>1. v < n /\ n # v - 1
        BY <2>2, <3>2
      <4>2. Better(e[v], e[n])
        BY <1>1, <2>2, <4>1 DEF SortState, Inserting
      <4>3. QED
        BY <1>2, <3>2, <4>1, <4>2
    <3>3. QED
      BY <3>1, <3>2
  <2>3. QED
    BY <1>2, <2>1, <2>2 DEF Inserting
<1>6. StableSoFar(f, q, u, v - 1)
  <2>1. /\ \A k \in 1..N : k > u => p[k] = k
        /\ p[v] = u
        /\ \A k \in 1..N : k <= u /\ k # v => p[k] < u
    BY <1>1 DEF SortState, StableSoFar
  <2>2. ASSUME NEW a \in 1..N, NEW b \in 1..N, a < b, b <= u, a # v, b # v,
               Tie(e[a], e[b])
        PROVE  p[a] < p[b]
    BY <1>1, <2>2 DEF SortState, StableSoFar
  <2>3. /\ \A k \in 1..N : k > u => q[k] = k
        /\ q[v - 1] = u
        /\ \A k \in 1..N : k <= u /\ k # v - 1 => q[k] < u
    <3>1. ASSUME NEW k \in 1..N, k > u PROVE q[k] = k
      <4>1. k # v /\ k # v - 1
        BY <3>1
      <4>2. QED
        BY <1>3, <2>1, <3>1, <4>1
    <3>2. ASSUME NEW k \in 1..N, k <= u, k # v - 1 PROVE q[k] < u
      <4>1. CASE k = v
        BY <1>1, <1>3, <2>1, <4>1
      <4>2. CASE k # v
        BY <1>3, <2>1, <3>2, <4>2
      <4>3. QED
        BY <4>1, <4>2
    <3>3. QED
      BY <1>3, <2>1, <3>1, <3>2
  <2>4. ASSUME NEW m \in 1..N, NEW n \in 1..N, m < n, n <= u, m # v - 1, n # v - 1,
               Tie(f[m], f[n])
        PROVE  q[m] < q[n]
    <3>1. CASE m = v
      <4>1. v - 1 < n /\ v - 1 # v /\ n # v /\ Tie(e[v - 1], e[n])
        BY <1>1, <1>2, <2>4, <3>1
      <4>2. p[v - 1] < p[n]
        BY <1>1, <2>2, <2>4, <4>1
      <4>3. QED
        BY <1>1, <1>3, <2>4, <3>1, <4>2
    <3>2. CASE n = v
      <4>1. m < v - 1 /\ m # v /\ Tie(e[m], e[v - 1])
        <5>1. m < v - 1 /\ m # v
          BY <2>4, <3>2
        <5>2. QED
          BY <1>2, <2>4, <3>2, <5>1
      <4>2. p[m] < p[v - 1]
        BY <1>1, <2>2, <2>4, <4>1
      <4>3. QED
        BY <1>1, <1>3, <2>4, <3>2, <4>2
    <3>3. CASE m # v /\ n # v
      BY <1>1, <1>2, <1>3, <2>2, <2>4, <3>3
    <3>4. QED
      BY <3>1, <3>2, <3>3
  <2>5. QED
    BY <1>1, <1>2, <2>3, <2>4 DEF StableSoFar
<1>7. QED
  BY <1>2, <1>4, <1>5, <1>6 DEF SortState, f, q

(* ... and one that is not has found its place. *)
LEMMA NextKeepsState ==
  ASSUME NEW N \in Nat, NEW e, NEW p, NEW u \in Nat, NEW v \in Nat,
         1 <= v, v <= u, u <= N,
         \A k \in 1..N : WellFormed(e[k]),
         SortState(1..N, e, p, u, v),
         ~(v > 1 /\ Better(e[v], e[v - 1]))
  PROVE  SortState(1..N, e, p, u + 1, u + 1)
<1>1. DOMAIN e = 1..N /\ p \in [1..N -> 1..N] /\ v \in 1..N
  <2>1. v \in 1..N
    OBVIOUS
  <2>2. DOMAIN e = 1..N /\ p \in [1..N -> 1..N]
    BY Zenon DEF SortState, Permutation
  <2>3. QED
    BY <2>1, <2>2
<1>2. /\ \A k \in 1..N : k > u => p[k] = k
      /\ p[v] = u
      /\ \A k \in 1..N : k <= u /\ k # v => p[k] < u
  BY <1>1 DEF SortState, StableSoFar
<1>3. ASSUME NEW m \in 1..N, NEW n \in 1..N, m < n, n <= u
      PROVE  ~Better(e[n], e[m])
  <2>1. n # v => ~Better(e[n], e[m])
    BY <1>1, <1>3 DEF SortState, Inserting
  <2>2. CASE n = v /\ m = v - 1
    BY <1>3, <2>2
  <2>3. CASE n = v /\ m # v - 1
    <3>1. v - 1 \in 1..N /\ v > 1 /\ m < v - 1 /\ v - 1 <= u /\ v - 1 # v
      BY <1>1, <1>3, <2>3
    <3>2. ~Better(e[v - 1], e[m])
      BY <1>1, <3>1 DEF SortState, Inserting
    <3>3. Better(e[v], e[m]) => Better(e[v], e[v - 1]) \/ Better(e[v - 1], e[m])
      BY <1>1, <3>1, BetterIsOrder
    <3>4. QED
      BY <2>3, <3>1, <3>2, <3>3
  <2>4. QED
    BY <2>1, <2>2, <2>3
<1>4. Inserting(e, u + 1, u + 1)
  <2>1. ASSUME NEW m \in 1..N, NEW n \in 1..N, m < n, n <= u + 1, n # u + 1
        PROVE  ~Better(e[n], e[m])
    <3>1. n <= u
      BY <2>1
    <3>2. QED
      BY <1>3, <2>1, <3>1
  <2>2. \A n \in 1..N : ~(u + 1 < n /\ n <= u + 1)
    OBVIOUS
  <2>3. QED
    BY <1>1, <2>1, <2>2 DEF Inserting
<1>5. ASSUME NEW m \in 1..N, NEW n \in 1..N, m < n, n <= u, Tie(e[m], e[n])
      PROVE  p[m] < p[n]
  <2>1. CASE n = v
    BY <1>1, <1>2, <1>5, <2>1
  <2>2. CASE m = v
    BY <1>1, <1>5, <2>2 DEF SortState, Inserting, Tie
  <2>3. CASE m # v /\ n # v
    BY <1>1, <1>5, <2>3 DEF SortState, StableSoFar
  <2>4. QED
    BY <2>1, <2>2, <2>3
<1>6. StableSoFar(e, p, u + 1, u + 1)
  <2>1. ASSUME NEW k \in 1..N, k > u PROVE p[k] = k
    BY <1>2, <2>1
  <2>2. ASSUME NEW k \in 1..N, k <= u + 1, k # u + 1 PROVE p[k] < u + 1
    <3>1. k <= u /\ p[k] \in 1..N
      BY <1>1, <2>2
    <3>2. QED
      BY <1>2, <3>1
  <2>3. ASSUME NEW m \in 1..N, NEW n \in 1..N, m < n, n <= u + 1, n # u + 1,
               Tie(e[m], e[n])
        PROVE  p[m] < p[n]
    <3>1. n <= u
      BY <2>3
    <3>2. QED
      BY <1>5, <2>3, <3>1
  <2>4. /\ \A k \in 1..N : k > u + 1 => k > u
        /\ u + 1 \in 1..N => p[u + 1] = u + 1
    BY <2>1
  <2>5. QED
    BY <1>1, <2>1, <2>2, <2>3, <2>4 DEF StableSoFar
<1>7. QED
  BY <1>1, <1>4, <1>6 DEF SortState
-----------------------------------------------------------------------------
Items == [k \in DOMAIN orig |-> Elem(k)]

AttrOK ==
  \A k \in DOMAIN orig :
    addrAttr[k] = ipAttrOf(addrs[k]) /\ srcAttr[k] = ipAttrOf(srcs[k].addr)

(* The four lists have the length of the original one. *)
ShapeOK ==
  /\ Len(orig) \in Nat /\ orig \in [1..Len(orig) -> Candidates]
  /\ addrs \in Seq(Addresses) /\ Len(addrs) = Len(orig)
  /\ DOMAIN srcs = DOMAIN orig /\ DOMAIN addrAttr = DOMAIN orig
  /\ DOMAIN srcAttr = DOMAIN orig
  /\ i \in 2..(Len(orig) + 1) /\ j \in 1..i
  /\ i > Len(orig) => j = i

SortInv ==
  /\ ShapeOK /\ AttrOK
  /\ \E p \in [DOMAIN orig -> DOMAIN orig] :
       /\ SortState(DOMAIN orig, Items, p, i, j)
       /\ \A k \in DOMAIN orig : Elem(k) = Orig(p[k])

(* Less on two places is Better on what is there, when the attributes are
   those of the addresses. *)
LEMMA LessIsBetter ==
  ASSUME AttrOK, NEW m \in DOMAIN orig, NEW n \in DOMAIN orig
  PROVE  Less(m, n) <=> Better(Items[m], Items[n])
<1>1. /\ Items[m].da = addrs[m] /\ Items[m].src = srcs[m]
      /\ Items[n].da = addrs[n] /\ Items[n].src = srcs[n]
  BY DEF Items, Elem
<1>2. /\ addrAttr[m] = ipAttrOf(addrs[m]) /\ srcAttr[m] = ipAttrOf(srcs[m].addr)
      /\ addrAttr[n] = ipAttrOf(addrs[n]) /\ srcAttr[n] = ipAttrOf(srcs[n].addr)
  BY DEF AttrOK
<1>3. QED
  BY <1>1, <1>2
  DEF Less, Better, Valid, ScopeOK, Current, AtHome, LabelOK, Preced, Native,
      Narrow, IsV6, Common

(* Every pair the sort moves is a destination with the source of its route. *)
LEMMA OrigWellFormed ==
  ASSUME ShapeOK, NEW k \in DOMAIN orig
  PROVE  WellFormed(Orig(k))
<1>1. orig[k] \in Candidates
  BY DEF ShapeOK
<1>2. QED
  BY <1>1, CandidatesRouted DEF WellFormed, Orig, defaultSrcAddr

(* Swap moves all four lists together, and the sort is a stable insertion. *)
LEMMA Sorting == Spec => []SortInv
<1>1. Init => SortInv
  <2> SUFFICES ASSUME Init PROVE SortInv
    OBVIOUS
  <2>1. PICK n \in 2..MaxLen : orig \in [1..n -> Candidates]
    BY DEF Init
  <2>2. n \in Nat /\ n >= 2 /\ Len(orig) = n /\ DOMAIN orig = 1..n
    BY <2>1, MaxLenNat
  <2>3. ShapeOK
    <3>1. \A k \in 1..n : orig[k].da \in Addresses
      BY <2>1, CandidatesRouted
    <3>2. addrs \in [1..n -> Addresses]
      BY <2>2, <3>1 DEF Init
    <3>3. addrs \in Seq(Addresses) /\ Len(addrs) = n
      BY <2>2, <3>2
    <3>4. QED
      BY <2>1, <2>2, <3>3 DEF Init, ShapeOK
  <2>4. AttrOK
    BY DEF Init, AttrOK
  <2> DEFINE id == [k \in DOMAIN orig |-> k]
  <2>5. SortState(DOMAIN orig, Items, id, i, j)
    <3>1. i = 2 /\ j = 2 /\ DOMAIN Items = 1..n
      BY <2>2 DEF Init, Items
    <3>2. Permutation(id, 1..n)
      BY <2>2 DEF Permutation
    <3>3. Inserting(Items, 2, 2)
      BY <2>2, <3>1 DEF Inserting
    <3>4. StableSoFar(Items, id, 2, 2)
      BY <2>2, <3>1 DEF StableSoFar
    <3>5. QED
      BY <2>2, <3>1, <3>2, <3>3, <3>4 DEF SortState
  <2>6. \A k \in DOMAIN orig : Elem(k) = Orig(id[k])
    BY DEF Init, Elem, Orig
  <2>7. id \in [DOMAIN orig -> DOMAIN orig]
    OBVIOUS
  <2> HIDE DEF id
  <2>8. QED
    BY <2>3, <2>4, <2>5, <2>6, <2>7 DEF SortInv
<1>2. SortInv /\ [Next]_vars => SortInv'
  <2> SUFFICES ASSUME SortInv, [Next]_vars PROVE SortInv'
    OBVIOUS
  <2>1. ShapeOK /\ AttrOK
    BY DEF SortInv
  <2>2. PICK p \in [DOMAIN orig -> DOMAIN orig] :
          /\ SortState(DOMAIN orig, Items, p, i, j)
          /\ \A k \in DOMAIN orig : Elem(k) = Orig(p[k])
    BY DEF SortInv
  <2>3. PICK N \in Nat : N = Len(orig)
    BY <2>1 DEF ShapeOK
  <2>4. DOMAIN orig = 1..N /\ DOMAIN addrs = 1..N /\ Len(addrs) = N
    BY <2>1, <2>3 DEF ShapeOK
  <2>5. \A k \in 1..N : WellFormed(Items[k])
    <3>1. \A k \in 1..N : Items[k] = Orig(p[k]) /\ p[k] \in DOMAIN orig
      BY <2>2, <2>4 DEF Items
    <3>2. QED
      BY <2>1, <3>1, OrigWellFormed
  <2>6. /\ i \in Nat /\ j \in Nat /\ 1 <= j /\ j <= i /\ 2 <= i /\ i <= N + 1
        /\ i > N => j = i
    BY <2>1, <2>3 DEF ShapeOK
  <2>7. CASE InsertSwap
    <3>1. 1 < j /\ i <= N /\ j \in 1..N /\ j - 1 \in 1..N /\ j # j - 1
      BY <2>4, <2>6, <2>7 DEF InsertSwap, OutOfOrder
    <3>2. Better(Items[j], Items[j - 1])
      BY <2>1, <2>4, <2>7, <3>1, LessIsBetter DEF InsertSwap, OutOfOrder
    <3>3. SortState(1..N, Exchange(Items, j, j - 1), Exchange(p, j, j - 1), i, j - 1)
      BY <2>2, <2>4, <2>5, <2>6, <3>1, <3>2, SwapKeepsState
    <3>4. PICK q : q = Exchange(p, j, j - 1)
      OBVIOUS
    <3>5. /\ q \in [1..N -> 1..N] /\ q[j] = p[j - 1] /\ q[j - 1] = p[j]
          /\ \A k \in 1..N : k # j /\ k # j - 1 => q[k] = p[k]
      BY <2>4, <3>1, <3>4 DEF Exchange
    <3>6. /\ addrs' = Exchange(addrs, j, j - 1) /\ srcs' = Exchange(srcs, j, j - 1)
          /\ addrAttr' = Exchange(addrAttr, j, j - 1)
          /\ srcAttr' = Exchange(srcAttr, j, j - 1)
          /\ j' = j - 1 /\ UNCHANGED <<linux, i, orig>>
      BY <2>7 DEF InsertSwap, Swap
    <3>7. /\ addrs'[j] = addrs[j - 1] /\ addrs'[j - 1] = addrs[j]
          /\ srcs'[j] = srcs[j - 1] /\ srcs'[j - 1] = srcs[j]
          /\ addrAttr'[j] = addrAttr[j - 1] /\ addrAttr'[j - 1] = addrAttr[j]
          /\ srcAttr'[j] = srcAttr[j - 1] /\ srcAttr'[j - 1] = srcAttr[j]
      BY <2>1, <2>4, <3>1, <3>6 DEF Exchange, ShapeOK
    <3>8. \A k \in 1..N : k # j /\ k # j - 1 =>
            /\ addrs'[k] = addrs[k] /\ srcs'[k] = srcs[k]
            /\ addrAttr'[k] = addrAttr[k] /\ srcAttr'[k] = srcAttr[k]
      BY <2>1, <2>4, <3>1, <3>6 DEF Exchange, ShapeOK
    <3>9. ShapeOK'
      <4>1. addrs \in [1..N -> Addresses]
        BY <2>1, <2>3 DEF ShapeOK
      <4>2. addrs' \in [1..N -> Addresses]
        BY <3>1, <3>6, <4>1 DEF Exchange
      <4>3. addrs' \in Seq(Addresses) /\ Len(addrs') = N
        BY <4>2
      <4>4. /\ DOMAIN srcs' = DOMAIN srcs /\ DOMAIN addrAttr' = DOMAIN addrAttr
            /\ DOMAIN srcAttr' = DOMAIN srcAttr
        BY <3>6 DEF Exchange
      <4>5. j' \in 1..i /\ ~(i > N)
        BY <2>6, <3>1, <3>6
      <4>6. QED
        BY <2>1, <2>3, <3>6, <4>3, <4>4, <4>5 DEF ShapeOK
    <3>10. AttrOK'
      <4>1. \A k \in 1..N : addrAttr[k] = ipAttrOf(addrs[k])
                            /\ srcAttr[k] = ipAttrOf(srcs[k].addr)
        BY <2>1, <2>4 DEF AttrOK
      <4>2. ASSUME NEW k \in 1..N
            PROVE  addrAttr'[k] = ipAttrOf(addrs'[k]) /\ srcAttr'[k] = ipAttrOf(srcs'[k].addr)
        <5>1. CASE k = j
          BY <3>1, <3>7, <4>1, <5>1
        <5>2. CASE k = j - 1
          BY <3>1, <3>7, <4>1, <5>2
        <5>3. CASE k # j /\ k # j - 1
          BY <3>8, <4>1, <5>3
        <5>4. QED
          BY <5>1, <5>2, <5>3
      <4>3. QED
        BY <2>4, <3>6, <4>2 DEF AttrOK
    <3>11. ASSUME NEW k \in 1..N PROVE Elem(k)' = Orig(q[k])'
      <4>1. Orig(q[k])' = Orig(q[k])
        BY <3>6 DEF Orig, defaultSrcAddr, getAddrFlags
      <4>2. \A l \in 1..N : Elem(l) = Orig(p[l])
        BY <2>2, <2>4
      <4>3. CASE k = j
        BY <3>1, <3>5, <3>7, <4>1, <4>2, <4>3 DEF Elem
      <4>4. CASE k = j - 1
        BY <3>1, <3>5, <3>7, <4>1, <4>2, <4>4 DEF Elem
      <4>5. CASE k # j /\ k # j - 1
        BY <3>5, <3>8, <4>1, <4>2, <4>5 DEF Elem
      <4>6. QED
        BY <4>3, <4>4, <4>5
    <3>12. Items' = Exchange(Items, j, j - 1)
      <4>1. Items' = [k \in 1..N |-> Elem(k)']
        BY <2>4, <3>6 DEF Items
      <4>2. Items = [k \in 1..N |-> Elem(k)]
        BY <2>4 DEF Items
      <4>3. /\ Elem(j - 1) = [da |-> addrs'[j], src |-> srcs'[j]]
            /\ Elem(j) = [da |-> addrs'[j - 1], src |-> srcs'[j - 1]]
        BY <3>7 DEF Elem
      <4>4. \A k \in 1..N : k # j /\ k # j - 1 => Elem(k)' = Elem(k)
        BY <3>8 DEF Elem
      <4>5. \A k \in 1..N : /\ k = j => Elem(k)' = Elem(j - 1)
                            /\ k = j - 1 => Elem(k)' = Elem(j)
        BY <4>3 DEF Elem
      <4>6. QED
        BY <3>1, <4>1, <4>2, <4>4, <4>5 DEF Exchange
    <3>13. SortState(DOMAIN orig, Items, q, i, j)'
      BY <2>4, <3>3, <3>4, <3>6, <3>12
    <3>14. QED
      BY <2>4, <3>5, <3>6, <3>9, <3>10, <3>11, <3>13 DEF SortInv
  <2>8. CASE InsertNext
    <3>1. i <= N /\ i' = i + 1 /\ j' = i + 1
      BY <2>4, <2>8 DEF InsertNext
    <3>2. ~(j > 1 /\ Better(Items[j], Items[j - 1]))
      <4>1. CASE j > 1
        <5>1. j \in DOMAIN orig /\ j - 1 \in DOMAIN orig
          BY <2>4, <2>6, <3>1, <4>1
        <5>2. QED
          BY <2>1, <2>8, <5>1, LessIsBetter DEF InsertNext, OutOfOrder
      <4>2. QED
        BY <4>1
    <3>3. SortState(1..N, Items, p, i + 1, i + 1)
      BY <2>2, <2>4, <2>5, <2>6, <3>1, <3>2, NextKeepsState
    <3>4. UNCHANGED <<linux, addrs, srcs, addrAttr, srcAttr, orig>>
      BY <2>8 DEF InsertNext
    <3>5. Items' = Items /\ \A k : Orig(k)' = Orig(k) /\ Elem(k)' = Elem(k)
      BY <3>4 DEF Items, Elem, Orig, defaultSrcAddr, getAddrFlags
    <3>6. ShapeOK' /\ AttrOK'
      BY <2>1, <2>3, <2>6, <3>1, <3>4 DEF ShapeOK, AttrOK
    <3>7. SortState(DOMAIN orig, Items, p, i, j)'
      BY <2>4, <3>1, <3>3, <3>4, <3>5
    <3>8. QED
      BY <2>2, <3>4, <3>5, <3>6, <3>7 DEF SortInv
  <2>9. CASE UNCHANGED vars
    <3>1. UNCHANGED <<linux, addrs, srcs, addrAttr, srcAttr, i, j, orig>>
      BY <2>9 DEF vars
    <3>2. Items' = Items /\ \A k : Orig(k)' = Orig(k) /\ Elem(k)' = Elem(k)
      BY <3>1 DEF Items, Elem, Orig, defaultSrcAddr, getAddrFlags
    <3>3. ShapeOK' /\ AttrOK'
      BY <2>1, <3>1 DEF ShapeOK, AttrOK
    <3>4. QED
      BY <2>2, <3>1, <3>2, <3>3 DEF SortInv
  <2>10. QED
    BY <2>7, <2>8, <2>9 DEF Next, Finished
<1>3. QED
  BY <1>1, <1>2, PTL DEF Spec
-----------------------------------------------------------------------------
(* Every variable keeps its shape, and whatever the sort moves is a pair that
   came in. *)
THEOREM TypeCorrect == Spec => []TypeOK
<1>1. SortInv => TypeOK
  <2> SUFFICES ASSUME SortInv PROVE TypeOK
    OBVIOUS
  <2>1. PICK p \in [DOMAIN orig -> DOMAIN orig] :
          \A k \in DOMAIN orig : Elem(k) = Orig(p[k])
    BY DEF SortInv
  <2>2. \A k \in DOMAIN orig : Elem(k) \in Pairs
    BY <2>1 DEF Pairs
  <2>3. DOMAIN addrs = DOMAIN orig /\ DOMAIN srcs = DOMAIN orig
    BY DEF SortInv, ShapeOK
  <2>4. i \in 2..(Len(orig) + 1) /\ j \in 1..(Len(orig) + 1)
    BY DEF SortInv, ShapeOK
  <2>5. QED
    BY <2>2, <2>3, <2>4 DEF TypeOK
<1>2. QED
  BY <1>1, Sorting, PTL

(* byRFC6724.Swap keeps addresses, sources and attributes together: no address
   is judged, or returned, with the source of another. *)
THEOREM PairsStayTogether == Spec => []Aligned
<1>1. SortInv => Aligned
  <2> SUFFICES ASSUME SortInv PROVE Aligned
    OBVIOUS
  <2>1. PICK p \in [DOMAIN orig -> DOMAIN orig] :
          /\ Permutation(p, DOMAIN orig)
          /\ \A k \in DOMAIN orig : Elem(k) = Orig(p[k])
    BY DEF SortInv, SortState
  <2>2. IsFiniteSet(DOMAIN orig)
    <3>1. DOMAIN orig = 1..Len(orig) /\ Len(orig) \in Nat
      BY DEF SortInv, ShapeOK
    <3>2. QED
      BY <3>1, FS_Interval
  <2>3. ASSUME NEW c
        PROVE  Cardinality({k \in DOMAIN orig : Orig(k) = c})
                 = Cardinality({k \in DOMAIN orig : Elem(k) = c})
    <3> DEFINE A == {k \in DOMAIN orig : Orig(k) = c}
               B == {k \in DOMAIN orig : Elem(k) = c}
               f == [k \in B |-> p[k]]
    <3>1. f \in [B -> A]
      BY <2>1
    <3>2. \A k, l \in B : f[k] = f[l] => k = l
      BY <2>1 DEF Permutation
    <3>3. ASSUME NEW a \in A PROVE \E k \in B : f[k] = a
      <4>1. PICK k \in DOMAIN orig : p[k] = a
        BY <2>1 DEF Permutation
      <4>2. k \in B
        BY <2>1, <4>1
      <4>3. QED
        BY <4>1, <4>2
    <3>4. IsFiniteSet(B)
      BY <2>2, FS_Subset
    <3> HIDE DEF A, B, f
    <3>5. f \in Bijection(B, A)
      BY <3>1, <3>2, <3>3 DEF Bijection, Injection, Surjection, IsInjective
    <3>6. Cardinality(A) = Cardinality(B)
      BY <3>4, <3>5, FS_Bijection DEF ExistsBijection
    <3>7. QED
      BY <3>6 DEF A, B
  <2>4. QED
    BY <2>3 DEF Aligned, SortInv, AttrOK
<1>2. QED
  BY <1>1, Sorting, PTL

(* At the end of the sort every place is in order, and draws are in the order
   in which they came. *)
LEMMA AtTheEnd ==
  ASSUME SortInv, Sorted, NEW m \in DOMAIN orig, NEW n \in DOMAIN orig, m < n
  PROVE  /\ ~Better(Items[n], Items[m])
         /\ \E p \in [DOMAIN orig -> DOMAIN orig] :
              /\ \A k \in DOMAIN orig : Elem(k) = Orig(p[k])
              /\ Tie(Items[m], Items[n]) => p[m] < p[n]
<1>1. PICK p \in [DOMAIN orig -> DOMAIN orig] :
        /\ SortState(DOMAIN orig, Items, p, i, j)
        /\ \A k \in DOMAIN orig : Elem(k) = Orig(p[k])
  BY DEF SortInv
<1>2. /\ n <= i /\ n # j /\ m # j
  BY DEF SortInv, ShapeOK, Sorted
<1>3. DOMAIN Items = DOMAIN orig
  BY DEF Items
<1>4. ~Better(Items[n], Items[m])
  BY <1>1, <1>2, <1>3 DEF SortState, Inserting
<1>5. Tie(Items[m], Items[n]) => p[m] < p[n]
  BY <1>1, <1>2, <1>3 DEF SortState, StableSoFar
<1>6. QED
  BY <1>1, <1>4, <1>5

(* The result is in order as a whole: no address is better than one before it,
   because the ten rules of Less together are a strict weak order. *)
THEOREM SortedAsAWhole == Spec => []FullySorted
<1>1. SortInv => FullySorted
  <2> SUFFICES ASSUME SortInv, Sorted, NEW m \in DOMAIN orig, NEW n \in DOMAIN orig, m < n
               PROVE  ~Less(n, m)
    BY DEF FullySorted
  <2>1. ~Better(Items[n], Items[m])
    BY AtTheEnd
  <2>2. QED
    BY <2>1, LessIsBetter DEF SortInv
<1>2. QED
  BY <1>1, Sorting, PTL

(* Addresses that no rule tells apart stay in the order of the reply. *)
THEOREM SortIsStable == Spec => []Stability
<1>1. SortInv => Stability
  <2> SUFFICES ASSUME SortInv, Sorted, NEW m \in DOMAIN orig, NEW n \in DOMAIN orig,
                      m < n, ~Less(m, n), ~Less(n, m)
               PROVE  Min(Places(Elem(m))) <= Max(Places(Elem(n)))
    BY DEF Stability
  <2>1. Tie(Items[m], Items[n])
    BY LessIsBetter DEF SortInv, Tie
  <2>2. PICK p \in [DOMAIN orig -> DOMAIN orig] :
          (\A k \in DOMAIN orig : Elem(k) = Orig(p[k])) /\ p[m] < p[n]
    BY <2>1, AtTheEnd
  <2>3. p[m] \in Places(Elem(m)) /\ p[n] \in Places(Elem(n))
    BY <2>2 DEF Places
  <2>4. DOMAIN orig = 1..Len(orig) /\ Len(orig) \in Nat
    BY DEF SortInv, ShapeOK
  <2>5. \A c : /\ Places(c) \in SUBSET Nat
               /\ \A k \in Places(c) : k <= Len(orig)
    BY <2>4 DEF Places
  <2>6. Min(Places(Elem(m))) \in Nat /\ Min(Places(Elem(m))) <= p[m]
    <3>1. /\ Min(Places(Elem(m))) \in Places(Elem(m))
          /\ Min(Places(Elem(m))) <= p[m]
      BY <2>3, <2>5, MinLeast
    <3>2. QED
      BY <2>5, <3>1
  <2>7. Max(Places(Elem(n))) \in Nat /\ p[n] <= Max(Places(Elem(n)))
    <3>1. /\ Max(Places(Elem(n))) \in Places(Elem(n))
          /\ Max(Places(Elem(n))) >= p[n]
      BY <2>3, <2>4, <2>5, MaxGreatest
    <3>2. Max(Places(Elem(n))) \in Nat /\ p[n] \in Nat
      BY <2>3, <2>5, <3>1
    <3>3. QED
      BY <3>1, <3>2
  <2>8. p[m] \in Nat /\ p[n] \in Nat
    BY <2>3, <2>5
  <2>9. QED
    BY <2>2, <2>6, <2>7, <2>8
<1>2. QED
  BY <1>1, Sorting, PTL

(* The address that is dialed has a route if any has one. *)
THEOREM ReachableIsFirst == Spec => []ReachableFirst
<1>1. SortInv => ReachableFirst
  <2> SUFFICES ASSUME SortInv, Sorted, NEW k \in DOMAIN orig, orig[k].route # None
               PROVE  srcs[1].addr # None
    BY DEF ReachableFirst
  <2>1. PICK p \in [DOMAIN orig -> DOMAIN orig] :
          /\ Permutation(p, DOMAIN orig)
          /\ \A l \in DOMAIN orig : Elem(l) = Orig(p[l])
    BY DEF SortInv, SortState
  <2>2. PICK l \in DOMAIN orig : p[l] = k
    BY <2>1 DEF Permutation
  <2>3. srcs[l].addr # None
    <3>1. orig[k] \in Candidates
      BY DEF SortInv, ShapeOK
    <3>2. Orig(k).src.addr # None
      BY <3>1, CandidatesRouted, NoneIsNoAddress DEF Orig, defaultSrcAddr
    <3>3. Elem(l) = Orig(k)
      BY <2>1, <2>2
    <3>4. QED
      BY <3>2, <3>3 DEF Elem
  <2>4. DOMAIN orig = 1..Len(orig) /\ Len(orig) \in Nat
    BY DEF SortInv, ShapeOK
  <2>5. CASE l = 1
    BY <2>3, <2>5
  <2>6. CASE l # 1
    <3>1. 1 \in DOMAIN orig /\ 1 < l
      BY <2>4, <2>6
    <3>2. ~Better(Items[l], Items[1])
      BY <3>1, AtTheEnd
    <3>3. Items[l].src.addr # None /\ Items[1].src = srcs[1]
      BY <2>3, <3>1 DEF Items, Elem
    <3>4. QED
      BY <3>2, <3>3 DEF Better, Decide, Valid, Bit
  <2>7. QED
    BY <2>5, <2>6
<1>2. QED
  BY <1>1, Sorting, PTL
=============================================================================
