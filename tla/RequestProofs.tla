---------------------------- MODULE RequestProofs ----------------------------
(***************************************************************************)
(* Proofs about Request, for any header texts, requests, addresses, ports  *)
(* and record lengths.                                                     *)
(***************************************************************************)
EXTENDS Request, FiniteSetTheorems, TLAPS

-----------------------------------------------------------------------------
(* What is known of a connection at the place where handle is. *)
StageOK ==
  /\ pc \in {"resolve", "readHello", "forwarded", "badGateway"} => req \in Requests
  /\ pc \in {"readRequest", "parse", "resolve"} => dst = None

(* A destination that is dialed has the request's port, which is not refused. *)
DialedOK ==
  dst # None =>
    /\ req \in Requests /\ dst.ip \in Ips
    /\ dst.port = PortOf(req) /\ PortOf(req) # 0

(* A record that was read has a valid length. *)
RecordOK ==
  /\ rec # None \/ (pc = "forwarded" /\ req.method = "CONNECT") =>
       /\ rec.declared \in Nat /\ ValidLen(rec.declared)
       /\ rec.raw = RawLen(rec.declared)
  /\ pc # "panicked"
  /\ pc = "forwarded" /\ req.method = "CONNECT" => rec.raw > TLSHeaderLen

(* The 16-bit sum does not wrap for a length that ValidLen lets through. *)
LEMMA LengthFits ==
  ASSUME NEW len \in Nat, ValidLen(len)
  PROVE  RawLen(len) = len + TLSHeaderLen
<1>1. len + TLSHeaderLen \in Nat /\ len + TLSHeaderLen < 65536
  BY SMT DEF ValidLen, TLSMaxPayloadLen, TLSHeaderLen
<1>2. \A n \in Nat : n < 65536 => n % 2^16 = n
  BY SMT
<1>3. QED
  BY <1>1, <1>2, SMT DEF RawLen

(* The port of a handler is one that can be dialed, unless it is 0. *)
LEMMA PortOfRange ==
  ASSUME NEW r \in Requests
  PROVE  PortOf(r) \in Nat /\ PortOf(r) <= 65535
<1>1. r.port.value \in Nat
  BY RequestsAreOk DEF PortText
<1>2. QED
  BY <1>1, SMT DEF PortOf

StageInv == StageOK /\ DialedOK /\ RecordOK

(* The checks of handle and of the handlers come before what they protect. *)
LEMMA Stages == Spec => []StageInv
<1>1. Init => StageInv
  BY DEF Init, StageInv, StageOK, DialedOK, RecordOK
<1>2. StageInv /\ [Next]_vars => StageInv'
  <2> SUFFICES ASSUME StageInv, [Next]_vars PROVE StageInv'
    OBVIOUS
  <2> USE DEF StageInv, StageOK, DialedOK, RecordOK, Close
  <2>1. CASE ReadLine
    BY <2>1 DEF ReadLine
  <2>2. CASE ReadLineFails
    BY <2>2 DEF ReadLineFails
  <2>3. CASE Parse
    BY <2>3 DEF Parse
  <2>4. CASE ParseFails
    BY <2>4 DEF ParseFails
  <2>5. CASE ResolveFails
    BY <2>5 DEF ResolveFails
  <2>6. CASE Route
    <3>1. PICK ip \in ResolveHost(req), listed \in BOOLEAN :
            IF (SamePort(req) /\ isLoopedRequest(ip, listed)) \/ PortOf(req) = 0
            THEN pc' = "closed" /\ UNCHANGED dst
            ELSE /\ dst' = [ip |-> ip, port |-> PortOf(req)]
                 /\ \/ pc' = IF req.method = "CONNECT" THEN "readHello" ELSE "forwarded"
                    \/ pc' = "closed"
      BY <2>6, Zenon DEF Route
    <3>2. pc = "resolve" /\ UNCHANGED <<req, rec>> /\ ip \in Ips
      BY <2>6, <3>1 DEF Route, ResolveHost, IsLiteral
    <3>3. CASE (SamePort(req) /\ isLoopedRequest(ip, listed)) \/ PortOf(req) = 0
      BY <3>1, <3>2, <3>3
    <3>4. CASE ~((SamePort(req) /\ isLoopedRequest(ip, listed)) \/ PortOf(req) = 0)
      <4>1. /\ dst' = [ip |-> ip, port |-> PortOf(req)]
            /\ pc' \in {"readHello", "forwarded", "closed"}
            /\ pc' = "forwarded" => req.method # "CONNECT"
        BY <3>1, <3>4
      <4>2. dst'.ip = ip /\ dst'.port = PortOf(req)
        BY <4>1
      <4>3. DialedOK'
        BY <3>2, <3>4, <4>2, Zenon
      <4>4. StageOK' /\ RecordOK'
        BY <3>2, <4>1
      <4>5. QED
        BY <4>3, <4>4
    <3>5. QED
      BY <3>3, <3>4
  <2>7. CASE ReadTLSMessage
    <3>1. PICK len \in RecordLens, isHello \in BOOLEAN :
            IF ~ValidLen(len) THEN pc' = "closed" /\ UNCHANGED rec
            ELSE /\ rec' = [declared |-> len, raw |-> RawLen(len)]
                 /\ pc' = IF RawLen(len) < TLSHeaderLen THEN "panicked"
                          ELSE IF IsClientHello(RawLen(len), isHello) THEN "forwarded"
                          ELSE "closed"
      BY <2>7, Zenon DEF ReadTLSMessage
    <3>2. pc = "readHello" /\ UNCHANGED <<req, dst>>
      BY <2>7 DEF ReadTLSMessage
    <3>3. len \in Nat
      <4>1. len \in 0..(2^16 - 1)
        BY LensAre16Bits, Zenon
      <4>2. 2^16 - 1 \in Int
        BY SMT
      <4>3. QED
        BY <4>1, <4>2, SMT
    <3>4. CASE ~ValidLen(len)
      BY <3>1, <3>2, <3>4
    <3>5. CASE ValidLen(len)
      <4>1. RawLen(len) = len + TLSHeaderLen
        BY <3>3, <3>5, LengthFits
      <4>2. /\ rec' = [declared |-> len, raw |-> RawLen(len)]
            /\ pc' \in {"forwarded", "closed"}
            /\ pc' = "forwarded" => RawLen(len) > TLSHeaderLen
        BY <3>1, <3>3, <3>5, <4>1 DEF IsClientHello, TLSHeaderLen
      <4>3. rec'.declared = len /\ rec'.raw = RawLen(len)
        BY <4>2
      <4>4. QED
        BY <3>2, <3>3, <3>5, <4>2, <4>3
    <3>6. QED
      BY <3>4, <3>5
  <2>8. CASE UNCHANGED vars
    BY <2>8 DEF vars
  <2>9. QED
    BY <2>1, <2>2, <2>3, <2>4, <2>5, <2>6, <2>7, <2>8 DEF Next, Finished
<1>3. QED
  BY <1>1, <1>2, PTL DEF Spec

(* The record that is split and forwarded is the one its header declares: the
   sum of two uint16 never wraps and no slice is out of range. *)
THEOREM RecordIsIntact == Spec => []RecordIntact
<1>1. StageInv => RecordIntact
  <2> SUFFICES ASSUME StageInv PROVE RecordIntact
    OBVIOUS
  <2>1. rec # None \/ (pc = "forwarded" /\ req.method = "CONNECT") =>
          rec.declared \in Nat /\ rec.raw = rec.declared + TLSHeaderLen
    BY LengthFits DEF StageInv, RecordOK
  <2>2. QED
    BY <2>1 DEF StageInv, RecordOK, RecordIntact, TLSHeaderLen
<1>2. QED
  BY <1>1, Stages, PTL

-----------------------------------------------------------------------------
(* Induction over the naturals, by way of a least counterexample. *)
LEMMA Least ==
  ASSUME NEW S \in SUBSET Nat, S # {}
  PROVE  \E m \in S : \A x \in S : m <= x
<1>1. PICK m \in S : \A y \in S : ~(<<y, m>> \in OpToRel(<, Nat))
  BY WFMin, NatLessThanWellFounded
<1>2. ASSUME NEW x \in S PROVE m <= x
  <2>1. x \in Nat /\ m \in Nat
    OBVIOUS
  <2>2. x < m => <<x, m>> \in OpToRel(<, Nat)
    BY <2>1 DEF OpToRel
  <2>3. ~(x < m)
    BY <1>1, <2>2
  <2>4. QED
    BY <2>1, <2>3
<1>3. QED
  BY <1>2

LEMMA Inductive ==
  ASSUME NEW S \in SUBSET Nat, 0 \in S, \A n \in Nat : n \in S => n + 1 \in S
  PROVE  \A n \in Nat : n \in S
<1> SUFFICES ASSUME Nat \ S # {} PROVE FALSE
  OBVIOUS
<1>1. PICK m \in Nat \ S : \A x \in Nat \ S : m <= x
  BY Least
<1>2. m - 1 \in Nat /\ (m - 1) + 1 = m
  BY <1>1
<1>3. m - 1 \in S
  BY <1>1, <1>2
<1>4. QED
  BY <1>1, <1>2, <1>3

-----------------------------------------------------------------------------
(* e lists the m places of P from the first to the last. *)
Lists(e, P, m) ==
  /\ e \in [1..m -> P]
  /\ \A i, j \in 1..m : i < j => e[i] < e[j]
  /\ \A p \in P : \E i \in 1..m : e[i] = p

LEMMA Listed ==
  ASSUME NEW P \in SUBSET Nat, NEW m \in Nat, NEW e, Lists(e, P, m)
  PROVE  IsFiniteSet(P) /\ Cardinality(P) = m
<1>1. e \in [1..m -> P]
  BY DEF Lists
<1>2. \A i, j \in 1..m : e[i] = e[j] => i = j
  <2> SUFFICES ASSUME NEW i \in 1..m, NEW j \in 1..m, i # j PROVE e[i] # e[j]
    OBVIOUS
  <2>1. e[i] \in Nat /\ e[j] \in Nat
    BY <1>1
  <2>2. i < j \/ j < i
    OBVIOUS
  <2>3. e[i] < e[j] \/ e[j] < e[i]
    BY <2>2 DEF Lists
  <2>4. QED
    BY <2>1, <2>3
<1>3. e \in Injection(1..m, P)
  BY <1>1, <1>2 DEF Injection, IsInjective
<1>4. e \in Surjection(1..m, P)
  BY <1>1 DEF Surjection, Lists
<1>5. ExistsBijection(1..m, P)
  BY <1>3, <1>4 DEF ExistsBijection, Bijection
<1>6. IsFiniteSet(1..m) /\ Cardinality(1..m) = m
  <2>1. /\ IsFiniteSet(1..m)
        /\ Cardinality(1..m) = IF 1 > m THEN 0 ELSE m - 1 + 1
    BY FS_Interval
  <2>2. QED
    BY <2>1
<1>7. QED
  BY <1>5, <1>6, FS_Bijection

(* Pick takes the elements at the places that are listed. *)
LEMMA PickIs ==
  ASSUME NEW s, NEW P \in SUBSET Nat, NEW m \in Nat, NEW e, Lists(e, P, m)
  PROVE  Pick(s, P) = [n \in 1..m |-> s[e[n]]]
<1> DEFINE Upto(p) == {q \in P : q <= p}
           Place(n) == CHOOSE p \in P : Cardinality(Upto(p)) = n
<1>1. e \in [1..m -> P] /\ \A i \in 1..m : e[i] \in Nat
  BY DEF Lists
<1>2. ASSUME NEW j \in 1..m PROVE Cardinality(Upto(e[j])) = j
  <2> DEFINE d == [i \in 1..j |-> e[i]]
  <2>1. \A i \in 1..j : i \in 1..m /\ i <= j
    OBVIOUS
  <2>2. \A i, k \in 1..m : i <= k => e[i] <= e[k]
    <3> SUFFICES ASSUME NEW i \in 1..m, NEW k \in 1..m, i <= k PROVE e[i] <= e[k]
      OBVIOUS
    <3>1. CASE i = k
      BY <1>1, <3>1
    <3>2. CASE i < k
      <4>1. e[i] < e[k]
        BY <3>2 DEF Lists
      <4>2. QED
        BY <1>1, <4>1
    <3>3. QED
      BY <3>1, <3>2
  <2>3. d \in [1..j -> Upto(e[j])]
    BY <1>1, <2>1, <2>2
  <2>4. \A i, k \in 1..j : i < k => d[i] < d[k]
    BY <2>1 DEF Lists
  <2>5. ASSUME NEW p \in Upto(e[j]) PROVE \E i \in 1..j : d[i] = p
    <3>1. PICK i \in 1..m : e[i] = p
      BY DEF Lists
    <3>2. ~(j < i)
      <4>1. j < i => e[j] < e[i]
        BY DEF Lists
      <4>2. p <= e[j] /\ e[j] \in Nat /\ e[i] \in Nat
        BY <1>1
      <4>3. QED
        BY <3>1, <4>1, <4>2
    <3>3. i \in 1..j
      BY <3>2
    <3>4. QED
      BY <3>1, <3>3
  <2>6. Lists(d, Upto(e[j]), j)
    BY <2>3, <2>4, <2>5 DEF Lists
  <2>7. j \in Nat
    OBVIOUS
  <2>8. Upto(e[j]) \in SUBSET Nat
    BY Zenon
  <2> HIDE DEF d, Upto
  <2>9. QED
    BY <2>6, <2>7, <2>8, Listed
<1>3. ASSUME NEW n \in 1..m PROVE Place(n) = e[n]
  <2>1. e[n] \in P /\ Cardinality(Upto(e[n])) = n
    BY <1>1, <1>2
  <2>2. ASSUME NEW p \in P, Cardinality(Upto(p)) = n PROVE p = e[n]
    <3>1. PICK i \in 1..m : e[i] = p
      BY DEF Lists
    <3>2. i = n
      BY <1>2, <2>2, <3>1
    <3>3. QED
      BY <3>1, <3>2
  <2> HIDE DEF Upto
  <2>3. QED
    BY <2>1, <2>2
<1>4. Cardinality(P) = m
  BY Listed
<1>5. Pick(s, P) = [n \in 1..m |-> s[Place(n)]]
  BY <1>4 DEF Pick
<1> HIDE DEF Place
<1>6. QED
  BY <1>3, <1>5

(* The places of any part of a sequence can be listed. *)
LEMMA Listable ==
  ASSUME NEW N \in Nat, NEW P \in SUBSET (1..N)
  PROVE  \E m \in Nat : \E e : Lists(e, P, m)
<1> DEFINE Good == {k \in Nat : \A Q \in SUBSET (1..k) : \E m \in Nat : \E e : Lists(e, Q, m)}
<1>1. 0 \in Good
  <2>1. ASSUME NEW Q \in SUBSET (1..0) PROVE Lists([i \in 1..0 |-> i], Q, 0)
    BY DEF Lists
  <2>2. QED
    BY <2>1
<1>2. ASSUME NEW k \in Nat, k \in Good PROVE k + 1 \in Good
  <2> SUFFICES ASSUME NEW Q \in SUBSET (1..(k + 1)) PROVE \E m \in Nat : \E e : Lists(e, Q, m)
    OBVIOUS
  <2> DEFINE R == Q \ {k + 1}
  <2>1. R \in SUBSET (1..k)
    OBVIOUS
  <2>2. PICK m \in Nat : \E e : Lists(e, R, m)
    BY <1>2, <2>1
  <2>3. PICK e : Lists(e, R, m)
    BY <2>2
  <2>4. CASE k + 1 \notin Q
    <3>1. R = Q
      BY <2>4
    <3>2. QED
      BY <2>3, <3>1
  <2>5. CASE k + 1 \in Q
    <3> DEFINE d == [i \in 1..(m + 1) |-> IF i <= m THEN e[i] ELSE k + 1]
    <3>1. /\ e \in [1..m -> R] /\ \A i, j \in 1..m : i < j => e[i] < e[j]
          /\ \A p \in R : \E i \in 1..m : e[i] = p
      BY <2>3 DEF Lists
    <3>2. \A i \in 1..m : i \in 1..(m + 1) /\ d[i] = e[i] /\ e[i] \in R
      BY <3>1
    <3>3. m + 1 \in 1..(m + 1) /\ d[m + 1] = k + 1
      OBVIOUS
    <3>4. \A i \in 1..(m + 1) : i \in 1..m \/ i = m + 1
      OBVIOUS
    <3>5. \A x \in R : x \in Nat /\ x < k + 1 /\ x \in Q
      BY <2>1
    <3>6. d \in [1..(m + 1) -> Q]
      <4>1. \A i \in 1..(m + 1) : d[i] \in Q
        <5> HIDE DEF d
        <5>1. QED
          BY <2>5, <3>2, <3>3, <3>4, <3>5
      <4>2. QED
        BY <4>1
    <3> HIDE DEF d
    <3>7. ASSUME NEW i \in 1..(m + 1), NEW j \in 1..(m + 1), i < j PROVE d[i] < d[j]
      <4>1. i \in 1..m
        BY <3>7
      <4>2. CASE j \in 1..m
        BY <3>1, <3>2, <3>7, <4>1, <4>2
      <4>3. CASE j = m + 1
        BY <3>2, <3>3, <3>5, <4>1, <4>3
      <4>4. QED
        BY <3>4, <4>2, <4>3
    <3>8. ASSUME NEW p \in Q PROVE \E i \in 1..(m + 1) : d[i] = p
      <4>1. CASE p = k + 1
        BY <3>3, <4>1
      <4>2. CASE p # k + 1
        <5>1. PICK i \in 1..m : e[i] = p
          BY <3>1, <4>2
        <5>2. QED
          BY <3>2, <5>1
      <4>3. QED
        BY <4>1, <4>2
    <3>9. Lists(d, Q, m + 1)
      BY <3>6, <3>7, <3>8 DEF Lists
    <3>10. m + 1 \in Nat
      OBVIOUS
    <3>11. QED
      BY <3>9, <3>10
  <2>6. QED
    BY <2>4, <2>5
<1>3. \A k \in Nat : k \in Good
  <2>1. Good \in SUBSET Nat
    OBVIOUS
  <2> HIDE DEF Good
  <2>2. QED
    BY <1>1, <1>2, <2>1, Inductive
<1>4. QED
  BY <1>3

(* What Pick takes from a sequence is of its elements. *)
LEMMA PickType ==
  ASSUME NEW S, NEW s \in Seq(S), NEW P \in SUBSET DOMAIN s
  PROVE  Pick(s, P) \in Seq(S)
<1>1. DOMAIN s = 1..Len(s) /\ Len(s) \in Nat
  OBVIOUS
<1>2. PICK m \in Nat : \E e : Lists(e, P, m)
  BY <1>1, Listable
<1>3. PICK e : Lists(e, P, m)
  BY <1>2
<1>4. Pick(s, P) = [n \in 1..m |-> s[e[n]]]
  BY <1>1, <1>3, PickIs
<1>5. \A n \in 1..m : s[e[n]] \in S
  BY <1>1, <1>3 DEF Lists
<1>6. [n \in 1..m |-> s[e[n]]] \in Seq(S)
  BY <1>5
<1>7. QED
  BY <1>4, <1>6

-----------------------------------------------------------------------------
Tokens == Headers \cup Eols \cup {"start", "rewritten"}

(* A header block of n lines, which a blank line ends. *)
Ended(s, n) ==
  /\ s \in Seq(Tokens)
  /\ Len(s) = 2 * n + 1
  /\ \A k \in 1..n : ~IsEol(s[2 * k - 1]) /\ IsEol(s[2 * k])
  /\ IsEol(s[2 * n + 1])

LEMMA Halves ==
  ASSUME NEW p \in Nat
  PROVE  \E k \in Nat : p = 2 * k \/ p = 2 * k + 1
<1>1. p \div 2 \in Nat /\ (p = 2 * (p \div 2) \/ p = 2 * (p \div 2) + 1)
  BY SMT
<1>2. QED
  BY <1>1

(* The places of a block of n lines. *)
LEMMA Places ==
  ASSUME NEW n \in Nat, NEW p \in 1..(2 * n + 1)
  PROVE  \/ \E k \in 1..n : p = 2 * k
         \/ \E k \in 1..n : p = 2 * k - 1
         \/ p = 2 * n + 1
<1>1. PICK k \in Nat : p = 2 * k \/ p = 2 * k + 1
  <2>1. p \in Nat
    OBVIOUS
  <2>2. QED
    BY <2>1, Halves
<1>2. CASE p = 2 * k
  <2>1. k \in 1..n
    BY <1>2
  <2>2. QED
    BY <1>2, <2>1
<1>3. CASE p = 2 * k + 1
  <2>1. k = n \/ (k + 1 \in 1..n /\ p = 2 * (k + 1) - 1)
    BY <1>3
  <2>2. QED
    BY <1>3, <2>1
<1>4. QED
  BY <1>1, <1>2, <1>3

(* A server reads such a block to its end, and as the texts of its lines. *)
LEMMA Reading ==
  ASSUME NEW n \in Nat, NEW s, Ended(s, n)
  PROVE  /\ BlankLines(s) = {2 * n + 1}
         /\ Blank(s) = 2 * n + 1
         /\ Understood(s) = [k \in 1..n |-> s[2 * k - 1]]
<1>1. /\ DOMAIN s = 1..(2 * n + 1) /\ IsEol(s[2 * n + 1])
      /\ \A k \in 1..n : ~IsEol(s[2 * k - 1]) /\ IsEol(s[2 * k])
  BY DEF Ended
<1>2. ASSUME NEW p \in BlankLines(s) PROVE p = 2 * n + 1
  <2>1. p \in 1..(2 * n + 1) /\ IsEol(s[p]) /\ (p = 1 \/ IsEol(s[p - 1]))
    BY <1>1, Zenon DEF BlankLines
  <2>2. ASSUME NEW k \in 1..n, p = 2 * k PROVE FALSE
    <3>1. p # 1 /\ p - 1 = 2 * k - 1
      BY <2>2
    <3>2. QED
      BY <1>1, <2>1, <3>1
  <2>3. QED
    BY <1>1, <2>1, <2>2, Places
<1>3. 2 * n + 1 \in BlankLines(s)
  <2>1. 2 * n + 1 \in 1..(2 * n + 1)
    OBVIOUS
  <2>2. 2 * n + 1 = 1 \/ IsEol(s[2 * n + 1 - 1])
    <3>1. n = 0 \/ (n \in 1..n /\ 2 * n + 1 - 1 = 2 * n)
      OBVIOUS
    <3>2. QED
      BY <1>1, <3>1
  <2>3. QED
    BY <1>1, <2>1, <2>2 DEF BlankLines
<1>4. BlankLines(s) = {2 * n + 1}
  BY <1>2, <1>3, Zenon
<1>5. Blank(s) = 2 * n + 1
  BY <1>4 DEF Blank, Min
<1> DEFINE T == {p \in 1..(2 * n + 1) : ~IsEol(s[p])}
           e == [k \in 1..n |-> 2 * k - 1]
<1>6. \A k \in 1..n : 2 * k - 1 \in 1..(2 * n + 1)
  OBVIOUS
<1>7. e \in [1..n -> T]
  BY <1>1, <1>6
<1>8. \A i, j \in 1..n : i < j => e[i] < e[j]
  OBVIOUS
<1>9. ASSUME NEW p \in T PROVE \E i \in 1..n : e[i] = p
  <2>1. p \in 1..(2 * n + 1) /\ ~IsEol(s[p])
    OBVIOUS
  <2>2. PICK k \in 1..n : p = 2 * k - 1
    BY <1>1, <2>1, Places
  <2>3. QED
    BY <2>2
<1>10. Lists(e, T, n)
  BY <1>7, <1>8, <1>9 DEF Lists
<1>11. T \in SUBSET Nat
  OBVIOUS
<1>12. \A k \in 1..n : e[k] = 2 * k - 1
  OBVIOUS
<1>13. Understood(s) = Pick(s, T)
  BY <1>5 DEF Understood
<1> HIDE DEF T, e
<1>14. Pick(s, T) = [k \in 1..n |-> s[e[k]]]
  BY <1>10, <1>11, PickIs
<1>15. QED
  BY <1>4, <1>5, <1>12, <1>13, <1>14

(* The head of a block: all of it, or its lines without the last line end. *)
LEMMA HeadIs ==
  ASSUME NEW n \in Nat, NEW s, Ended(s, n)
  PROVE  /\ HeadOf(s) = s \/ (n > 0 /\ HeadOf(s) = SubSeq(s, 1, 2 * n - 1))
         /\ n > 0 /\ s[2 * n] = CR /\ s[2 * n + 1] = CR =>
              HeadOf(s) = SubSeq(s, 1, 2 * n - 1)
<1> DEFINE ends == {p \in 1..(Len(s) - 1) : s[p] = CR /\ s[p + 1] = CR}
<1>1. /\ Len(s) = 2 * n + 1
      /\ \A k \in 1..n : ~IsEol(s[2 * k - 1]) /\ IsEol(s[2 * k])
  BY DEF Ended
<1>2. ASSUME NEW p \in ends PROVE p = 2 * n /\ n > 0
  <2>1. p \in 1..(2 * n) /\ p \in 1..(2 * n + 1) /\ IsEol(s[p]) /\ IsEol(s[p + 1])
    BY <1>1 DEF IsEol, Eols
  <2>2. PICK k \in 1..n : p = 2 * k
    <3>1. p # 2 * n + 1
      BY <2>1
    <3>2. QED
      BY <1>1, <2>1, <3>1, Places
  <2>3. k = n \/ (k + 1 \in 1..n /\ p + 1 = 2 * (k + 1) - 1)
    BY <2>2
  <2>4. k = n
    BY <1>1, <2>1, <2>3
  <2>5. QED
    BY <2>2, <2>4
<1>3. n > 0 /\ s[2 * n] = CR /\ s[2 * n + 1] = CR => 2 * n \in ends
  <2>1. n > 0 => 2 * n \in 1..(Len(s) - 1)
    BY <1>1
  <2>2. QED
    BY <2>1
<1>4. ends # {} => n > 0 /\ Min(ends) = 2 * n
  <2> SUFFICES ASSUME ends # {} PROVE n > 0 /\ Min(ends) = 2 * n
    OBVIOUS
  <2>1. n > 0 /\ ends = {2 * n}
    BY <1>2, Zenon
  <2> HIDE DEF ends
  <2>2. QED
    BY <2>1 DEF Min
<1>5. HeadOf(s) = IF ends = {} THEN s ELSE SubSeq(s, 1, Min(ends) - 1)
  BY DEF HeadOf
<1> HIDE DEF ends
<1>6. QED
  BY <1>3, <1>4, <1>5

(* The head and the CRLF after it: a block whose lines are those of s. *)
HeadLines(h, s, n) ==
  /\ h \in Seq(Tokens)
  /\ Len(h) = 2 * n \/ Len(h) = 2 * n + 2
  /\ h[Len(h)] = CR
  /\ \A p \in 1..(Len(h) - 1) : h[p] = s[p]

LEMMA HeadShape ==
  ASSUME NEW n \in Nat \ {0}, NEW s, Ended(s, n)
  PROVE  /\ HeadLines(HeadOf(s) \o <<CR>>, s, n)
         /\ s[2 * n] = CR /\ s[2 * n + 1] = CR => Len(HeadOf(s) \o <<CR>>) = 2 * n
<1>1. s \in Seq(Tokens) /\ Len(s) = 2 * n + 1
  BY DEF Ended
<1>2. CR \in Tokens
  BY DEF Tokens, Eols
<1>3. ASSUME NEW t \in Seq(Tokens)
      PROVE  LET h == t \o <<CR>>
             IN  /\ h \in Seq(Tokens) /\ Len(h) = Len(t) + 1 /\ h[Len(h)] = CR
                 /\ \A p \in 1..Len(t) : h[p] = t[p]
  BY <1>2
<1>4. CASE HeadOf(s) = s /\ ~(s[2 * n] = CR /\ s[2 * n + 1] = CR)
  <2>1. HeadLines(s \o <<CR>>, s, n)
    BY <1>1, <1>3 DEF HeadLines
  <2>2. QED
    BY <1>4, <2>1
<1>5. CASE HeadOf(s) = SubSeq(s, 1, 2 * n - 1)
  <2>1. /\ 2 * n - 1 \in Nat
        /\ \A p \in 1..(2 * n - 1) : p \in 1..Len(s)
    BY <1>1
  <2>2. /\ SubSeq(s, 1, 2 * n - 1) \in Seq(Tokens)
        /\ Len(SubSeq(s, 1, 2 * n - 1)) = 2 * n - 1
        /\ \A p \in 1..(2 * n - 1) : SubSeq(s, 1, 2 * n - 1)[p] = s[p]
    BY <1>1, <2>1
  <2> DEFINE t == SubSeq(s, 1, 2 * n - 1)
  <2> HIDE DEF t
  <2>3. t \in Seq(Tokens) /\ Len(t) = 2 * n - 1 /\ \A p \in 1..(2 * n - 1) : t[p] = s[p]
    BY <2>2 DEF t
  <2>4. HeadOf(s) = t
    BY <1>5 DEF t
  <2>5. HeadLines(t \o <<CR>>, s, n) /\ Len(t \o <<CR>>) = 2 * n
    BY <1>3, <2>3 DEF HeadLines
  <2>6. QED
    BY <2>4, <2>5
<1>6. QED
  BY <1>4, <1>5, HeadIs

(* A text in it is the text of a line of s. *)
LEMMA HeadTexts ==
  ASSUME NEW n \in Nat \ {0}, NEW s, Ended(s, n), NEW h, HeadLines(h, s, n),
         NEW p \in DOMAIN h, ~IsEol(h[p])
  PROVE  \E k \in 1..n : p = 2 * k - 1 /\ h[p] = s[2 * k - 1]
<1>1. p \in 1..Len(h) /\ Len(h) \in Nat /\ (Len(h) = 2 * n \/ Len(h) = 2 * n + 2)
  BY DEF HeadLines
<1>2. p # Len(h)
  BY DEF HeadLines, IsEol, Eols
<1>3. p \in 1..(Len(h) - 1) /\ p \in 1..(2 * n + 1)
  BY <1>1, <1>2
<1>4. h[p] = s[p]
  BY <1>3 DEF HeadLines
<1>5. \E k \in 1..n : p = 2 * k - 1
  <2>1. /\ \A k \in 1..n : IsEol(s[2 * k])
        /\ IsEol(s[2 * n + 1])
    BY DEF Ended
  <2>2. QED
    BY <1>3, <1>4, <2>1, Places
<1>6. QED
  BY <1>4, <1>5

(* A piece is kept to its end. *)
LEMMA KeptToEnd ==
  ASSUME NEW h, NEW L \in Nat, DOMAIN h = 1..L, h[L] = CR, NEW p \in Kept(h)
  PROVE  /\ p \in 2..L
         /\ h[p] # CR => p + 1 \in Kept(h)
<1>1. p \in 1..L
  BY DEF Kept
<1>2. PICK b \in 2..p : /\ h[b - 1] = CR /\ h[b] # "Proxy-Connection"
                        /\ \A c \in b..(p - 1) : h[c] # CR
  BY DEF Kept
<1>3. ASSUME h[p] # CR PROVE p + 1 \in Kept(h)
  <2>1. p + 1 \in 1..L /\ b \in 2..(p + 1)
    BY <1>1, <1>3
  <2>2. \A c \in b..(p + 1 - 1) : h[c] # CR
    <3> SUFFICES ASSUME NEW c \in b..(p + 1 - 1) PROVE h[c] # CR
      OBVIOUS
    <3>1. c = p \/ c \in b..(p - 1)
      BY <1>1
    <3>2. QED
      BY <1>2, <1>3, <3>1
  <2>3. QED
    BY <1>2, <2>1, <2>2 DEF Kept
<1>4. QED
  BY <1>1, <1>2, <1>3

(* What Tidy writes, when e lists the places that are kept. *)
Rewritten(r, h) == r = <<"rewritten", CR>> \o Pick(h, Kept(h)) \o <<CR>>

LEMMA TidyIs ==
  ASSUME NEW h \in Seq(Tokens), NEW m \in Nat, NEW e, Lists(e, Kept(h), m),
         NEW r, Rewritten(r, h)
  PROVE  /\ r \in Seq(Tokens)
         /\ Len(r) = m + 3
         /\ r[1] = "rewritten" /\ r[2] = CR /\ r[m + 3] = CR
         /\ \A i \in 1..m : r[i + 2] = h[e[i]]
<1>1. DOMAIN h = 1..Len(h) /\ Len(h) \in Nat
  OBVIOUS
<1>2. Kept(h) \in SUBSET DOMAIN h /\ Kept(h) \in SUBSET Nat
  BY <1>1 DEF Kept
<1>3. Pick(h, Kept(h)) \in Seq(Tokens)
  BY <1>2, PickType
<1>4. Pick(h, Kept(h)) = [i \in 1..m |-> h[e[i]]]
  <2>1. m \in Nat /\ Lists(e, Kept(h), m)
    OBVIOUS
  <2>2. QED
    BY ONLY <1>2, <2>1, PickIs
<1>5. PICK o : o = Pick(h, Kept(h))
  OBVIOUS
<1>6. /\ o \in Seq(Tokens) /\ DOMAIN o = 1..m
      /\ \A i \in 1..m : o[i] = h[e[i]]
  BY <1>3, <1>4, <1>5
<1>7. Len(o) = m
  BY <1>6
<1>8. r = <<"rewritten", CR>> \o o \o <<CR>>
  BY <1>5 DEF Rewritten
<1>9. <<"rewritten", CR>> \in Seq(Tokens) /\ <<CR>> \in Seq(Tokens)
  BY DEF Tokens, Eols
<1>10. PICK q : q = <<"rewritten", CR>> \o o
  OBVIOUS
<1>11. q \in Seq(Tokens) /\ Len(q) = m + 2
  BY <1>6, <1>7, <1>9, <1>10
<1>12. q[1] = "rewritten" /\ q[2] = CR /\ \A i \in 1..m : q[i + 2] = h[e[i]]
  <2>1. ASSUME NEW i \in 1..m PROVE q[i + 2] = o[i]
    BY <1>6, <1>7, <1>9, <1>10
  <2>2. q[1] = "rewritten" /\ q[2] = CR
    BY <1>6, <1>7, <1>9, <1>10
  <2>3. QED
    BY <1>6, <2>1, <2>2
<1>13. /\ q \o <<CR>> \in Seq(Tokens) /\ Len(q \o <<CR>>) = m + 3
       /\ (q \o <<CR>>)[m + 3] = CR
       /\ \A j \in 1..(m + 2) : (q \o <<CR>>)[j] = q[j]
  BY <1>9, <1>11
<1>14. 1 \in 1..(m + 2) /\ 2 \in 1..(m + 2) /\ \A i \in 1..m : i + 2 \in 1..(m + 2)
  OBVIOUS
<1>15. QED
  BY <1>8, <1>10, <1>12, <1>13, <1>14

LEMMA TailIs ==
  ASSUME NEW S, NEW u \in Seq(S), NEW d \in Nat, Len(u) = d + 1
  PROVE  Tail(u) = [i \in 1..d |-> u[i + 1]]
<1>1. Tail(u) \in Seq(S) /\ Len(Tail(u)) = d
  OBVIOUS
<1>2. \A i \in 1..d : Tail(u)[i] = u[i + 1]
  OBVIOUS
<1>3. PICK v : v = Tail(u)
  OBVIOUS
<1>4. v \in Seq(S) /\ DOMAIN v = 1..d
  BY <1>1, <1>3
<1>5. v = [i \in DOMAIN v |-> v[i]]
  BY <1>4
<1>6. QED
  BY <1>2, <1>3, <1>4, <1>5

(* The places Tidy keeps can be listed, and the last of them is a CRLF. *)
LEMMA KeptListed ==
  ASSUME NEW h \in Seq(Tokens), Len(h) > 0, h[Len(h)] = CR
  PROVE  \E m \in Nat : \E e : /\ Lists(e, Kept(h), m)
                               /\ \A i \in 1..m : e[i] \in 2..Len(h)
                               /\ m > 0 => h[e[m]] = CR
<1>1. PICK L \in Nat : L = Len(h)
  OBVIOUS
<1>2. DOMAIN h = 1..L /\ h[L] = CR
  BY <1>1
<1>3. Kept(h) \in SUBSET (1..L)
  BY <1>2 DEF Kept
<1>4. PICK m \in Nat : \E e : Lists(e, Kept(h), m)
  BY <1>3, Listable
<1>5. PICK e : Lists(e, Kept(h), m)
  BY <1>4
<1>6. /\ e \in [1..m -> Kept(h)]
      /\ \A i, j \in 1..m : i < j => e[i] < e[j]
      /\ \A p \in Kept(h) : \E i \in 1..m : e[i] = p
  BY <1>5 DEF Lists
<1>7. \A i \in 1..m : e[i] \in 2..L
  BY <1>2, <1>6, KeptToEnd
<1>8. ASSUME m > 0 PROVE h[e[m]] = CR
  <2>1. m \in 1..m /\ e[m] \in Kept(h) /\ e[m] \in Nat
    BY <1>6, <1>7, <1>8
  <2>2. ASSUME h[e[m]] # CR PROVE FALSE
    <3>1. e[m] + 1 \in Kept(h)
      BY <1>2, <2>1, <2>2, KeptToEnd
    <3>2. PICK i \in 1..m : e[i] = e[m] + 1
      BY <1>6, <3>1
    <3>3. i = m \/ i < m
      OBVIOUS
    <3>4. e[i] = e[m] \/ e[i] < e[m]
      BY <1>6, <2>1, <3>3
    <3>5. QED
      BY <2>1, <3>2, <3>4
  <2>3. QED
    BY <2>2
<1>9. QED
  BY <1>1, <1>5, <1>7, <1>8

(* What a server reads in a block that begins with a request line and its end
   and ends in a blank line: the request line first, and then lines that are in
   the part after it, in their order. *)
LEMMA ReadingRest ==
  ASSUME NEW m \in Nat, NEW r \in Seq(Tokens), Len(r) = m + 3,
         ~IsEol(r[1]), IsEol(r[2]), IsEol(r[m + 2]), IsEol(r[m + 3])
  PROVE  /\ BlankLines(r) # {}
         /\ \E c \in Nat : \E o \in [1..c -> 1..m] :
              /\ \A i, j \in 1..c : i < j => o[i] < o[j]
              /\ \A i \in 1..c : ~IsEol(r[o[i] + 2])
              /\ Head(Understood(r)) = r[1]
              /\ Tail(Understood(r)) = [i \in 1..c |-> r[o[i] + 2]]
<1>1. DOMAIN r = 1..(m + 3)
  OBVIOUS
<1>2. m + 3 \in BlankLines(r)
  <2>1. m + 3 \in 1..(m + 3) /\ m + 3 - 1 = m + 2
    OBVIOUS
  <2>2. QED
    BY <1>1, <2>1 DEF BlankLines
<1>3. BlankLines(r) \in SUBSET (1..(m + 3)) /\ BlankLines(r) \in SUBSET Nat
  BY <1>1 DEF BlankLines
<1>4. PICK B \in BlankLines(r) : \A x \in BlankLines(r) : B <= x
  BY <1>2, <1>3, Least
<1>5. PICK D : D = Blank(r)
  OBVIOUS
<1>6. D \in BlankLines(r)
  BY <1>4, <1>5 DEF Blank, Min
<1>7. D \in 1..(m + 3)
  BY <1>3, <1>6
<1>8. PICK T : T = {p \in 1..D : ~IsEol(r[p])}
  OBVIOUS
<1>9. /\ T \in SUBSET (1..(m + 3)) /\ T \in SUBSET Nat
      /\ \A p \in T : p \in 1..(m + 3)
  BY <1>7, <1>8
<1>10. PICK c \in Nat : \E o : Lists(o, T, c)
  <2>1. m + 3 \in Nat
    OBVIOUS
  <2>2. QED
    BY <1>9, <2>1, Listable
<1>11. PICK o : Lists(o, T, c)
  BY <1>10
<1>12. /\ o \in [1..c -> T]
       /\ \A i, j \in 1..c : i < j => o[i] < o[j]
       /\ \A p \in T : \E i \in 1..c : o[i] = p
  BY <1>11 DEF Lists
<1>12a. \A i \in 1..c : o[i] \in 1..(m + 3)
  <2>1. \A i \in 1..c : o[i] \in T
    BY <1>12
  <2>2. QED
    BY <1>9, <2>1
<1>13. Understood(r) = [i \in 1..c |-> r[o[i]]]
  <2>1. Understood(r) = Pick(r, T)
    BY <1>5, <1>8 DEF Understood
  <2>2. QED
    BY <1>9, <1>11, <2>1, PickIs
<1>14. 1 \in T
  BY <1>7, <1>8
<1>15. c > 0 /\ o[1] = 1
  <2>1. PICK i \in 1..c : o[i] = 1
    BY <1>12, <1>14
  <2>2. c > 0 /\ 1 \in 1..c /\ (i = 1 \/ 1 < i)
    BY <2>1
  <2>3. o[1] \in Nat /\ o[1] >= 1
    BY <1>12a, <2>2
  <2>4. 1 < i => o[1] < o[i]
    BY <1>12, <2>2
  <2>5. QED
    BY <2>1, <2>2, <2>3, <2>4
<1>16. ASSUME NEW i \in 1..(c - 1)
       PROVE  o[i + 1] - 2 \in 1..m /\ ~IsEol(r[o[i + 1]]) /\ o[i + 1] \in Nat
  <2>1. i + 1 \in 1..c /\ 1 \in 1..c /\ 1 < i + 1
    BY <1>15
  <2>2. o[1] < o[i + 1] /\ o[i + 1] \in T
    BY <1>12, <2>1
  <2>3. ~IsEol(r[o[i + 1]]) /\ o[i + 1] \in 1..(m + 3) /\ o[i + 1] > 1
    BY <1>8, <1>9, <1>15, <2>2
  <2>4. o[i + 1] # 2 /\ o[i + 1] # m + 3 /\ o[i + 1] # m + 2
    BY <2>3
  <2>5. PICK x : x = o[i + 1]
    OBVIOUS
  <2>6. x - 2 \in 1..m /\ x \in Nat
    BY <2>3, <2>4, <2>5
  <2>7. QED
    BY <2>3, <2>5, <2>6
<1>17. PICK d : d \in Nat /\ c = d + 1
  <2>1. c - 1 \in Nat /\ c = (c - 1) + 1
    BY <1>15
  <2>2. QED
    BY <2>1
<1>18. PICK q : q = [i \in 1..d |-> o[i + 1] - 2]
  OBVIOUS
<1>19. q \in [1..d -> 1..m]
  BY <1>16, <1>17, <1>18
<1>20. \A i \in 1..d : q[i] + 2 = o[i + 1] /\ ~IsEol(r[o[i + 1]])
  BY <1>16, <1>17, <1>18
<1>21. ASSUME NEW i \in 1..d, NEW j \in 1..d, i < j PROVE q[i] < q[j]
  <2>1. i + 1 \in 1..c /\ j + 1 \in 1..c /\ i + 1 < j + 1
    BY <1>17, <1>21
  <2>2. o[i + 1] < o[j + 1]
    BY <1>12, <2>1
  <2>3. q[i] + 2 = o[i + 1] /\ q[j] + 2 = o[j + 1]
    BY <1>20
  <2>4. q[i] \in 1..m /\ q[j] \in 1..m
    BY <1>19
  <2>5. QED
    BY ONLY <2>2, <2>3, <2>4, m \in Nat
<1>22. Head(Understood(r)) = r[1]
  BY <1>13, <1>15
<1>23. Tail(Understood(r)) = [i \in 1..d |-> r[q[i] + 2]]
  <2>1. PICK u : u = [i \in 1..c |-> r[o[i]]]
    OBVIOUS
  <2>2. \A i \in 1..c : r[o[i]] \in Tokens
    BY <1>1, <1>12a
  <2>3. u \in Seq(Tokens) /\ Len(u) = c /\ u # <<>>
    BY <1>15, <2>1, <2>2
  <2>4. Tail(u) = [i \in 1..d |-> u[i + 1]]
    BY <1>17, <2>3, TailIs
  <2>5. \A i \in 1..d : u[i + 1] = r[q[i] + 2]
    BY <1>17, <1>20, <2>1
  <2>6. [i \in 1..d |-> u[i + 1]] = [i \in 1..d |-> r[q[i] + 2]]
    BY ONLY <2>5
  <2>7. Understood(r) = u
    BY <1>13, <2>1, Zenon
  <2>8. QED
    BY ONLY <2>4, <2>6, <2>7, Zenon
<1>24. QED
  BY <1>2, <1>17, <1>19, <1>20, <1>21, <1>22, <1>23

(* The header lines of a block are those after the request line. *)
LEMMA HeaderLines ==
  ASSUME NEW n \in Nat \ {0}, NEW s, Ended(s, n)
  PROVE  Tail(Understood(s)) = [k \in 1..(n - 1) |-> s[2 * k + 1]]
<1>1. s \in Seq(Tokens) /\ Len(s) = 2 * n + 1 /\ n \in Nat
  BY DEF Ended
<1>2. PICK u : u = [k \in 1..n |-> s[2 * k - 1]]
  OBVIOUS
<1>3. \A k \in 1..n : 2 * k - 1 \in 1..Len(s)
  BY <1>1
<1>4. \A k \in 1..n : s[2 * k - 1] \in Tokens
  BY <1>1, <1>3
<1>5. u \in Seq(Tokens) /\ Len(u) = n
  BY <1>1, <1>2, <1>4
<1>6. PICK d \in Nat : n = d + 1
  <2>1. n - 1 \in Nat /\ n = (n - 1) + 1
    OBVIOUS
  <2>2. QED
    BY <2>1
<1>7. Tail(u) = [k \in 1..d |-> u[k + 1]]
  BY <1>5, <1>6, TailIs
<1>8. ASSUME NEW k \in 1..d PROVE u[k + 1] = s[2 * k + 1]
  <2>1. k + 1 \in 1..n /\ 2 * (k + 1) - 1 = 2 * k + 1
    BY <1>6
  <2>2. u[k + 1] = s[2 * (k + 1) - 1]
    BY <1>2, <2>1
  <2>3. QED
    BY <2>1, <2>2
<1>9. Understood(s) = u
  BY <1>1, <1>2, Reading
<1>10. n - 1 = d
  BY <1>6
<1>11. QED
  BY <1>7, <1>8, <1>9, <1>10

(* Whatever the line ends are, what Tidy makes of a block is a block whose first
   line is the new request line, and whose headers are some of the client's. *)
LEMMA TidyKeepsOrder ==
  ASSUME NEW n \in Nat \ {0}, NEW s, Ended(s, n)
  PROVE  /\ Tidy(s) \in Seq(Tokens)
         /\ BlankLines(Tidy(s)) # {}
         /\ Head(Understood(Tidy(s))) = "rewritten"
         /\ Subsequence(Tail(Understood(Tidy(s))), Tail(Understood(s)))
<1>1. PICK h : h = HeadOf(s) \o <<CR>>
  OBVIOUS
<1>2. HeadLines(h, s, n)
  BY <1>1, HeadShape
<1>3. h \in Seq(Tokens) /\ Len(h) > 0 /\ h[Len(h)] = CR
  BY <1>2 DEF HeadLines
<1>4. PICK m \in Nat : \E e : /\ Lists(e, Kept(h), m)
                              /\ \A i \in 1..m : e[i] \in 2..Len(h)
                              /\ m > 0 => h[e[m]] = CR
  BY <1>3, KeptListed
<1>5. PICK e : /\ Lists(e, Kept(h), m)
               /\ \A i \in 1..m : e[i] \in 2..Len(h)
               /\ m > 0 => h[e[m]] = CR
  BY <1>4
<1>6. PICK r : r = Tidy(s)
  OBVIOUS
<1>7. /\ r \in Seq(Tokens) /\ Len(r) = m + 3
      /\ r[1] = "rewritten" /\ r[2] = CR /\ r[m + 3] = CR
      /\ \A i \in 1..m : r[i + 2] = h[e[i]]
  <2>1. Rewritten(r, h)
    BY <1>1, <1>6 DEF Tidy, Rewritten
  <2>2. h \in Seq(Tokens) /\ m \in Nat /\ Lists(e, Kept(h), m)
    BY <1>3, <1>5
  <2>3. QED
    BY ONLY <2>1, <2>2, TidyIs
<1>8. r[m + 2] = CR
  <2>1. m = 0 \/ m \in 1..m
    OBVIOUS
  <2>2. QED
    BY <1>5, <1>7, <2>1
<1>9. ~IsEol(r[1]) /\ IsEol(r[2]) /\ IsEol(r[m + 2]) /\ IsEol(r[m + 3])
  BY <1>7, <1>8 DEF IsEol, Eols, CR, LF
<1>10. /\ BlankLines(r) # {}
       /\ \E c \in Nat : \E o \in [1..c -> 1..m] :
            /\ \A i, j \in 1..c : i < j => o[i] < o[j]
            /\ \A i \in 1..c : ~IsEol(r[o[i] + 2])
            /\ Head(Understood(r)) = r[1]
            /\ Tail(Understood(r)) = [i \in 1..c |-> r[o[i] + 2]]
  BY <1>7, <1>9, ReadingRest
<1>11. PICK c \in Nat : \E o \in [1..c -> 1..m] :
            /\ \A i, j \in 1..c : i < j => o[i] < o[j]
            /\ \A i \in 1..c : ~IsEol(r[o[i] + 2])
            /\ Head(Understood(r)) = r[1]
            /\ Tail(Understood(r)) = [i \in 1..c |-> r[o[i] + 2]]
  BY <1>10
<1>12. PICK o \in [1..c -> 1..m] :
            /\ \A i, j \in 1..c : i < j => o[i] < o[j]
            /\ \A i \in 1..c : ~IsEol(r[o[i] + 2])
            /\ Head(Understood(r)) = r[1]
            /\ Tail(Understood(r)) = [i \in 1..c |-> r[o[i] + 2]]
  BY <1>11
<1>13. \A i \in 1..c : o[i] \in 1..m /\ r[o[i] + 2] = h[e[o[i]]]
  BY <1>7
<1> DEFINE q == [i \in 1..c |-> e[o[i]]]
<1>14. \A i \in 1..c : q[i] \in 2..Len(h) /\ r[o[i] + 2] = h[q[i]] /\ ~IsEol(h[q[i]])
  BY <1>5, <1>12, <1>13
<1>15. ASSUME NEW i \in 1..c, NEW j \in 1..c, i < j PROVE q[i] < q[j]
  <2>1. o[i] \in 1..m /\ o[j] \in 1..m /\ o[i] < o[j]
    BY <1>12, <1>15
  <2>2. e[o[i]] < e[o[j]]
    BY <1>5, <2>1 DEF Lists
  <2>3. QED
    BY <2>2
<1> HIDE DEF q
<1>16. ASSUME NEW i \in 1..c
       PROVE  \E k \in 1..(n - 1) : q[i] = 2 * k + 1 /\ h[q[i]] = s[2 * k + 1]
  <2>1. q[i] \in DOMAIN h /\ q[i] \in Nat /\ q[i] > 1 /\ ~IsEol(h[q[i]])
    BY <1>3, <1>14
  <2>2. PICK k \in 1..n : q[i] = 2 * k - 1 /\ h[q[i]] = s[2 * k - 1]
    BY <1>2, <2>1, HeadTexts
  <2>3. k - 1 \in 1..(n - 1) /\ 2 * (k - 1) + 1 = 2 * k - 1
    BY <2>1, <2>2
  <2>4. QED
    BY <2>2, <2>3
<1> DEFINE F(i) == CHOOSE k \in 1..(n - 1) : q[i] = 2 * k + 1 /\ h[q[i]] = s[2 * k + 1]
           f == [i \in 1..c |-> F(i)]
<1>17. \A i \in 1..c : F(i) \in 1..(n - 1) /\ q[i] = 2 * F(i) + 1 /\ h[q[i]] = s[2 * F(i) + 1]
  BY <1>16
<1> HIDE DEF F
<1>18. f \in [1..c -> 1..(n - 1)]
  BY <1>17
<1>19. \A i \in 1..c : f[i] \in 1..(n - 1) /\ q[i] = 2 * f[i] + 1 /\ h[q[i]] = s[2 * f[i] + 1]
  BY <1>17
<1> HIDE DEF f
<1>20. ASSUME NEW i \in 1..c, NEW j \in 1..c, i < j PROVE f[i] < f[j]
  <2>1. q[i] < q[j]
    BY <1>15, <1>20
  <2>2. f[i] \in Int /\ f[j] \in Int /\ 2 * f[i] + 1 < 2 * f[j] + 1
    BY <1>19, <2>1
  <2>3. QED
    BY <2>2
<1>21. PICK a : a = Tail(Understood(r))
  OBVIOUS
<1>22. PICK b : b = Tail(Understood(s))
  OBVIOUS
<1>23. a = [i \in 1..c |-> r[o[i] + 2]] /\ b = [k \in 1..(n - 1) |-> s[2 * k + 1]]
  BY <1>12, <1>21, <1>22, HeaderLines
<1>24. DOMAIN a = 1..c /\ DOMAIN b = 1..(n - 1)
  BY <1>23
<1>25. \A i \in 1..c : a[i] = h[q[i]]
  BY <1>14, <1>23
<1>26. \A k \in 1..(n - 1) : b[k] = s[2 * k + 1]
  BY <1>23
<1>27. \A i \in 1..c : a[i] = b[f[i]]
  BY <1>19, <1>25, <1>26
<1>28. Subsequence(a, b)
  BY <1>18, <1>20, <1>24, <1>27 DEF Subsequence
<1>29. QED
  BY <1>6, <1>7, <1>10, <1>12, <1>21, <1>22, <1>28

(* A head whose lines all end in CRLF: the pieces are the lines. *)
CrlfLines(h, n) ==
  /\ h \in Seq(Tokens) /\ Len(h) = 2 * n
  /\ \A k \in 1..n : ~IsEol(h[2 * k - 1]) /\ h[2 * k] = CR

(* The header lines of it that are not Proxy-Connection. *)
Others(h, n) == {k \in 1..(n - 1) : h[2 * k + 1] # "Proxy-Connection"}

(* K has the places of the lines of G, each with its CRLF. *)
Pairs(K, G) ==
  /\ \A p \in K : \E k \in G : p = 2 * k + 1 \/ p = 2 * k + 2
  /\ \A k \in G : 2 * k + 1 \in K /\ 2 * k + 2 \in K

(* They are what is kept. *)
LEMMA KeptIs ==
  ASSUME NEW n \in Nat \ {0}, NEW h, CrlfLines(h, n)
  PROVE  Pairs(Kept(h), Others(h, n))
<1>1. /\ DOMAIN h = 1..(2 * n)
      /\ \A k \in 1..n : ~IsEol(h[2 * k - 1]) /\ h[2 * k] = CR
  BY DEF CrlfLines
<1>2. \A k \in 1..n : h[2 * k - 1] # CR
  BY <1>1 DEF IsEol, Eols
<1>3. ASSUME NEW p \in Kept(h)
      PROVE  \E k \in Others(h, n) : p = 2 * k + 1 \/ p = 2 * k + 2
  <2>1. p \in 1..(2 * n)
    BY <1>1 DEF Kept
  <2>2. PICK b \in 2..p : /\ h[b - 1] = CR /\ h[b] # "Proxy-Connection"
                          /\ \A c \in b..(p - 1) : h[c] # CR
    BY DEF Kept
  <2>3. b - 1 \in 1..(2 * n + 1) /\ b - 1 # 2 * n + 1 /\ b \in Int
    BY <2>1
  <2>4. PICK k \in 1..n : b - 1 = 2 * k
    BY <1>2, <2>2, <2>3, Places
  <2>5. b = 2 * k + 1 /\ k \in 1..(n - 1)
    BY <2>1, <2>3, <2>4
  <2>6. k \in Others(h, n)
    BY <2>2, <2>5 DEF Others
  <2>7. p = 2 * k + 1 \/ p = 2 * k + 2
    <3>1. k + 1 \in 1..n /\ 2 * (k + 1) = 2 * k + 2
      BY <2>5
    <3>2. h[2 * k + 2] = CR
      BY <1>1, <3>1
    <3>3. ~(2 * k + 2 \in b..(p - 1))
      BY <2>2, <3>2
    <3>4. QED
      BY <2>1, <2>5, <3>3
  <2>8. QED
    BY <2>6, <2>7
<1>4. ASSUME NEW k \in Others(h, n) PROVE 2 * k + 1 \in Kept(h) /\ 2 * k + 2 \in Kept(h)
  <2>1. k \in 1..(n - 1) /\ k \in 1..n /\ h[2 * k + 1] # "Proxy-Connection"
    BY DEF Others
  <2>2. /\ 2 * k + 1 \in 1..(2 * n) /\ 2 * k + 2 \in 1..(2 * n)
        /\ 2 * k + 1 - 1 = 2 * k
    BY <2>1
  <2>3. h[2 * k + 1] # CR
    <3>1. k + 1 \in 1..n /\ 2 * (k + 1) - 1 = 2 * k + 1
      BY <2>1
    <3>2. QED
      BY <1>2, <3>1
  <2>4. h[2 * k + 1 - 1] = CR
    BY <1>1, <2>1, <2>2
  <2>5. PICK b : b = 2 * k + 1
    OBVIOUS
  <2>6. /\ b \in Int /\ h[b - 1] = CR /\ h[b] # "Proxy-Connection" /\ h[b] # CR
        /\ b \in 2..b /\ b \in 2..(b + 1)
        /\ b \in DOMAIN h /\ b + 1 \in DOMAIN h /\ b + 1 = 2 * k + 2
    BY <1>1, <2>1, <2>2, <2>3, <2>4, <2>5
  <2>7. b \in Kept(h)
    BY <2>6 DEF Kept
  <2>8. b + 1 \in Kept(h)
    <3>1. \A c \in b..(b + 1 - 1) : c = b
      BY <2>6
    <3>2. \A c \in b..(b + 1 - 1) : h[c] # CR
      BY <2>6, <3>1, Zenon
    <3>3. QED
      BY <2>6, <3>2 DEF Kept
  <2>9. QED
    BY <2>5, <2>6, <2>7, <2>8
<1>5. QED
  BY <1>3, <1>4 DEF Pairs

(* e lists the places of the lines that g lists. *)
PairsAt(e, g, m) ==
  \A j \in 1..m : e[2 * j - 1] = 2 * g[j] + 1 /\ e[2 * j] = 2 * g[j] + 2

(* A list of those lines gives one of the places that are kept. *)
LEMMA PairsListed ==
  ASSUME NEW m \in Nat, NEW G \in SUBSET Nat, NEW g, Lists(g, G, m), NEW K \in SUBSET Nat,
         Pairs(K, G)
  PROVE  \E e : Lists(e, K, 2 * m) /\ PairsAt(e, g, m)
<1>1. /\ \A j \in 1..m : g[j] \in G /\ g[j] \in Nat
      /\ \A i, j \in 1..m : i < j => g[i] < g[j]
      /\ \A k \in G : \E j \in 1..m : g[j] = k
  BY DEF Lists
<1> DEFINE J(i) == (i + 1) \div 2
           e == [i \in 1..(2 * m) |-> IF i = 2 * J(i) THEN 2 * g[J(i)] + 2 ELSE 2 * g[J(i)] + 1]
<1>2. \A j \in 1..m : J(2 * j) = j /\ J(2 * j - 1) = j
  BY SMT
<1>3. ASSUME NEW j \in 1..m PROVE e[2 * j - 1] = 2 * g[j] + 1 /\ e[2 * j] = 2 * g[j] + 2
  <2>1. 2 * j \in 1..(2 * m) /\ 2 * j - 1 \in 1..(2 * m) /\ 2 * j - 1 # 2 * j
    OBVIOUS
  <2> HIDE DEF J
  <2>2. QED
    BY <1>2, <2>1
<1> HIDE DEF J
<1>4. DOMAIN e = 1..(2 * m) /\ e = [i \in 1..(2 * m) |-> e[i]]
  OBVIOUS
<1> HIDE DEF e
<1>5. ASSUME NEW i \in 1..(2 * m) PROVE \E j \in 1..m : i = 2 * j \/ i = 2 * j - 1
  <2>1. i \in 1..(2 * m + 1) /\ i # 2 * m + 1
    OBVIOUS
  <2>2. QED
    BY <2>1, Places
<1>6. ASSUME NEW i \in 1..(2 * m) PROVE e[i] \in K
  <2>1. PICK j \in 1..m : i = 2 * j \/ i = 2 * j - 1
    BY <1>5
  <2>2. e[i] = 2 * g[j] + 2 \/ e[i] = 2 * g[j] + 1
    BY <1>3, <2>1
  <2>3. 2 * g[j] + 1 \in K /\ 2 * g[j] + 2 \in K
    BY <1>1 DEF Pairs
  <2>4. QED
    BY <2>2, <2>3
<1>7. e \in [1..(2 * m) -> K]
  BY <1>4, <1>6
<1>8. ASSUME NEW x \in 1..(2 * m), NEW y \in 1..(2 * m), x < y PROVE e[x] < e[y]
  <2>1. PICK i \in 1..m : x = 2 * i \/ x = 2 * i - 1
    BY <1>5
  <2>2. PICK j \in 1..m : y = 2 * j \/ y = 2 * j - 1
    BY <1>5
  <2>3. /\ (x = 2 * i /\ e[x] = 2 * g[i] + 2) \/ (x = 2 * i - 1 /\ e[x] = 2 * g[i] + 1)
        /\ (y = 2 * j /\ e[y] = 2 * g[j] + 2) \/ (y = 2 * j - 1 /\ e[y] = 2 * g[j] + 1)
    BY <1>3, <2>1, <2>2
  <2>4. g[i] \in Nat /\ g[j] \in Nat /\ (i < j => g[i] < g[j])
    BY <1>1
  <2>5. i < j \/ (i = j /\ x = 2 * i - 1 /\ y = 2 * j)
    BY <1>8, <2>1, <2>2
  <2>6. QED
    BY <2>3, <2>4, <2>5
<1>9. ASSUME NEW p \in K PROVE \E i \in 1..(2 * m) : e[i] = p
  <2>1. PICK k \in G : p = 2 * k + 1 \/ p = 2 * k + 2
    BY DEF Pairs
  <2>2. PICK j \in 1..m : g[j] = k
    BY <1>1
  <2>3. 2 * j \in 1..(2 * m) /\ 2 * j - 1 \in 1..(2 * m)
    OBVIOUS
  <2>4. QED
    BY <1>3, <2>1, <2>2, <2>3
<1>10. Lists(e, K, 2 * m)
  BY <1>7, <1>8, <1>9 DEF Lists
<1>11. PairsAt(e, g, m)
  BY <1>3 DEF PairsAt
<1>12. QED
  BY <1>10, <1>11

(* a is b without Proxy-Connection. *)
OnlyDropped(a, b) == a = Pick(b, {p \in DOMAIN b : b[p] # "Proxy-Connection"})

(* When every line ends in CRLF, the headers of the new block are the client's
   without Proxy-Connection, and the blank line is the end of it. *)
LEMMA TidyDropsOnly ==
  ASSUME NEW n \in Nat \ {0}, NEW s, Ended(s, n), \A p \in DOMAIN s : s[p] # LF
  PROVE  /\ OnlyDropped(Tail(Understood(Tidy(s))), Tail(Understood(s)))
         /\ Blank(Tidy(s)) = Len(Tidy(s))
<1>1. PICK h : h = HeadOf(s) \o <<CR>>
  OBVIOUS
<1>2. /\ s \in Seq(Tokens) /\ Len(s) = 2 * n + 1 /\ DOMAIN s = 1..(2 * n + 1)
      /\ \A k \in 1..n : ~IsEol(s[2 * k - 1]) /\ IsEol(s[2 * k])
      /\ IsEol(s[2 * n + 1])
  BY DEF Ended
<1>3. (\A k \in 1..n : s[2 * k] = CR) /\ s[2 * n + 1] = CR
  <2>1. \A k \in 1..n : 2 * k \in 1..(2 * n + 1)
    OBVIOUS
  <2>2. 2 * n + 1 \in 1..(2 * n + 1)
    OBVIOUS
  <2>3. \A p \in 1..(2 * n + 1) : IsEol(s[p]) => s[p] = CR
    BY <1>2 DEF IsEol, Eols
  <2>4. QED
    BY <1>2, <2>1, <2>2, <2>3
<1>4. HeadLines(h, s, n) /\ Len(h) = 2 * n
  <2>1. n \in 1..n
    OBVIOUS
  <2>2. QED
    BY <1>1, <1>3, <2>1, HeadShape
<1>5. /\ h \in Seq(Tokens) /\ h[2 * n] = CR
      /\ \A p \in 1..(2 * n - 1) : h[p] = s[p]
  BY <1>4 DEF HeadLines
<1>6. CrlfLines(h, n)
  <2>1. ASSUME NEW k \in 1..n PROVE ~IsEol(h[2 * k - 1]) /\ h[2 * k] = CR
    <3>1. 2 * k - 1 \in 1..(2 * n - 1) /\ (k = n \/ 2 * k \in 1..(2 * n - 1))
      OBVIOUS
    <3>2. QED
      BY <1>2, <1>3, <1>5, <3>1
  <2>2. QED
    BY <1>4, <1>5, <2>1 DEF CrlfLines
<1>7. PICK G : G = Others(h, n)
  OBVIOUS
<1>8. \A k \in 1..(n - 1) : h[2 * k + 1] = s[2 * k + 1]
  <2>1. \A k \in 1..(n - 1) : 2 * k + 1 \in 1..(2 * n - 1)
    OBVIOUS
  <2>2. QED
    BY <1>5, <2>1
<1>9. n - 1 \in Nat /\ G \in SUBSET (1..(n - 1)) /\ G \in SUBSET Nat
  BY <1>7 DEF Others
<1>10. PICK m \in Nat : \E g : Lists(g, G, m)
  BY <1>9, Listable
<1>11. PICK g : Lists(g, G, m)
  BY <1>10
<1>12. \A j \in 1..m : g[j] \in G /\ g[j] \in 1..(n - 1)
  BY <1>9, <1>11 DEF Lists
<1>13. PICK K : K = Kept(h)
  OBVIOUS
<1>14. K \in SUBSET Nat
  BY <1>5, <1>13 DEF Kept
<1>15. Pairs(K, G)
  BY <1>6, <1>7, <1>13, KeptIs
<1>16. PICK e : Lists(e, K, 2 * m) /\ PairsAt(e, g, m)
  <2>1. m \in Nat
    OBVIOUS
  <2>2. QED
    BY ONLY <1>9, <1>11, <1>14, <1>15, <2>1, PairsListed
<1>17. PICK r : r = Tidy(s)
  OBVIOUS
<1>18. /\ r \in Seq(Tokens) /\ Len(r) = 2 * m + 3
       /\ r[1] = "rewritten" /\ r[2] = CR /\ r[2 * m + 3] = CR
       /\ \A i \in 1..(2 * m) : r[i + 2] = h[e[i]]
  <2>1. Rewritten(r, h)
    BY <1>1, <1>17 DEF Tidy, Rewritten
  <2>2. h \in Seq(Tokens) /\ 2 * m \in Nat /\ Lists(e, Kept(h), 2 * m)
    BY <1>5, <1>13, <1>16
  <2>3. QED
    BY ONLY <2>1, <2>2, TidyIs
<1>19. ASSUME NEW j \in 1..m
       PROVE  r[2 * j + 1] = s[2 * g[j] + 1] /\ ~IsEol(r[2 * j + 1]) /\ r[2 * j + 2] = CR
  <2>1. 2 * j - 1 \in 1..(2 * m) /\ 2 * j \in 1..(2 * m) /\ (2 * j - 1) + 2 = 2 * j + 1
    OBVIOUS
  <2>2. r[2 * j + 1] = h[e[2 * j - 1]] /\ r[2 * j + 2] = h[e[2 * j]]
    BY <1>18, <2>1
  <2>3. r[2 * j + 1] = h[2 * g[j] + 1] /\ r[2 * j + 2] = h[2 * g[j] + 2]
    BY <1>16, <2>2 DEF PairsAt
  <2>4. PICK k \in 1..(n - 1) : k = g[j]
    BY <1>12
  <2>5. k + 1 \in 1..n /\ 2 * (k + 1) - 1 = 2 * k + 1 /\ 2 * (k + 1) = 2 * k + 2
    BY <2>4
  <2>6. ~IsEol(h[2 * (k + 1) - 1]) /\ h[2 * (k + 1)] = CR
    BY <1>6, <2>5 DEF CrlfLines
  <2>7. QED
    BY <1>8, <2>3, <2>4, <2>5, <2>6
<1>20. Ended(r, m + 1)
  <2>1. ASSUME NEW k \in 1..(m + 1) PROVE ~IsEol(r[2 * k - 1]) /\ IsEol(r[2 * k])
    <3>1. CASE k = 1
      <4>1. 2 * k - 1 = 1 /\ 2 * k = 2
        BY <3>1
      <4>2. ~IsEol(r[1]) /\ IsEol(r[2])
        BY <1>18 DEF IsEol, Eols, CR, LF
      <4>3. QED
        BY <4>1, <4>2
    <3>2. CASE k # 1
      <4>1. PICK j \in 1..m : k = j + 1
        <5>1. k - 1 \in 1..m /\ k = (k - 1) + 1
          BY <3>2
        <5>2. QED
          BY <5>1
      <4>2. 2 * k - 1 = 2 * j + 1 /\ 2 * k = 2 * j + 2
        BY <4>1
      <4>3. QED
        BY <1>19, <4>2 DEF IsEol, Eols
    <3>3. QED
      BY <3>1, <3>2
  <2>2. 2 * (m + 1) + 1 = 2 * m + 3
    OBVIOUS
  <2>3. IsEol(r[2 * m + 3])
    BY <1>18 DEF IsEol, Eols
  <2>4. QED
    BY <1>18, <2>1, <2>2, <2>3 DEF Ended
<1>21. m + 1 \in Nat \ {0} /\ m + 1 - 1 = m /\ 2 * (m + 1) + 1 = 2 * m + 3
  OBVIOUS
<1>22. Blank(r) = Len(r)
  BY <1>18, <1>20, <1>21, Reading
<1>23. Tail(Understood(r)) = [j \in 1..m |-> r[2 * j + 1]]
  BY <1>20, <1>21, HeaderLines
<1>24. PICK theirs : /\ theirs = Tail(Understood(s))
                     /\ theirs = [k \in 1..(n - 1) |-> s[2 * k + 1]]
  BY HeaderLines
<1>25. DOMAIN theirs = 1..(n - 1) /\ \A k \in 1..(n - 1) : theirs[k] = h[2 * k + 1]
  BY <1>8, <1>24
<1>26. {p \in DOMAIN theirs : theirs[p] # "Proxy-Connection"} = G
  BY <1>7, <1>25 DEF Others
<1>27. Pick(theirs, G) = [j \in 1..m |-> theirs[g[j]]]
  <2>1. m \in Nat
    OBVIOUS
  <2>2. QED
    BY ONLY <1>9, <1>11, <2>1, PickIs
<1>28. \A j \in 1..m : theirs[g[j]] = r[2 * j + 1]
  BY <1>12, <1>19, <1>24
<1>29. Tail(Understood(r)) = Pick(theirs, G)
  BY <1>23, <1>27, <1>28
<1>30. OnlyDropped(Tail(Understood(r)), theirs)
  BY <1>26, <1>29, Zenon DEF OnlyDropped
<1>31. QED
  BY <1>17, <1>22, <1>24, <1>30

-----------------------------------------------------------------------------
(* n lines of a header block that is still being read. *)
Lined(s, n) ==
  /\ s \in Seq(Tokens)
  /\ Len(s) = 2 * n
  /\ \A k \in 1..n : ~IsEol(s[2 * k - 1]) /\ IsEol(s[2 * k])

(* The size of what has been read, before and after its blank line. *)
LEMMA LinesRead ==
  ASSUME NEW n \in Nat, NEW s
  PROVE  /\ Lined(s, n) => Lines(s) = n
         /\ Ended(s, n) => Lines(s) = n + 1
<1> DEFINE P == {p \in DOMAIN s : IsEol(s[p])}
<1>1. ASSUME Lined(s, n) PROVE Lines(s) = n
  <2> DEFINE e == [k \in 1..n |-> 2 * k]
  <2>1. /\ DOMAIN s = 1..(2 * n)
        /\ \A k \in 1..n : ~IsEol(s[2 * k - 1]) /\ IsEol(s[2 * k])
    BY <1>1 DEF Lined
  <2>2. \A k \in 1..n : 2 * k \in 1..(2 * n)
    OBVIOUS
  <2>3. e \in [1..n -> P]
    BY <2>1, <2>2
  <2>4. \A i, j \in 1..n : i < j => e[i] < e[j]
    OBVIOUS
  <2>5. ASSUME NEW p \in P PROVE \E k \in 1..n : e[k] = p
    <3>1. p \in 1..(2 * n + 1) /\ p # 2 * n + 1 /\ IsEol(s[p])
      BY <2>1
    <3>2. PICK k \in 1..n : p = 2 * k
      BY <2>1, <3>1, Places
    <3>3. QED
      BY <3>2
  <2>6. P \in SUBSET Nat
    BY <2>1
  <2>7. Lists(e, P, n)
    BY <2>3, <2>4, <2>5 DEF Lists
  <2>8. Lines(s) = Cardinality(P)
    BY DEF Lines
  <2> HIDE DEF P, e
  <2>9. QED
    BY <2>6, <2>7, <2>8, Listed
<1>2. ASSUME Ended(s, n) PROVE Lines(s) = n + 1
  <2> DEFINE e == [k \in 1..(n + 1) |-> IF k <= n THEN 2 * k ELSE 2 * n + 1]
  <2>1. /\ DOMAIN s = 1..(2 * n + 1) /\ IsEol(s[2 * n + 1])
        /\ \A k \in 1..n : ~IsEol(s[2 * k - 1]) /\ IsEol(s[2 * k])
    BY <1>2 DEF Ended
  <2>2. /\ \A k \in 1..n : 2 * k \in 1..(2 * n + 1) /\ k \in 1..(n + 1) /\ e[k] = 2 * k
        /\ n + 1 \in 1..(n + 1) /\ e[n + 1] = 2 * n + 1 /\ 2 * n + 1 \in 1..(2 * n + 1)
    OBVIOUS
  <2>3. \A k \in 1..(n + 1) : k \in 1..n \/ k = n + 1
    OBVIOUS
  <2>4. \A k \in 1..(n + 1) : e[k] \in P
    <3> HIDE DEF e
    <3>1. QED
      BY <2>1, <2>2, <2>3
  <2>5. e \in [1..(n + 1) -> P]
    BY <2>4
  <2>6. \A i, j \in 1..(n + 1) : i < j => e[i] < e[j]
    OBVIOUS
  <2>7. ASSUME NEW p \in P PROVE \E k \in 1..(n + 1) : e[k] = p
    <3> HIDE DEF e
    <3>1. p \in 1..(2 * n + 1) /\ IsEol(s[p])
      BY <2>1
    <3>2. (\E k \in 1..n : p = 2 * k) \/ p = 2 * n + 1
      BY <2>1, <3>1, Places
    <3>3. QED
      BY <2>2, <3>2
  <2>8. P \in SUBSET Nat /\ n + 1 \in Nat
    BY <2>1
  <2>9. Lists(e, P, n + 1)
    BY <2>5, <2>6, <2>7 DEF Lists
  <2>10. Lines(s) = Cardinality(P)
    BY DEF Lines
  <2> HIDE DEF P, e
  <2>11. QED
    BY <2>8, <2>9, <2>10, Listed
<1>3. QED
  BY <1>1, <1>2

(* Reading one more line, or the blank one. *)
LEMMA ReadMore ==
  ASSUME NEW n \in Nat, NEW s, Lined(s, n), NEW eol \in Eols
  PROVE  /\ Ended(Append(s, eol), n)
         /\ \A x \in Headers \cup {"start"} : Lined(s \o <<x, eol>>, n + 1)
<1>1. /\ s \in Seq(Tokens) /\ Len(s) = 2 * n
      /\ \A k \in 1..n : ~IsEol(s[2 * k - 1]) /\ IsEol(s[2 * k])
  BY DEF Lined
<1>2. IsEol(eol) /\ eol \in Tokens
  BY DEF IsEol, Tokens
<1>3. \A k \in 1..n : 2 * k - 1 \in 1..(2 * n) /\ 2 * k \in 1..(2 * n)
  OBVIOUS
<1>4. Ended(Append(s, eol), n)
  <2>1. PICK u : u = Append(s, eol)
    OBVIOUS
  <2>2. /\ u \in Seq(Tokens) /\ Len(u) = 2 * n + 1 /\ u[2 * n + 1] = eol
        /\ \A p \in 1..(2 * n) : u[p] = s[p]
    BY <1>1, <1>2, <2>1
  <2>3. Ended(u, n)
    BY <1>1, <1>2, <1>3, <2>2 DEF Ended
  <2>4. QED
    BY <2>1, <2>3
<1>5. ASSUME NEW x \in Headers \cup {"start"} PROVE Lined(s \o <<x, eol>>, n + 1)
  <2>1. PICK u : u = s \o <<x, eol>>
    OBVIOUS
  <2>2. x \in Tokens /\ ~IsEol(x)
    BY LinesAreText DEF Tokens, IsEol, Eols, CR, LF
  <2>3. <<x, eol>> \in Seq(Tokens) /\ Len(<<x, eol>>) = 2
    BY <1>2, <2>2
  <2>4. u \in Seq(Tokens) /\ Len(u) = 2 * n + 2
    BY <1>1, <2>1, <2>3
  <2>5. u[2 * n + 1] = x /\ u[2 * n + 2] = eol /\ \A p \in 1..(2 * n) : u[p] = s[p]
    BY <1>1, <2>1, <2>3
  <2>6. ASSUME NEW k \in 1..(n + 1) PROVE ~IsEol(u[2 * k - 1]) /\ IsEol(u[2 * k])
    <3>1. k \in 1..n \/ (2 * k - 1 = 2 * n + 1 /\ 2 * k = 2 * n + 2)
      OBVIOUS
    <3>2. QED
      BY <1>1, <1>2, <1>3, <2>2, <2>5, <3>1
  <2>7. 2 * (n + 1) = 2 * n + 2
    OBVIOUS
  <2>8. Lined(u, n + 1)
    BY <2>4, <2>6, <2>7 DEF Lined
  <2>9. QED
    BY <2>1, <2>8
<1>6. QED
  BY <1>4, <1>5

(* The header block at every place: lines while it is read, then lines and a
   blank one, and, once a request was found in it, what Tidy makes of it. *)
BlockOK ==
  /\ pc \in {"readRequest", "parse"} => sentRaw = raw /\ req = None
  /\ pc = "readRequest" => \E n \in Nat : Lined(raw, n)
  /\ pc = "parse" => \E n \in Nat : Ended(raw, n)
  /\ req # None =>
       /\ req \in Requests /\ uri = Path(req) /\ raw = Tidy(sentRaw)
       /\ \E n \in Nat \ {0} : Ended(sentRaw, n)

(* The parts of TypeOK that are about the header block. *)
BlockType ==
  /\ pc \in {"readRequest", "parse", "resolve", "readHello", "badGateway",
             "closed", "panicked", "forwarded"}
  /\ raw \in Seq(Tokens)
  /\ Lines(sentRaw) <= maxHeaderSize
  /\ req \in Requests \cup {None}

BlockInv == BlockOK /\ BlockType

(* The header block has its form from the first line to the rewritten request. *)
LEMMA Blocks == Spec => []BlockInv
<1>1. Init => BlockInv
  <2> SUFFICES ASSUME Init PROVE BlockInv
    OBVIOUS
  <2>1. /\ pc = "readRequest" /\ raw = <<>> /\ sentRaw = <<>> /\ req = None
    BY DEF Init
  <2>2. Lined(<<>>, 0) /\ 0 \in Nat
    BY DEF Lined
  <2>3. Lines(<<>>) = 0
    BY <2>2, LinesRead
  <2>4. BlockOK
    BY <2>1, <2>2 DEF BlockOK
  <2>5. BlockType
    BY <2>1, <2>3, LimitIsNat DEF BlockType
  <2>6. QED
    BY <2>4, <2>5 DEF BlockInv
<1>2. BlockInv /\ [Next]_vars => BlockInv'
  <2> SUFFICES ASSUME BlockInv, [Next]_vars PROVE BlockInv'
    OBVIOUS
  <2>1. CASE ReadLine
    <3>1. pc = "readRequest" /\ sentRaw = raw /\ req = None /\ sentRaw' = raw' /\ req' = req
      BY <2>1 DEF ReadLine, BlockInv, BlockOK
    <3>2. PICK n \in Nat : Lined(raw, n)
      BY <3>1 DEF BlockInv, BlockOK
    <3>3. n + 1 <= maxHeaderSize /\ n + 1 \in Nat
      <4>1. Lines(raw) = n
        BY <3>2, LinesRead
      <4>2. QED
        BY <2>1, <4>1 DEF ReadLine, Fits
    <3>4. PICK eol \in Eols :
            \/ raw' = Append(raw, eol) /\ pc' = "parse"
            \/ \E x \in Headers \cup {"start"} : raw' = raw \o <<x, eol>> /\ pc' = pc
      BY <2>1 DEF ReadLine
    <3>5. CASE raw' = Append(raw, eol) /\ pc' = "parse"
      <4>1. Ended(raw', n)
        BY <3>2, <3>5, ReadMore
      <4>2. raw' \in Seq(Tokens)
        BY <4>1 DEF Ended
      <4>3. Lines(raw') <= maxHeaderSize
        BY <3>3, <4>1, LinesRead
      <4>4. QED
        BY <3>1, <3>5, <4>1, <4>2, <4>3 DEF BlockInv, BlockOK, BlockType
    <3>6. CASE \E x \in Headers \cup {"start"} : raw' = raw \o <<x, eol>> /\ pc' = pc
      <4>1. Lined(raw', n + 1) /\ pc' = pc
        BY <3>2, <3>6, ReadMore
      <4>2. raw' \in Seq(Tokens)
        BY <4>1 DEF Lined
      <4>3. Lines(raw') <= maxHeaderSize
        BY <3>3, <4>1, LinesRead
      <4>4. QED
        BY <3>1, <3>3, <4>1, <4>2, <4>3 DEF BlockInv, BlockOK, BlockType
    <3>7. QED
      BY <3>4, <3>5, <3>6
  <2>2. CASE ReadLineFails
    BY <2>2 DEF ReadLineFails, Close, BlockInv, BlockOK, BlockType
  <2>3. CASE Parse
    <3>1. /\ pc = "parse" /\ sentRaw = raw /\ raw[1] = "start"
          /\ raw' = Tidy(raw) /\ sentRaw' = sentRaw
      BY <2>3 DEF Parse, BlockInv, BlockOK
    <3>2. PICK n \in Nat : Ended(raw, n)
      BY <3>1 DEF BlockInv, BlockOK
    <3>3. n # 0
      <4>1. IsEol(raw[2 * n + 1]) /\ ~IsEol(raw[1])
        BY <3>1, <3>2 DEF Ended, IsEol, Eols, CR, LF
      <4>2. n = 0 => 2 * n + 1 = 1
        OBVIOUS
      <4>3. QED
        BY <4>1, <4>2
    <3>4. n \in Nat \ {0} /\ Ended(sentRaw', n)
      BY <3>1, <3>2, <3>3
    <3>5. raw' \in Seq(Tokens)
      BY <3>1, <3>4, TidyKeepsOrder
    <3>6. PICK r \in Requests : /\ req' = r /\ uri' = Path(r)
                                /\ pc' \in {"resolve", "closed"}
      BY <2>3 DEF Parse
    <3>7. BlockOK'
      BY <3>1, <3>4, <3>6 DEF BlockOK
    <3>8. BlockType'
      BY <3>1, <3>5, <3>6 DEF BlockInv, BlockType
    <3>9. QED
      BY <3>7, <3>8 DEF BlockInv
  <2>4. CASE ParseFails
    BY <2>4 DEF ParseFails, Close, BlockInv, BlockOK, BlockType
  <2>5. CASE ResolveFails
    BY <2>5 DEF ResolveFails, BlockInv, BlockOK, BlockType
  <2>6. CASE Route
    <3>1. /\ pc' \in {"closed", "readHello", "forwarded"}
          /\ UNCHANGED <<raw, sentRaw, req, uri>>
      BY <2>6 DEF Route, Close
    <3>2. QED
      BY <3>1 DEF BlockInv, BlockOK, BlockType
  <2>7. CASE ReadTLSMessage
    <3>1. /\ pc' \in {"closed", "panicked", "forwarded"}
          /\ UNCHANGED <<raw, sentRaw, req, uri>>
      BY <2>7 DEF ReadTLSMessage, Close
    <3>2. QED
      BY <3>1 DEF BlockInv, BlockOK, BlockType
  <2>8. CASE UNCHANGED vars
    BY <2>8 DEF vars, BlockInv, BlockOK, BlockType
  <2>9. QED
    BY <2>1, <2>2, <2>3, <2>4, <2>5, <2>6, <2>7, <2>8 DEF Next, Finished
<1>3. QED
  BY <1>1, <1>2, PTL DEF Spec

(* The variables keep their types: the header block stays within its limit and
   a destination that is dialed has an address and a port from 1 to 65535. *)
THEOREM TypeCorrect == Spec => []TypeOK
<1>1. BlockInv /\ StageInv => TypeOK
  <2> SUFFICES ASSUME BlockInv, StageInv PROVE TypeOK
    OBVIOUS
  <2>1. dst # None => dst.ip \in Ips /\ dst.port > 0 /\ dst.port <= 65535
    <3> SUFFICES ASSUME dst # None PROVE dst.ip \in Ips /\ dst.port > 0 /\ dst.port <= 65535
      OBVIOUS
    <3>1. req \in Requests /\ dst.ip \in Ips /\ dst.port = PortOf(req) /\ PortOf(req) # 0
      BY DEF StageInv, DialedOK
    <3>2. PortOf(req) \in Nat /\ PortOf(req) <= 65535
      BY <3>1, PortOfRange
    <3>3. QED
      BY <3>1, <3>2
  <2>2. QED
    BY <2>1 DEF BlockInv, BlockType, TypeOK, Tokens
<1>2. QED
  BY <1>1, Blocks, Stages, PTL

(* The server gets the request the client made: Tidy writes a block with an end,
   whose first line is the new request line with the path and the query of the
   request, and whose headers are some of the client's in their order; when the
   lines end in CRLF, all but Proxy-Connection, and nothing after them. *)
THEOREM RequestIsFaithful == Spec => []RequestFaithful
<1>1. BlockInv => RequestFaithful
  <2> SUFFICES ASSUME BlockInv, req # None PROVE RequestFaithful
    BY DEF RequestFaithful
  <2>1. req \in Requests /\ uri = Path(req) /\ raw = Tidy(sentRaw)
    BY DEF BlockInv, BlockOK
  <2>2. PICK n \in Nat \ {0} : Ended(sentRaw, n)
    BY DEF BlockInv, BlockOK
  <2>3. /\ BlankLines(raw) # {}
        /\ Head(Understood(raw)) = "rewritten"
        /\ Subsequence(Tail(Understood(raw)), Tail(Understood(sentRaw)))
    BY <2>1, <2>2, TidyKeepsOrder
  <2>4. /\ req.path = "plain" => uri.path = "plain"
        /\ req.path = "" /\ req.query # "text" => uri.path = "/"
        /\ req.query = "text" => uri.query = "text"
    BY <2>1 DEF Path
  <2>5. (\A p \in DOMAIN sentRaw : sentRaw[p] # LF) =>
          /\ OnlyDropped(Tail(Understood(raw)), Tail(Understood(sentRaw)))
          /\ Blank(raw) = Len(raw)
    BY <2>1, <2>2, TidyDropsOnly
  <2>6. QED
    BY <2>3, <2>4, <2>5, Zenon DEF RequestFaithful, OnlyDropped
<1>2. QED
  BY <1>1, Blocks, PTL
=============================================================================
