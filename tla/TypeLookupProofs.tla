-------------------------- MODULE TypeLookupProofs --------------------------
(***************************************************************************)
(* Proofs about TypeLookup, for any set of query types, any records and    *)
(* any order in which replies, failures and the end of the context come.   *)
(***************************************************************************)
EXTENDS TypeLookup, FiniteSetTheorems, TLAPS

-----------------------------------------------------------------------------
(* Induction over the naturals, by way of a least counterexample. *)
LEMMA Least ==
  ASSUME NEW S \in SUBSET Nat, S # {}
  PROVE  \E m \in S : \A x \in S : m <= x
<1>1. PICK m \in S : \A y \in S : ~(<<y, m>> \in OpToRel(<, Nat))
  BY WFMin, NatLessThanWellFounded
<1>2. ASSUME NEW x \in S PROVE m <= x
  <2>1. x \in Nat /\ m \in Nat
    OBVIOUS
  <2>2. x < m => <<x, m>> \in OpToRel(<, Nat)
    BY <2>1 DEF OpToRel
  <2>3. ~(x < m)
    BY <1>1, <2>2
  <2>4. QED
    BY <2>1, <2>3
<1>3. QED
  BY <1>2

LEMMA Inductive ==
  ASSUME NEW S \in SUBSET Nat, 0 \in S, \A n \in Nat : n \in S => n + 1 \in S
  PROVE  \A n \in Nat : n \in S
<1> SUFFICES ASSUME Nat \ S # {} PROVE FALSE
  OBVIOUS
<1>1. PICK m \in Nat \ S : \A x \in Nat \ S : m <= x
  BY Least
<1>2. m - 1 \in Nat /\ (m - 1) + 1 = m
  BY <1>1
<1>3. m - 1 \in S
  BY <1>1, <1>2
<1>4. QED
  BY <1>1, <1>2, <1>3

-----------------------------------------------------------------------------
(* Where the next rank goes into a list that is in order. *)
LEMMA Place ==
  ASSUME NEW n \in Nat, NEW h \in [1..n -> Nat], NEW v \in Nat,
         \A i, j \in 1..n : i < j => h[i] <= h[j]
  PROVE  \E m \in 1..(n + 1) :
           /\ \A i \in 1..n : i < m => h[i] <= v
           /\ \A i \in 1..n : i >= m => v <= h[i]
<1> DEFINE S == {i \in 1..n : h[i] > v}
<1>1. CASE S = {}
  <2>1. n + 1 \in 1..(n + 1) /\ \A i \in 1..n : i < n + 1 /\ ~(i >= n + 1)
    OBVIOUS
  <2>2. ASSUME NEW i \in 1..n PROVE h[i] <= v
    <3>1. i \notin S
      BY <1>1
    <3>2. h[i] \in Nat /\ ~(h[i] > v)
      BY <3>1
    <3>3. QED
      BY <3>2
  <2>3. QED
    BY <2>1, <2>2
<1>2. CASE S # {}
  <2>1. S \in SUBSET Nat
    OBVIOUS
  <2>2. PICK m \in S : \A x \in S : m <= x
    BY <1>2, <2>1, Least
  <2>3. m \in 1..(n + 1) /\ m \in 1..n /\ m \in Nat /\ v < h[m]
    OBVIOUS
  <2>4. ASSUME NEW i \in 1..n, i < m PROVE h[i] <= v
    <3>1. i \notin S
      BY <2>2, <2>3, <2>4
    <3>2. h[i] \in Nat /\ ~(h[i] > v)
      BY <3>1
    <3>3. QED
      BY <3>2
  <2>5. ASSUME NEW i \in 1..n, i >= m PROVE v <= h[i]
    <3>1. h[i] \in Nat /\ h[m] \in Nat
      BY <2>3
    <3>2. h[m] <= h[i]
      BY <2>3, <2>5, <3>1
    <3>3. QED
      BY <2>3, <3>1, <3>2
  <2>6. QED
    BY <2>3, <2>4, <2>5
<1>3. QED
  BY <1>1, <1>2

(* Any list can be put in order. *)
LEMMA OrdersExist ==
  ASSUME NEW n \in Nat, NEW f \in [1..n -> Nat]
  PROVE  Orders(f, n) # {}
<1> DEFINE Good == {k \in Nat : \A g \in [1..k -> Nat] : Orders(g, k) # {}}
<1>1. 0 \in Good
  <2>1. ASSUME NEW g \in [1..0 -> Nat] PROVE [i \in 1..0 |-> i] \in Orders(g, 0)
    BY DEF Orders
  <2>2. QED
    BY <2>1
<1>2. ASSUME NEW k \in Nat, k \in Good PROVE k + 1 \in Good
  <2> SUFFICES ASSUME NEW g \in [1..(k + 1) -> Nat] PROVE Orders(g, k + 1) # {}
    OBVIOUS
  <2> DEFINE e == [i \in 1..k |-> g[i]]
  <2>1. e \in [1..k -> Nat]
    OBVIOUS
  <2>2. PICK p : p \in Orders(e, k)
    BY <1>2, <2>1
  <2>3. /\ p \in [1..k -> 1..k] /\ \A j \in 1..k : \E i \in 1..k : p[i] = j
        /\ \A i, j \in 1..k : i < j => g[p[i]] <= g[p[j]]
    BY <2>2 DEF Orders
  <2> HIDE DEF e
  <2>4. PICK m \in 1..(k + 1) :
          /\ \A i \in 1..k : i < m => g[p[i]] <= g[k + 1]
          /\ \A i \in 1..k : i >= m => g[k + 1] <= g[p[i]]
    <3> DEFINE h == [i \in 1..k |-> g[p[i]]]
               v == g[k + 1]
    <3>1. \A i \in 1..k : i \in 1..(k + 1)
      OBVIOUS
    <3>2. \A i \in 1..k : p[i] \in 1..k
      BY <2>3
    <3>3. h \in [1..k -> Nat] /\ v \in Nat
      BY <3>1, <3>2
    <3>4. \A i, j \in 1..k : i < j => h[i] <= h[j]
      BY <2>3
    <3>5. \A i \in 1..k : h[i] = g[p[i]]
      OBVIOUS
    <3> HIDE DEF h
    <3>6. \E m \in 1..(k + 1) : /\ \A i \in 1..k : i < m => h[i] <= v
                               /\ \A i \in 1..k : i >= m => v <= h[i]
      BY <3>3, <3>4, Place
    <3>7. QED
      BY <3>5, <3>6
  <2> DEFINE q == [i \in 1..(k + 1) |->
                     IF i < m THEN p[i] ELSE IF i = m THEN k + 1 ELSE p[i - 1]]
  <2>5. ASSUME NEW i \in 1..(k + 1)
        PROVE  /\ i < m => i \in 1..k /\ q[i] = p[i]
               /\ i = m => q[i] = k + 1
               /\ i > m => i - 1 \in 1..k /\ i - 1 >= m /\ q[i] = p[i - 1]
    OBVIOUS
  <2>6. q \in [1..(k + 1) -> 1..(k + 1)]
    <3>1. \A i \in 1..k : p[i] \in 1..(k + 1)
      <4>1. \A x \in 1..k : x \in 1..(k + 1)
        OBVIOUS
      <4>2. \A i \in 1..k : p[i] \in 1..k
        BY <2>3
      <4>3. QED
        BY <4>1, <4>2
    <3>2. \A i \in 1..(k + 1) : i < m \/ i = m \/ i > m
      OBVIOUS
    <3>3. ASSUME NEW i \in 1..(k + 1) PROVE q[i] \in 1..(k + 1)
      <4> HIDE DEF q
      <4>1. CASE i < m
        BY <2>5, <3>1, <4>1
      <4>2. CASE i = m
        <5>1. q[i] = k + 1
          BY <2>5, <4>2
        <5>2. QED
          BY <5>1
      <4>3. CASE i > m
        <5>1. i - 1 \in 1..k /\ q[i] = p[i - 1]
          BY <2>5, <4>3
        <5>2. QED
          BY <3>1, <5>1
      <4>4. QED
        BY <3>2, <4>1, <4>2, <4>3
    <3>4. QED
      BY <3>3
  <2> HIDE DEF q
  <2>7. ASSUME NEW j \in 1..(k + 1) PROVE \E i \in 1..(k + 1) : q[i] = j
    <3>1. CASE j = k + 1
      BY <2>5, <3>1
    <3>2. CASE j # k + 1
      <4>1. j \in 1..k
        BY <3>2
      <4>2. PICK i \in 1..k : p[i] = j
        BY <2>3, <4>1
      <4>3. CASE i < m
        <5>1. i \in 1..(k + 1)
          OBVIOUS
        <5>2. QED
          BY <2>5, <4>2, <4>3, <5>1
      <4>4. CASE i >= m
        <5>1. i + 1 \in 1..(k + 1) /\ i + 1 > m /\ (i + 1) - 1 = i
          BY <4>4
        <5>2. QED
          BY <2>5, <4>2, <5>1
      <4>5. QED
        BY <4>3, <4>4
    <3>3. QED
      BY <3>1, <3>2
  <2>8. ASSUME NEW i \in 1..(k + 1), NEW j \in 1..(k + 1), i < j
        PROVE  g[q[i]] <= g[q[j]]
    <3>1. CASE j < m
      <4>1. i < m
        BY <2>8, <3>1
      <4>2. i \in 1..k /\ j \in 1..k /\ q[i] = p[i] /\ q[j] = p[j]
        BY <2>5, <3>1, <4>1
      <4>3. QED
        BY <2>3, <2>8, <4>2
    <3>2. CASE j = m
      BY <2>4, <2>5, <2>8, <3>2
    <3>3. CASE j > m /\ i < m
      <4>1. g[q[i]] <= g[k + 1] /\ g[k + 1] <= g[q[j]]
        BY <2>4, <2>5, <3>3
      <4>2. q[i] \in 1..(k + 1) /\ q[j] \in 1..(k + 1) /\ k + 1 \in 1..(k + 1)
        <5>1. q[i] \in 1..(k + 1) /\ q[j] \in 1..(k + 1)
          BY <2>6
        <5>2. k + 1 \in 1..(k + 1)
          OBVIOUS
        <5>3. QED
          BY <5>1, <5>2
      <4>3. g[q[i]] \in Nat /\ g[q[j]] \in Nat /\ g[k + 1] \in Nat
        BY <4>2
      <4>4. QED
        BY <4>1, <4>3
    <3>4. CASE j > m /\ i = m
      BY <2>4, <2>5, <3>4
    <3>5. CASE j > m /\ i > m
      <4>1. i - 1 < j - 1
        BY <2>8
      <4>2. i - 1 \in 1..k /\ j - 1 \in 1..k /\ q[i] = p[i - 1] /\ q[j] = p[j - 1]
        BY <2>5, <3>5
      <4>3. QED
        BY <2>3, <4>1, <4>2
    <3>6. QED
      BY <3>1, <3>2, <3>3, <3>4, <3>5
  <2>9. q \in Orders(g, k + 1)
    BY <2>6, <2>7, <2>8 DEF Orders
  <2>10. QED
    BY <2>9
<1>3. \A k \in Nat : k \in Good
  <2>1. Good \in SUBSET Nat
    OBVIOUS
  <2> HIDE DEF Good
  <2>2. QED
    BY <1>1, <1>2, <2>1, Inductive
<1>4. QED
  BY <1>3

(* sortAddrs returns the same addresses, with the best one first. *)
LEMMA SortedAre ==
  ASSUME NEW a \in Seq(Nat)
  PROVE  /\ sortAddrs(a) \in Seq(Nat)
         /\ Len(sortAddrs(a)) = Len(a)
         /\ Elems(sortAddrs(a)) = Elems(a)
         /\ \A i \in DOMAIN sortAddrs(a) : sortAddrs(a)[1] <= sortAddrs(a)[i]
<1> DEFINE n == Len(a)
           p == CHOOSE p \in Orders(a, n) : TRUE
           s == sortAddrs(a)
<1>1. n \in Nat /\ a \in [1..n -> Nat] /\ DOMAIN a = 1..n
  OBVIOUS
<1>2. p \in Orders(a, n)
  BY <1>1, OrdersExist
<1>3. s = [i \in 1..n |-> a[p[i]]]
  BY DEF sortAddrs
<1> HIDE DEF n, p, s
<1>4. /\ p \in [1..n -> 1..n] /\ \A j \in 1..n : \E i \in 1..n : p[i] = j
      /\ \A i, j \in 1..n : i < j => a[p[i]] <= a[p[j]]
  BY <1>2 DEF Orders
<1>5. s \in [1..n -> Nat] /\ DOMAIN s = 1..n
  BY <1>1, <1>3, <1>4
<1>6. s \in Seq(Nat) /\ Len(s) = n
  BY <1>1, <1>5
<1>7. Elems(s) = Elems(a)
  BY <1>1, <1>3, <1>4, <1>5 DEF Elems
<1>8. ASSUME NEW i \in 1..n PROVE s[1] <= s[i]
  <2>1. 1 \in 1..n /\ s[1] = a[p[1]] /\ s[i] = a[p[i]] /\ s[1] \in Nat
    BY <1>1, <1>3, <1>5
  <2>2. CASE i = 1
    BY <2>1, <2>2
  <2>3. CASE i # 1
    <3>1. 1 < i
      BY <2>3
    <3>2. QED
      BY <1>4, <2>1, <3>1
  <2>4. QED
    BY <2>2, <2>3
<1>9. QED
  BY <1>5, <1>6, <1>7, <1>8 DEF s, n

LEMMA ElemsJoin ==
  ASSUME NEW a \in Seq(Nat), NEW b \in Seq(Nat)
  PROVE  Elems(a \o b) = Elems(a) \cup Elems(b)
<1> DEFINE s == a \o b
<1>1. /\ DOMAIN a = 1..Len(a) /\ DOMAIN b = 1..Len(b) /\ Len(a) \in Nat /\ Len(b) \in Nat
      /\ DOMAIN s = 1..(Len(a) + Len(b))
      /\ \A i \in 1..(Len(a) + Len(b)) : s[i] = IF i <= Len(a) THEN a[i] ELSE b[i - Len(a)]
  OBVIOUS
<1> HIDE DEF s
<1>2. ASSUME NEW x \in Elems(s) PROVE x \in Elems(a) \cup Elems(b)
  <2>1. PICK i \in 1..(Len(a) + Len(b)) : x = s[i]
    BY <1>1 DEF Elems
  <2>2. CASE i <= Len(a)
    <3>1. i \in 1..Len(a) /\ x = a[i]
      BY <1>1, <2>1, <2>2
    <3>2. QED
      BY <1>1, <3>1 DEF Elems
  <2>3. CASE i > Len(a)
    <3>0. ~(i <= Len(a)) /\ i - Len(a) \in 1..Len(b)
      BY <1>1, <2>3
    <3>1. i - Len(a) \in 1..Len(b) /\ x = b[i - Len(a)]
      BY <1>1, <2>1, <3>0
    <3>2. QED
      BY <1>1, <3>1 DEF Elems
  <2>4. QED
    BY <1>1, <2>2, <2>3
<1>3. ASSUME NEW x \in Elems(a) PROVE x \in Elems(s)
  <2>1. PICK i \in 1..Len(a) : x = a[i]
    BY <1>1 DEF Elems
  <2>2. i \in 1..(Len(a) + Len(b)) /\ s[i] = x
    BY <1>1, <2>1
  <2>3. QED
    BY <1>1, <2>2 DEF Elems
<1>4. ASSUME NEW x \in Elems(b) PROVE x \in Elems(s)
  <2>1. PICK i \in 1..Len(b) : x = b[i]
    BY <1>1 DEF Elems
  <2>2. /\ i + Len(a) \in 1..(Len(a) + Len(b)) /\ ~(i + Len(a) <= Len(a))
        /\ (i + Len(a)) - Len(a) = i
    BY <1>1
  <2>3. s[i + Len(a)] = x
    BY <1>1, <2>1, <2>2
  <2>4. QED
    BY <1>1, <2>2, <2>3 DEF Elems
<1>5. QED
  BY <1>2, <1>3, <1>4 DEF s

-----------------------------------------------------------------------------
(* A worker has a result exactly from its Conclude on: the whole record list
   or an error. *)
ResOK ==
  \A q \in QTypes :
    /\ wpc[q] \in {"exchange", "tcp"} => res[q] = None
    /\ wpc[q] \in {"send", "exited"} =>
         res[q] = Pair(zone[q], "nil") \/ res[q] = Failed

(* Only the types of workers that are done are in the channel. *)
QueueOK == \A i \in 1..Len(resCh) : wpc[resCh[i]] = "exited"

ClosedOK == closed => AllDone

TypeInv == TypeOK /\ ResOK /\ QueueOK /\ ClosedOK

(* The records of the types of C whose query was answered. *)
Records(C) == UNION {Elems(zone[q]) : q \in {p \in C : res[p].err = "nil"}}

(* C is the set of types processResults has received: until the context ends
   they are, with those in the channel, all that were sent. *)
Collected(C) ==
  /\ \A q \in C : wpc[q] = "exited"
  /\ ~ctxDone => \A q \in QTypes : wpc[q] = "exited" => q \in C \/ q \in Elems(resCh)
  /\ Elems(addrs) = Records(C)
  /\ errs = {q \in C : res[q].err # "nil"}

LookupInv ==
  /\ \E C \in SUBSET QTypes : Collected(C)
  /\ ret # None /\ ~ctxDone => closed
  /\ NothingLost
  /\ BestFirst

(* The parts of a queue: its first element and the others. *)
LEMMA QueueParts ==
  ASSUME NEW S, NEW s \in Seq(S), s # <<>>
  PROVE  /\ Head(s) \in S /\ Head(s) = s[1] /\ Tail(s) \in Seq(S)
         /\ Len(Tail(s)) <= Len(s) /\ 1 \in 1..Len(s)
         /\ \A i \in 1..Len(Tail(s)) : i + 1 \in 1..Len(s) /\ Tail(s)[i] = s[i + 1]
         /\ \A x \in Elems(s) : x = Head(s) \/ x \in Elems(Tail(s))
<1>1. /\ Len(s) \in Nat /\ Len(s) > 0 /\ Head(s) = s[1] /\ Tail(s) \in Seq(S)
      /\ Len(Tail(s)) = Len(s) - 1 /\ s[1] \in S
      /\ DOMAIN s = 1..Len(s) /\ DOMAIN Tail(s) = 1..(Len(s) - 1)
  OBVIOUS
<1>2. \A i \in 1..(Len(s) - 1) : i + 1 \in 1..Len(s) /\ Tail(s)[i] = s[i + 1]
  BY <1>1
<1>3. ASSUME NEW x \in Elems(s) PROVE x = Head(s) \/ x \in Elems(Tail(s))
  <2>1. PICK i \in 1..Len(s) : x = s[i]
    BY <1>1 DEF Elems
  <2>2. CASE i = 1
    BY <1>1, <2>1, <2>2
  <2>3. CASE i # 1
    <3>1. i - 1 \in 1..(Len(s) - 1) /\ (i - 1) + 1 = i
      BY <1>1, <2>3
    <3>2. Tail(s)[i - 1] = x
      BY <1>2, <2>1, <3>1
    <3>3. QED
      BY <1>1, <3>1, <3>2 DEF Elems
  <2>4. QED
    BY <2>2, <2>3
<1>4. QED
  BY <1>1, <1>2, <1>3

LEMMA Pairs ==
  ASSUME NEW a \in Seq(Nat), NEW e \in {"nil", "failed", "ctxErr"}
  PROVE  /\ Pair(a, e) \in [addrs : Seq(Nat), err : {"nil", "failed", "ctxErr"}]
         /\ Pair(a, e) # None /\ Pair(a, e).addrs = a /\ Pair(a, e).err = e
<1>1. /\ Pair(a, e) \in [addrs : Seq(Nat), err : {"nil", "failed", "ctxErr"}]
      /\ Pair(a, e).addrs = a /\ Pair(a, e).err = e
  BY DEF Pair
<1>2. QED
  BY <1>1, NoneIsNoResult

LEMMA EmptyPairs ==
  /\ \A r \in {Nothing, Failed, CtxErr} :
       /\ r \in [addrs : Seq(Nat), err : {"nil", "failed", "ctxErr"}]
       /\ r # None /\ r.addrs = <<>>
  /\ Nothing.err = "nil" /\ Failed.err = "failed" /\ CtxErr.err = "ctxErr"
<1>1. <<>> \in Seq(Nat)
  OBVIOUS
<1> DEFINE Good(r, e) == /\ r \in [addrs : Seq(Nat), err : {"nil", "failed", "ctxErr"}]
                         /\ r # None /\ r.addrs = <<>> /\ r.err = e
<1>2. \A e \in {"nil", "failed", "ctxErr"} : Good(Pair(<<>>, e), e)
  BY <1>1, Pairs
<1>3. Good(Nothing, "nil") /\ Good(Failed, "failed") /\ Good(CtxErr, "ctxErr")
  <2> HIDE DEF Good
  <2>1. QED
    BY <1>2 DEF Nothing, Failed, CtxErr
<1>4. QED
  BY <1>3

(* What may have been the result of a worker that has one. *)
LEMMA ResultForms ==
  ASSUME TypeInv, NEW q \in QTypes, wpc[q] \in {"send", "exited"}
  PROVE  /\ zone[q] \in Seq(Nat) /\ res[q] # None
         /\ res[q].err = "nil" => res[q].addrs = zone[q]
<1>1. zone[q] \in Seq(Nat)
  BY ZonesAreRecords DEF TypeInv, TypeOK
<1>2. /\ Pair(zone[q], "nil") # None /\ Pair(zone[q], "nil").addrs = zone[q]
      /\ Failed # None /\ Failed.err = "failed"
  BY <1>1, Pairs, EmptyPairs
<1>3. res[q] = Pair(zone[q], "nil") \/ res[q] = Failed
  BY DEF TypeInv, ResOK
<1>4. QED
  BY <1>1, <1>2, <1>3

(* What Resolve returns when it returns. *)
LEMMA Returned ==
  ASSUME TypeInv, Drained \/ CtxEnded
  PROVE  /\ ret' \in [addrs : Seq(Nat), err : {"nil", "failed", "ctxErr"}]
         /\ ret' # None
         /\ Elems(ret'.addrs) = Elems(addrs)
         /\ ret'.addrs = <<>> <=> addrs = <<>>
         /\ \A i \in DOMAIN ret'.addrs : ret'.addrs[1] <= ret'.addrs[i]
<1>1. addrs \in Seq(Nat)
  BY DEF TypeInv, TypeOK
<1>2. CASE addrs # <<>>
  <2> DEFINE s == sortAddrs(addrs)
  <2>1. /\ s \in Seq(Nat) /\ Len(s) = Len(addrs) /\ Elems(s) = Elems(addrs)
        /\ \A i \in DOMAIN s : s[1] <= s[i]
    BY <1>1, SortedAre
  <2> HIDE DEF s
  <2>2. s # <<>>
    BY <1>1, <1>2, <2>1
  <2>3. ret' = Pair(s, "nil")
    BY <1>2 DEF Drained, CtxEnded, s
  <2>4. ret'.addrs = s /\ ret'.err = "nil" /\ ret' = [addrs |-> s, err |-> "nil"]
    BY <2>3 DEF Pair
  <2>5. ret' \in [addrs : Seq(Nat), err : {"nil", "failed", "ctxErr"}]
    BY <2>1, <2>4
  <2>6. QED
    BY <1>2, <2>1, <2>2, <2>4, <2>5, NoneIsNoResult
<1>3. CASE addrs = <<>>
  <2>1. ret' = Failed \/ ret' = Nothing \/ ret' = CtxErr
    BY <1>3 DEF Drained, CtxEnded
  <2>2. ret'.addrs = <<>> /\ ret' \in [addrs : Seq(Nat), err : {"nil", "failed", "ctxErr"}]
    BY <2>1, EmptyPairs
  <2>3. DOMAIN ret'.addrs = {}
    BY <2>2
  <2>4. QED
    BY <1>3, <2>2, <2>3, NoneIsNoResult DEF Elems
<1>4. QED
  BY <1>2, <1>3

-----------------------------------------------------------------------------
(* A worker that asks: nothing but its own place and result changes. *)
LEMMA Asking ==
  ASSUME TypeInv, NEW q \in QTypes, AskUdp(q) \/ AskTcp(q) \/ AskDoh(q)
  PROVE  /\ wpc[q] \in {"exchange", "tcp"} /\ wpc'[q] \in {"tcp", "send"}
         /\ wpc'[q] = "tcp" => res'[q] = None
         /\ wpc'[q] = "send" => res'[q] = Pair(zone[q], "nil") \/ res'[q] = Failed
         /\ wpc' \in [QTypes -> {"exchange", "tcp", "send", "exited"}]
         /\ DOMAIN res' = QTypes
         /\ \A p \in QTypes : p # q => wpc'[p] = wpc[p] /\ res'[p] = res[p]
         /\ UNCHANGED <<server, ctxDone, chVars, procVars>>
<1>1. /\ wpc \in [QTypes -> {"exchange", "tcp", "send", "exited"}] /\ DOMAIN res = QTypes
      /\ wpc[q] \in {"exchange", "tcp"} => res[q] = None
  BY DEF TypeInv, TypeOK, ResOK
<1>2. /\ wpc[q] \in {"exchange", "tcp"} /\ UNCHANGED <<server, ctxDone, chVars, procVars>>
      /\ Conclude(q) \/ (wpc' = [wpc EXCEPT ![q] = "tcp"] /\ UNCHANGED res)
  BY DEF AskUdp, AskTcp, AskDoh
<1>3. CASE Conclude(q)
  <2>1. PICK r \in {Pair(zone[q], "nil"), Failed} :
          wpc' = [wpc EXCEPT ![q] = "send"] /\ res' = [res EXCEPT ![q] = r]
    BY <1>3 DEF Conclude, Result
  <2>2. /\ wpc' \in [QTypes -> {"exchange", "tcp", "send", "exited"}]
        /\ wpc'[q] = "send" /\ res'[q] = r /\ DOMAIN res' = QTypes
        /\ \A p \in QTypes : p # q => wpc'[p] = wpc[p] /\ res'[p] = res[p]
    BY <1>1, <2>1
  <2>3. QED
    BY <1>2, <2>1, <2>2
<1>4. CASE wpc' = [wpc EXCEPT ![q] = "tcp"] /\ UNCHANGED res
  <2>1. /\ wpc' \in [QTypes -> {"exchange", "tcp", "send", "exited"}]
        /\ wpc'[q] = "tcp" /\ \A p \in QTypes : p # q => wpc'[p] = wpc[p]
    BY <1>1, <1>4
  <2>2. QED
    BY <1>1, <1>2, <1>4, <2>1
<1>5. QED
  BY <1>2, <1>3, <1>4

LEMMA Typing == Spec => []TypeInv
<1>1. Init => TypeInv
  <2> SUFFICES ASSUME Init PROVE TypeInv
    OBVIOUS
  <2>1. /\ resCh \in Seq(QTypes) /\ Len(resCh) = 0 /\ addrs \in Seq(Nat)
        /\ wpc \in [QTypes -> {"exchange", "tcp", "send", "exited"}]
        /\ DOMAIN res = QTypes /\ errs \subseteq QTypes /\ ret = None
        /\ transport \in Transports /\ zone \in Zones
        /\ sel \in {"running", "parked", "result", "end", "ctx"}
    BY DEF Init
  <2>2. Cardinality(QTypes) \in Nat
    BY QTypesFinite, FS_CardinalityType
  <2>3. ctxDone \in BOOLEAN /\ closed \in BOOLEAN
    BY Zenon DEF Init
  <2>4. ResOK /\ ClosedOK
    BY DEF Init, ResOK, ClosedOK
  <2>5. QueueOK
    BY <2>1 DEF QueueOK
  <2>6. Len(resCh) <= Cardinality(QTypes)
    BY <2>1, <2>2
  <2>7. QED
    BY <2>1, <2>3, <2>4, <2>5, <2>6 DEF TypeInv, TypeOK
<1>2. TypeInv /\ [Next]_vars => TypeInv'
  <2> SUFFICES ASSUME TypeInv, [Next]_vars PROVE TypeInv'
    OBVIOUS
  <2>0. /\ TypeOK /\ ResOK /\ QueueOK /\ ClosedOK
        /\ resCh \in Seq(QTypes) /\ Len(resCh) \in Nat
        /\ wpc \in [QTypes -> {"exchange", "tcp", "send", "exited"}]
    BY DEF TypeInv, TypeOK
  <2>s. sel' \in {"running", "parked", "result", "end", "ctx"}
    BY <2>0 DEF TypeOK, Next, Worker, AskUdp, AskTcp, AskDoh, Send, Drop, CloseCh,
                processResults, Park, Collect, Drained, CtxEnded, CtxExpire, Finished,
                Wake, Taking, vars
  <2> DEFINE Exits(q) == /\ wpc[q] = "send" /\ wpc' = [wpc EXCEPT ![q] = "exited"]
                         /\ UNCHANGED <<server, ctxDone, res, closed, procVars>>
  <2>e. ASSUME NEW q \in QTypes, Exits(q)
        PROVE  /\ wpc' \in [QTypes -> {"exchange", "tcp", "send", "exited"}]
               /\ wpc'[q] = "exited" /\ \A p \in QTypes : p # q => wpc'[p] = wpc[p]
               /\ ResOK' /\ ClosedOK'
    <3>1. /\ wpc' \in [QTypes -> {"exchange", "tcp", "send", "exited"}]
          /\ wpc'[q] = "exited" /\ \A p \in QTypes : p # q => wpc'[p] = wpc[p]
      BY <2>0, <2>e
    <3>2. ResOK'
      BY <2>0, <2>e, <3>1 DEF ResOK, server
    <3>3. ClosedOK'
      BY <2>0, <2>e, <3>1 DEF ClosedOK, AllDone
    <3>4. QED
      BY <3>1, <3>2, <3>3
  <2>1. ASSUME NEW q \in QTypes, AskUdp(q) \/ AskTcp(q) \/ AskDoh(q) PROVE TypeInv'
    <3>1. /\ wpc[q] \in {"exchange", "tcp"} /\ wpc'[q] \in {"tcp", "send"}
          /\ wpc'[q] = "tcp" => res'[q] = None
          /\ wpc'[q] = "send" => res'[q] = Pair(zone[q], "nil") \/ res'[q] = Failed
          /\ wpc' \in [QTypes -> {"exchange", "tcp", "send", "exited"}]
          /\ DOMAIN res' = QTypes
          /\ \A p \in QTypes : p # q => wpc'[p] = wpc[p] /\ res'[p] = res[p]
          /\ UNCHANGED <<server, ctxDone, chVars, procVars>>
      BY <2>1, Asking
    <3>2. TypeOK'
      BY <2>0, <2>s, <3>1 DEF TypeOK, server, chVars, procVars
    <3>3. ResOK'
      BY <2>0, <3>1 DEF ResOK, server
    <3>4. QueueOK'
      <4>1. \A i \in 1..Len(resCh) : resCh[i] \in QTypes /\ resCh[i] # q
        BY <2>0, <3>1 DEF QueueOK
      <4>2. QED
        BY <2>0, <3>1, <4>1 DEF QueueOK, chVars
    <3>5. ClosedOK'
      BY <2>0, <3>1 DEF ClosedOK, AllDone, chVars
    <3>6. QED
      BY <3>2, <3>3, <3>4, <3>5 DEF TypeInv
  <2>2. ASSUME NEW q \in QTypes, Send(q) PROVE TypeInv'
    <3>1. Exits(q) /\ resCh' = Append(resCh, q) /\ Len(resCh) < Cardinality(QTypes)
      BY <2>2 DEF Send
    <3>2. /\ resCh' \in Seq(QTypes) /\ Len(resCh') = Len(resCh) + 1
          /\ \A i \in 1..Len(resCh') : resCh'[i] = IF i <= Len(resCh) THEN resCh[i] ELSE q
      BY <2>0, <3>1
    <3>3. Len(resCh') <= Cardinality(QTypes)
      <4>1. Cardinality(QTypes) \in Nat
        BY QTypesFinite, FS_CardinalityType
      <4>2. QED
        BY <2>0, <3>1, <3>2, <4>1
    <3>4. QueueOK'
      <4> SUFFICES ASSUME NEW i \in 1..Len(resCh') PROVE wpc'[resCh'[i]] = "exited"
        BY DEF QueueOK
      <4>1. CASE i <= Len(resCh)
        <5>1. i \in 1..Len(resCh) /\ resCh'[i] = resCh[i] /\ resCh[i] \in QTypes
          BY <2>0, <3>2, <4>1
        <5>2. wpc[resCh[i]] = "exited"
          BY <2>0, <5>1 DEF QueueOK
        <5>3. QED
          BY <2>e, <3>1, <5>1, <5>2
      <4>2. CASE ~(i <= Len(resCh))
        BY <2>e, <3>1, <3>2, <4>2
      <4>3. QED
        BY <4>1, <4>2
    <3>5. TypeOK'
      BY <2>0, <2>e, <2>s, <3>1, <3>2, <3>3 DEF TypeOK, server, procVars
    <3>6. QED
      BY <2>e, <3>1, <3>4, <3>5 DEF TypeInv
  <2>3. ASSUME NEW q \in QTypes, Drop(q) PROVE TypeInv'
    <3>1. Exits(q) /\ UNCHANGED resCh
      BY <2>3 DEF Drop, chVars
    <3>2. QueueOK'
      <4>1. \A i \in 1..Len(resCh) : resCh[i] \in QTypes /\ wpc[resCh[i]] = "exited"
        BY <2>0 DEF QueueOK
      <4>2. QED
        BY <2>e, <3>1, <4>1 DEF QueueOK
    <3>3. TypeOK'
      BY <2>0, <2>e, <2>s, <3>1 DEF TypeOK, server, procVars
    <3>4. QED
      BY <2>e, <3>1, <3>2, <3>3 DEF TypeInv
  <2>4. CASE CloseCh
    <3>1. closed' \in BOOLEAN
      BY <2>4, Zenon DEF CloseCh
    <3>2. /\ AllDone /\ UNCHANGED <<server, ctxDone, wpc, res, resCh, procVars>>
      BY <2>4 DEF CloseCh
    <3>3. QED
      BY <2>0, <2>s, <3>1, <3>2 DEF TypeInv, TypeOK, ResOK, QueueOK, ClosedOK, AllDone, server, procVars
  <2>5. CASE Collect
    <3> DEFINE h == Head(resCh)
    <3>1. /\ h \in QTypes /\ h = resCh[1] /\ 1 \in 1..Len(resCh)
          /\ Tail(resCh) \in Seq(QTypes) /\ Len(Tail(resCh)) <= Len(resCh)
          /\ \A i \in 1..Len(Tail(resCh)) : i + 1 \in 1..Len(resCh) /\ Tail(resCh)[i] = resCh[i + 1]
      BY <2>0, <2>5, QueueParts DEF Collect
    <3>2. wpc[h] = "exited"
      BY <2>0, <3>1 DEF QueueOK
    <3>3. zone[h] \in Seq(Nat) /\ (res[h].err = "nil" => res[h].addrs = zone[h])
      BY <3>1, <3>2, ResultForms
    <3>4. \/ errs' = errs \cup {h} /\ addrs' = addrs
          \/ errs' = errs /\ addrs' = addrs \o zone[h]
      BY <2>5, <3>3 DEF Collect
    <3>5. resCh' = Tail(resCh) /\ UNCHANGED <<server, ctxDone, wpc, res, closed, ret>>
      BY <2>5 DEF Collect
    <3>6. addrs \in Seq(Nat) /\ errs \subseteq QTypes /\ Cardinality(QTypes) \in Nat
      BY <2>0, QTypesFinite, FS_CardinalityType DEF TypeOK
    <3> HIDE DEF h
    <3>7. addrs' \in Seq(Nat) /\ errs' \subseteq QTypes
      <4>1. addrs \o zone[h] \in Seq(Nat)
        BY <3>3, <3>6
      <4>2. QED
        BY <3>1, <3>4, <3>6, <4>1
    <3>8. resCh' \in Seq(QTypes) /\ Len(resCh') <= Cardinality(QTypes)
      <4>1. Len(resCh) <= Cardinality(QTypes) /\ Len(Tail(resCh)) \in Nat
        BY <2>0, <3>1 DEF TypeOK
      <4>2. QED
        BY <2>0, <3>1, <3>5, <3>6, <4>1
    <3>9. TypeOK'
      BY <2>0, <2>s, <3>5, <3>7, <3>8 DEF TypeOK, server
    <3>10. QueueOK'
      BY <2>0, <3>1, <3>5 DEF QueueOK
    <3>11. QED
      BY <2>0, <3>5, <3>9, <3>10 DEF TypeInv, ResOK, ClosedOK, AllDone, server
  <2>6. CASE Drained \/ CtxEnded
    <3>1. ret' \in [addrs : Seq(Nat), err : {"nil", "failed", "ctxErr"}]
      BY <2>6, Returned
    <3>2. ret'.addrs \in Seq(Nat) /\ ret'.err \in {"nil", "failed", "ctxErr"}
      BY <3>1
    <3>3. UNCHANGED <<server, ctxDone, wpc, res, chVars, addrs, errs>>
      BY <2>6 DEF Drained, CtxEnded
    <3>4. QED
      BY <2>0, <2>s, <3>2, <3>3 DEF TypeInv, TypeOK, ResOK, QueueOK, ClosedOK, AllDone, server, chVars
  <2>7. CASE CtxExpire
    <3>1. ctxDone' \in BOOLEAN
      BY <2>7, Zenon DEF CtxExpire
    <3>2. UNCHANGED <<server, wpc, res, chVars, procVars>>
      BY <2>7 DEF CtxExpire
    <3>3. QED
      BY <2>0, <2>s, <3>1, <3>2 DEF TypeInv, TypeOK, ResOK, QueueOK, ClosedOK, AllDone, server, chVars, procVars
  <2>8. CASE Park \/ UNCHANGED vars
    <3>1. UNCHANGED <<server, ctxDone, wpc, res, chVars, procVars>>
      BY <2>8 DEF Park, vars
    <3>2. QED
      BY <2>0, <2>s, <3>1 DEF TypeInv, TypeOK, ResOK, QueueOK, ClosedOK, AllDone, server, chVars, procVars
  <2>9. QED
    BY <2>1, <2>2, <2>3, <2>4, <2>5, <2>6, <2>7, <2>8 DEF Next, Worker, processResults, Finished
<1>3. QED
  BY <1>1, <1>2, PTL DEF Spec

(* The queue, the results and what Resolve returns are always of their types,
   and the channel never holds more than its buffer. *)
THEOREM TypeCorrect == Spec => []TypeOK
<1>1. TypeInv => TypeOK
  BY DEF TypeInv
<1>2. QED
  BY <1>1, Typing, PTL

(* The channel is closed after the last worker's wg.Done only, when every one of
   them has its result: however the exchanges, the sends, the drops at the end
   of the context and the closer interleave, no send meets a closed channel. *)
THEOREM CloseComesLast == Spec => []CloseIsLast
<1>1. TypeInv => CloseIsLast
  BY ResultForms DEF TypeInv, ClosedOK, AllDone, CloseIsLast
<1>2. QED
  BY <1>1, Typing, PTL

-----------------------------------------------------------------------------
(* While the results of the types received stay, so does what they account for. *)
LEMMA SameRecords ==
  ASSUME NEW C \in SUBSET QTypes, \A q \in C : res'[q] = res[q], zone' = zone
  PROVE  Records(C)' = Records(C) /\ {q \in C : res'[q].err # "nil"} = {q \in C : res[q].err # "nil"}
<1>1. {q \in C : res'[q].err = "nil"} = {q \in C : res[q].err = "nil"}
  OBVIOUS
<1>2. QED
  BY <1>1 DEF Records

LEMMA Undisturbed ==
  ASSUME NEW C \in SUBSET QTypes, Collected(C), ctxDone => ctxDone',
         UNCHANGED <<zone, wpc, res, resCh, addrs, errs>>
  PROVE  Collected(C)'
<1>1. Records(C)' = Records(C) /\ {q \in C : res'[q].err # "nil"} = {q \in C : res[q].err # "nil"}
  BY SameRecords
<1>2. Elems(addrs)' = Elems(addrs) /\ Elems(resCh)' = Elems(resCh)
  BY DEF Elems
<1>3. QED
  BY <1>1, <1>2 DEF Collected

LEMMA SameReturn ==
  ASSUME NothingLost, BestFirst, UNCHANGED <<zone, ctxDone, res, ret>>
  PROVE  NothingLost' /\ BestFirst'
<1>1. BestFirst'
  BY DEF BestFirst
<1> DEFINE answered == {q \in QTypes : res[q].err = "nil"}
           records == UNION {Elems(zone[q]) : q \in answered}
<1>2. answered' = answered
  OBVIOUS
<1>3. records' = records /\ Elems(ret.addrs)' = Elems(ret.addrs)
  BY <1>2 DEF Elems
<1>4. ASSUME ret' # None, ~ctxDone'
      PROVE  /\ Elems(ret.addrs)' = records'
             /\ ret'.err # "nil" <=> ret'.addrs = <<>> /\ answered' # QTypes
  <2>1. /\ Elems(ret.addrs) = records
        /\ ret.err # "nil" <=> ret.addrs = <<>> /\ answered # QTypes
    BY <1>4 DEF NothingLost
  <2> HIDE DEF answered, records
  <2>2. QED
    BY <1>2, <1>3, <2>1
<1>5. NothingLost'
  BY <1>4 DEF NothingLost
<1>6. QED
  BY <1>1, <1>5

(* A step that neither collects nor returns, of a worker that has not left:
   Resolve is then still waiting, or its context is done. *)
LEMMA WorkerKeeps ==
  ASSUME TypeInv, LookupInv, NEW q \in QTypes, wpc[q] # "exited",
         UNCHANGED <<server, ctxDone, closed, procVars>>,
         \A p \in QTypes : p # q => wpc'[p] = wpc[p] /\ res'[p] = res[p],
         \A x \in Elems(resCh) : x \in Elems(resCh'),
         ~ctxDone /\ wpc'[q] = "exited" => q \in Elems(resCh')
  PROVE  LookupInv'
<1>1. PICK C \in SUBSET QTypes : Collected(C)
  BY DEF LookupInv
<1>2. q \notin C
  BY <1>1 DEF Collected
<1>3. \A p \in C : wpc'[p] = "exited" /\ res'[p] = res[p]
  BY <1>1, <1>2 DEF Collected
<1>4. Collected(C)'
  <2>1. /\ Records(C)' = Records(C)
        /\ {p \in C : res'[p].err # "nil"} = {p \in C : res[p].err # "nil"}
    BY <1>3, SameRecords DEF server
  <2>2. Elems(addrs)' = Records(C)' /\ errs' = {p \in C : res'[p].err # "nil"}
    BY <1>1, <2>1 DEF Collected, procVars, Elems
  <2>3. ASSUME ~ctxDone', NEW p \in QTypes, wpc'[p] = "exited"
        PROVE  p \in C \/ p \in Elems(resCh')
    <3>1. CASE p = q
      BY <2>3, <3>1
    <3>2. CASE p # q
      BY <1>1, <2>3, <3>2 DEF Collected
    <3>3. QED
      BY <3>1, <3>2
  <2>4. Elems(resCh') = Elems(resCh)'
    BY DEF Elems
  <2>5. QED
    BY <1>3, <2>2, <2>3, <2>4 DEF Collected
<1>5. ret = None \/ ctxDone
  BY DEF LookupInv, TypeInv, ClosedOK, AllDone
<1>6. ret' = ret /\ ctxDone' = ctxDone /\ BestFirst
  BY DEF procVars, LookupInv
<1>7. NothingLost' /\ BestFirst'
  BY <1>5, <1>6 DEF NothingLost, BestFirst
<1>8. ret' # None /\ ~ctxDone' => closed'
  BY <1>5, <1>6
<1>9. QED
  BY <1>4, <1>7, <1>8 DEF LookupInv

LEMMA Lookup == Spec => []LookupInv
<1>1. Init => LookupInv
  <2> SUFFICES ASSUME Init PROVE LookupInv
    OBVIOUS
  <2>1. Records({}) = {} /\ Elems(addrs) = {} /\ errs = {} /\ ret = None
    BY DEF Records, Init, Elems
  <2>2. Collected({})
    BY <2>1 DEF Collected, Init
  <2>3. QED
    BY <2>1, <2>2 DEF LookupInv, NothingLost, BestFirst
<1>2. TypeInv /\ TypeInv' /\ LookupInv /\ [Next]_vars => LookupInv'
  <2> SUFFICES ASSUME TypeInv, TypeInv', LookupInv, [Next]_vars PROVE LookupInv'
    OBVIOUS
  <2>0. /\ resCh \in Seq(QTypes) /\ addrs \in Seq(Nat)
        /\ wpc \in [QTypes -> {"exchange", "tcp", "send", "exited"}] /\ DOMAIN res = QTypes
    BY DEF TypeInv, TypeOK
  <2>1. PICK C \in SUBSET QTypes : Collected(C)
    BY DEF LookupInv
  <2>2. ASSUME NEW q \in QTypes, AskUdp(q) \/ AskTcp(q) \/ AskDoh(q) PROVE LookupInv'
    <3>1. /\ wpc[q] \in {"exchange", "tcp"} /\ wpc'[q] \in {"tcp", "send"}
          /\ \A p \in QTypes : p # q => wpc'[p] = wpc[p] /\ res'[p] = res[p]
          /\ UNCHANGED <<server, ctxDone, chVars, procVars>>
      BY <2>2, Asking
    <3>2. wpc[q] # "exited" /\ wpc'[q] # "exited" /\ UNCHANGED <<resCh, closed>>
      BY <3>1 DEF chVars
    <3>3. QED
      BY <3>1, <3>2, WorkerKeeps
  <2>3. ASSUME NEW q \in QTypes, Send(q) PROVE LookupInv'
    <3>1. /\ wpc[q] # "exited" /\ resCh' = Append(resCh, q)
          /\ \A p \in QTypes : p # q => wpc'[p] = wpc[p] /\ res'[p] = res[p]
          /\ UNCHANGED <<server, ctxDone, closed, procVars>>
      BY <2>0, <2>3 DEF Send
    <3>2. \A x \in Elems(resCh) : x \in Elems(resCh')
      <4>1. \A i \in DOMAIN resCh : i \in DOMAIN resCh' /\ resCh'[i] = resCh[i]
        BY <2>0, <3>1
      <4>2. QED
        BY <4>1 DEF Elems
    <3>3. q \in Elems(resCh')
      <4>1. Len(resCh') \in DOMAIN resCh' /\ resCh'[Len(resCh')] = q
        BY <2>0, <3>1
      <4>2. QED
        BY <4>1 DEF Elems
    <3>4. QED
      BY <3>1, <3>2, <3>3, WorkerKeeps
  <2>4. ASSUME NEW q \in QTypes, Drop(q) PROVE LookupInv'
    <3>1. /\ wpc[q] # "exited" /\ UNCHANGED <<resCh, closed>> /\ ctxDone
          /\ \A p \in QTypes : p # q => wpc'[p] = wpc[p] /\ res'[p] = res[p]
          /\ UNCHANGED <<server, ctxDone, closed, procVars>>
      BY <2>0, <2>4 DEF Drop, chVars
    <3>2. QED
      BY <3>1, WorkerKeeps
  <2>5. CASE CloseCh
    <3>1. closed' /\ UNCHANGED <<transport, zone, ctxDone, wpc, res, resCh, addrs, errs, ret>>
      BY <2>5 DEF CloseCh, server, procVars
    <3>2. Collected(C)'
      BY <2>1, <3>1, Undisturbed
    <3>3. NothingLost' /\ BestFirst'
      BY <3>1, SameReturn DEF LookupInv
    <3>4. QED
      BY <3>1, <3>2, <3>3 DEF LookupInv
  <2>6. CASE Collect
    <3>0. PICK h \in QTypes : h = Head(resCh)
      BY <2>0, <2>6, QueueParts DEF Collect
    <3> DEFINE D == C \cup {h}
    <3>1. /\ h \in QTypes /\ h = resCh[1] /\ 1 \in 1..Len(resCh)
          /\ \A x \in Elems(resCh) : x = h \/ x \in Elems(Tail(resCh))
      BY <2>0, <2>6, <3>0, QueueParts DEF Collect
    <3>2. wpc[h] = "exited"
      BY <3>1 DEF TypeInv, QueueOK
    <3>3. zone[h] \in Seq(Nat) /\ (res[h].err = "nil" => res[h].addrs = zone[h])
      BY <3>1, <3>2, ResultForms
    <3>4. /\ res[h].err # "nil" => errs' = errs \cup {h} /\ addrs' = addrs
          /\ res[h].err = "nil" => errs' = errs /\ addrs' = addrs \o zone[h]
      BY <2>6, <3>0, <3>3 DEF Collect
    <3>5. resCh' = Tail(resCh) /\ UNCHANGED <<transport, zone, ctxDone, wpc, res, closed, ret>>
      BY <2>6 DEF Collect, server
    <3>6. ret = None
      BY <2>6 DEF Collect
    <3>7. D \in SUBSET QTypes /\ \A q \in D : wpc'[q] = "exited"
      BY <2>1, <3>1, <3>2, <3>5 DEF Collected
    <3>8. ASSUME ~ctxDone', NEW q \in QTypes, wpc'[q] = "exited"
          PROVE  q \in D \/ q \in Elems(resCh')
      BY <2>1, <3>1, <3>5, <3>8 DEF Collected
    <3>9. Elems(addrs') = Records(D) /\ errs' = {q \in D : res[q].err # "nil"}
      <4>1. CASE res[h].err # "nil"
        <5>1. {p \in D : res[p].err = "nil"} = {p \in C : res[p].err = "nil"}
          BY <4>1
        <5>2. Records(D) = Records(C)
          BY <5>1 DEF Records
        <5>3. QED
          BY <2>1, <3>4, <4>1, <5>2 DEF Collected
      <4>2. CASE res[h].err = "nil"
        <5>1. {p \in D : res[p].err = "nil"} = {p \in C : res[p].err = "nil"} \cup {h}
          BY <4>2
        <5>2. Records(D) = Records(C) \cup Elems(zone[h])
          BY <5>1 DEF Records
        <5>3. Elems(addrs') = Elems(addrs) \cup Elems(zone[h])
          BY <2>0, <3>3, <3>4, <4>2, ElemsJoin
        <5>4. QED
          BY <2>1, <3>4, <4>2, <5>2, <5>3 DEF Collected
      <4>3. QED
        BY <4>1, <4>2
    <3>10. Records(D)' = Records(D) /\ Elems(addrs)' = Elems(addrs') /\ Elems(resCh)' = Elems(resCh')
      <4>1. Records(D)' = Records(D)
        BY <3>5, <3>7, SameRecords
      <4>2. QED
        BY <4>1 DEF Elems
    <3>11. QED
      BY <3>5, <3>6, <3>7, <3>8, <3>9, <3>10 DEF LookupInv, Collected, NothingLost, BestFirst
  <2>7. ASSUME Drained \/ CtxEnded PROVE LookupInv'
    <3>1. UNCHANGED <<transport, zone, ctxDone, wpc, res, resCh, closed, addrs, errs>>
      BY <2>7 DEF Drained, CtxEnded, server, chVars
    <3>2. /\ ret' # None /\ Elems(ret'.addrs) = Elems(addrs)
          /\ ret'.addrs = <<>> <=> addrs = <<>>
          /\ \A i \in DOMAIN ret'.addrs : ret'.addrs[1] <= ret'.addrs[i]
      BY <2>7, Returned
    <3>3. Collected(C)'
      BY <2>1, <3>1, Undisturbed
    <3>4. BestFirst'
      BY <3>2 DEF BestFirst
    <3>5. ASSUME ~ctxDone' PROVE closed' /\ NothingLost'
      <4>1. Drained /\ closed /\ resCh = <<>> /\ ~ctxDone
        BY <2>7, <3>1, <3>5 DEF Drained, CtxEnded
      <4>2. C = QTypes
        <5>1. AllDone /\ Elems(resCh) = {}
          BY <4>1 DEF TypeInv, ClosedOK, Elems
        <5>2. QED
          BY <2>1, <4>1, <5>1 DEF Collected, AllDone
      <4> DEFINE answered == {q \in QTypes : res[q].err = "nil"}
      <4>3. Elems(ret'.addrs) = UNION {Elems(zone[q]) : q \in answered}
        BY <2>1, <3>2, <4>2 DEF Collected, Records
      <4>4. errs # {} <=> answered # QTypes
        BY <2>1, <4>2 DEF Collected
      <4>5. ret'.err # "nil" <=> addrs = <<>> /\ errs # {}
        <5>1. CASE addrs # <<>>
          <6>1. ret' = Pair(sortAddrs(addrs), "nil")
            BY <4>1, <5>1 DEF Drained
          <6>2. sortAddrs(addrs) \in Seq(Nat)
            BY <2>0, SortedAre
          <6>3. ret'.err = "nil"
            BY <6>1, <6>2, Pairs
          <6>4. QED
            BY <5>1, <6>3
        <5>2. CASE addrs = <<>>
          <6>1. ret' = IF errs # {} THEN Failed ELSE Nothing
            BY <4>1, <5>2 DEF Drained
          <6>2. QED
            BY <5>2, <6>1, EmptyPairs
        <5>3. QED
          BY <5>1, <5>2
      <4>6. answered' = answered
        BY <3>1
      <4> HIDE DEF answered
      <4>7. /\ Elems(ret'.addrs) = UNION {Elems(zone'[q]) : q \in answered'}
            /\ ret'.err # "nil" <=> ret'.addrs = <<>> /\ answered' # QTypes
        BY <3>1, <3>2, <4>3, <4>4, <4>5, <4>6
      <4>8. NothingLost'
        BY <4>7 DEF NothingLost, answered, Elems
      <4>9. QED
        BY <3>1, <4>1, <4>8
    <3>6. QED
      BY <3>3, <3>4, <3>5 DEF LookupInv, NothingLost
  <2>8. CASE CtxExpire
    <3>1. /\ ret = None /\ ctxDone'
          /\ UNCHANGED <<transport, zone, wpc, res, resCh, closed, addrs, errs, ret>>
      BY <2>8 DEF CtxExpire, server, chVars, procVars
    <3>2. Collected(C)'
      BY <2>1, <3>1, Undisturbed
    <3>3. QED
      BY <3>1, <3>2 DEF LookupInv, NothingLost, BestFirst
  <2>9. CASE Park \/ UNCHANGED vars
    <3>1. UNCHANGED <<transport, zone, ctxDone, wpc, res, resCh, closed, addrs, errs, ret>>
      BY <2>9 DEF Park, vars, server, chVars, procVars
    <3>2. Collected(C)'
      BY <2>1, <3>1, Undisturbed
    <3>3. NothingLost' /\ BestFirst'
      BY <3>1, SameReturn DEF LookupInv
    <3>4. QED
      BY <3>1, <3>2, <3>3 DEF LookupInv
  <2>10. QED
    BY <2>2, <2>3, <2>4, <2>5, <2>6, <2>7, <2>8, <2>9 DEF Next, Worker, processResults, Finished
<1>3. QED
  BY <1>1, <1>2, Typing, PTL DEF Spec

(* A caller that waits gets every record of every type the server answered
   for, whichever worker sends first and wherever the closer comes in, and an
   error exactly when there is none and some query failed. *)
THEOREM NothingIsLost == Spec => []NothingLost
<1>1. LookupInv => NothingLost
  BY DEF LookupInv
<1>2. QED
  BY <1>1, Lookup, PTL

(* The first address returned, the one that is dialed, is the best of those
   returned, at the end of the channel as at the end of the context. *)
THEOREM BestIsFirst == Spec => []BestFirst
<1>1. LookupInv => BestFirst
  BY DEF LookupInv
<1>2. QED
  BY <1>1, Lookup, PTL

-----------------------------------------------------------------------------
(* The call is a Resolver call: it returns once, and with the error of the
   context only when the context is done. *)
THEOREM LookupIsResolver == Spec => Contract!Init /\ [][Contract!Next]_(Contract!cvars)
<1> USE DEF Contract!cvars
<1>1. Init => Contract!Init
  BY DEF Init, Contract!Init, Kind
<1>2. TypeInv /\ [Next]_vars => [Contract!Next]_(Contract!cvars)
  <2> SUFFICES ASSUME TypeInv, [Next]_vars PROVE [Contract!Next]_(Contract!cvars)
    OBVIOUS
  <2>1. CASE Drained \/ CtxEnded
    <3>1. ret = None /\ Kind(ret) = None /\ UNCHANGED ctxDone
      BY <2>1 DEF Drained, CtxEnded, Kind
    <3>2. ret' # None /\ ret' \in [addrs : Seq(Nat), err : {"nil", "failed", "ctxErr"}]
      BY <2>1, Returned
    <3>3. Kind(ret') = IF ret'.err = "nil" THEN "answer" ELSE ret'.err
      BY <3>2 DEF Kind
    <3>4. ret'.err \in {"nil", "failed", "ctxErr"}
      BY <3>2
    <3>5. Kind(ret') \in {"answer", "failed", "ctxErr"}
      BY <3>3, <3>4
    <3>6. ret'.err = "ctxErr" => ctxDone
      <4>1. CASE CtxEnded
        BY <4>1 DEF CtxEnded
      <4>2. CASE Drained
        <5>1. sortAddrs(addrs) \in Seq(Nat)
          BY SortedAre DEF TypeInv, TypeOK
        <5>2. Pair(sortAddrs(addrs), "nil").err = "nil"
          BY <5>1, Pairs
        <5>3. QED
          BY <4>2, <5>2, EmptyPairs DEF Drained
      <4>3. QED
        BY <2>1, <4>1, <4>2
    <3>7. Contract!Return
      BY <3>1, <3>3, <3>4, <3>5, <3>6 DEF Contract!Return, Kind
    <3>8. QED
      BY <3>7 DEF Contract!Next
  <2>2. CASE CtxExpire
    BY <2>2 DEF CtxExpire, procVars, Kind, Contract!Next, Contract!Expire
  <2>3. ASSUME NEW q \in QTypes, Worker(q) PROVE UNCHANGED Contract!cvars
    BY <2>3 DEF Worker, AskUdp, AskTcp, AskDoh, Send, Drop, procVars, Kind
  <2>4. CASE CloseCh \/ Park \/ Collect \/ UNCHANGED vars
    BY <2>4 DEF CloseCh, Park, Collect, vars, procVars, Kind
  <2>5. QED
    BY <2>1, <2>2, <2>3, <2>4 DEF Next, processResults, Finished
<1>3. QED
  BY <1>1, <1>2, Typing, PTL DEF Spec
=============================================================================
