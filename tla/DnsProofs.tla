------------------------------ MODULE DnsProofs ------------------------------
(***************************************************************************)
(* Proofs about Dns, for any command lines, hosts, answers and deadlines.  *)
(* ResolveHost calls drive the cache of DnsCache only by its own steps, so *)
(* what DnsCacheProofs proves of the cache holds here, and what a call     *)
(* returns can be followed back to the chain that NewDns built.            *)
(***************************************************************************)
EXTENDS Dns, DnsCacheProofs, WellFoundedInduction

-----------------------------------------------------------------------------
(* The cache below ResolveHost behaves as DnsCache says: every step of the
   whole is a step of the cache or none of it. *)
THEOREM CacheIsInside == DnsSpec => Spec
<1>1. DnsInit => Init
  BY DEF DnsInit
<1>2. [DnsNext]_allVars => [Next]_vars
  <2> SUFFICES ASSUME [DnsNext]_allVars PROVE [Next]_vars
    OBVIOUS
  <2>1. ASSUME NEW c \in Calls,
               ResolveLiteral(c) \/ ResolveSystem(c) \/ SystemReturns(c)
        PROVE  UNCHANGED vars
    BY <2>1 DEF ResolveLiteral, ResolveSystem, SystemReturns
  <2>2. ASSUME NEW c \in Calls, ResolveBypass(c) PROVE Begin(c)
    BY <2>2 DEF ResolveBypass
  <2>3. ASSUME NEW c \in Calls, CacheStep(c) PROVE Step(c)
    BY <2>3 DEF CacheStep
  <2>4. ASSUME NEW c \in Calls, ChainReturns(c) PROVE LookupReturn(c)
    BY <2>4 DEF ChainReturns
  <2>5. ASSUME NEW c \in Calls, Expire(c) PROVE CtxExpire(c)
    BY <2>5 DEF Expire
  <2>6. CASE Shutdown \/ AllReturned \/ UNCHANGED allVars
    BY <2>6 DEF Shutdown, AllReturned, allVars
  <2>7. CASE Pass
    BY <2>7 DEF Pass, Next
  <2>8. QED
    BY <2>1, <2>2, <2>3, <2>4, <2>5, <2>6, <2>7 DEF DnsNext, Next
<1>3. QED
  BY <1>1, <1>2, PTL DEF DnsSpec, Spec

(* What was proved of the cache alone therefore holds below ResolveHost, with
   its budgets, the chain and the shutdown around it. *)
COROLLARY StackKeepsCache ==
  DnsSpec => [](SingleFlight /\ AnswerFresh /\ CancelIsolation /\ CacheBounded)
BY CacheIsInside, LookupsCoalesce, AnswersAreFresh, CancelsAreIsolated, CacheIsBounded, PTL

-----------------------------------------------------------------------------
(* Induction over the naturals, by way of a least counterexample. *)
LEMMA Least ==
  ASSUME NEW S \in SUBSET Nat, S # {}
  PROVE  \E m \in S : \A x \in S : m <= x
<1>1. PICK m \in S : \A y \in S : ~(<<y, m>> \in OpToRel(<, Nat))
  BY WFMin, NatLessThanWellFounded
<1>2. ASSUME NEW x \in S PROVE m <= x
  <2>1. x \in Nat /\ m \in Nat
    OBVIOUS
  <2>2. x < m => <<x, m>> \in OpToRel(<, Nat)
    BY <2>1 DEF OpToRel
  <2>3. ~(x < m)
    BY <1>1, <2>2
  <2>4. QED
    BY <2>1, <2>3
<1>3. QED
  BY <1>2

LEMMA Inductive ==
  ASSUME NEW S \in SUBSET Nat, 0 \in S, \A n \in Nat : n \in S => n + 1 \in S
  PROVE  \A n \in Nat : n \in S
<1> SUFFICES ASSUME Nat \ S # {} PROVE FALSE
  OBVIOUS
<1>1. PICK m \in Nat \ S : \A x \in Nat \ S : m <= x
  BY Least
<1>2. m - 1 \in Nat /\ (m - 1) + 1 = m
  BY <1>1
<1>3. m - 1 \in S
  BY <1>1, <1>2
<1>4. QED
  BY <1>1, <1>2, <1>3

(* The loop of NewDns over the servers: addPlain is applied to each in turn. *)
LEMMA LoopSteps ==
  ASSUME NEW s \in Seq(Typed)
  PROVE  \E g : /\ g[0] = <<>>
                /\ \A k \in 1..Len(s) : g[k] = addPlain(g[k - 1], s[k])
                /\ FoldLeft(addPlain, <<>>, s) = g[Len(s)]
<1> DEFINE F(f, n) == [t \in SUBSET (1..n) |->
                         IF t = {} THEN <<>>
                         ELSE addPlain(f[t \ {Max(t)}], s[Max(t)])]
           Good == {m \in Nat : \E f : f = F(f, m)}
<1>1. \A n \in Nat : \A t \in SUBSET (1..n) : n \in t => Max(t) = n
  <2> SUFFICES ASSUME NEW n \in Nat, NEW t \in SUBSET (1..n), n \in t PROVE Max(t) = n
    OBVIOUS
  <2>1. \A y \in t : n >= y
    OBVIOUS
  <2>2. \A x \in t : (\A y \in t : x >= y) => x = n
    OBVIOUS
  <2>3. QED
    BY <2>1, <2>2 DEF Max
<1>2. 0 \in Good
  <2> DEFINE h == [t \in SUBSET (1..0) |-> <<>>]
  <2>1. \A t \in SUBSET (1..0) : t = {}
    OBVIOUS
  <2>2. h = F(h, 0)
    BY <2>1
  <2>3. QED
    BY <2>2
<1>3. ASSUME NEW n \in Nat, n \in Good PROVE n + 1 \in Good
  <2>1. PICK f : f = F(f, n)
    BY <1>3
  <2> DEFINE m == n + 1
             h == [t \in SUBSET (1..m) |->
                     IF m \in t THEN addPlain(f[t \ {m}], s[m]) ELSE f[t]]
  <2>2. m \in Nat /\ \A t \in SUBSET (1..m) : m \notin t => t \in SUBSET (1..n)
    OBVIOUS
  <2>3. SUBSET (1..n) \subseteq SUBSET (1..m)
    OBVIOUS
  <2>4. \A t \in SUBSET (1..n) :
          f[t] = IF t = {} THEN <<>> ELSE addPlain(f[t \ {Max(t)}], s[Max(t)])
    BY <2>1
  <2>5. \A t \in SUBSET (1..n) : h[t] = f[t]
    <3>1. \A t \in SUBSET (1..n) : m \notin t
      OBVIOUS
    <3>2. QED
      BY <2>3, <3>1
  <2>6. \A t \in SUBSET (1..m) : m \in t => h[t] = addPlain(f[t \ {m}], s[m])
    OBVIOUS
  <2> HIDE DEF m
  <2>7. ASSUME NEW t \in SUBSET (1..m)
        PROVE  h[t] = IF t = {} THEN <<>> ELSE addPlain(h[t \ {Max(t)}], s[Max(t)])
    <3> HIDE DEF h
    <3>1. CASE m \in t
      <4>1. Max(t) = m
        BY <1>1, <2>2, <3>1
      <4>2. t \ {m} \in SUBSET (1..n)
        BY <2>2
      <4>3. QED
        BY <2>5, <2>6, <3>1, <4>1, <4>2
    <3>2. CASE m \notin t
      <4>1. t \in SUBSET (1..n) /\ t \ {Max(t)} \in SUBSET (1..n)
        BY <2>2, <3>2
      <4>2. QED
        BY <2>4, <2>5, <4>1
    <3>3. QED
      BY <3>1, <3>2
  <2>8. h = F(h, m)
    BY <2>7
  <2>9. QED
    BY <2>2, <2>8 DEF m
<1>4. \A n \in Nat : n \in Good
  <2>1. Good \in SUBSET Nat
    OBVIOUS
  <2> HIDE DEF Good
  <2>2. QED
    BY <1>2, <1>3, <2>1, Inductive
<1> DEFINE n == Len(s)
           iter == CHOOSE f : f = F(f, n)
           g == [k \in 0..n |-> iter[1..k]]
<1>5. n \in Nat /\ DOMAIN s = 1..n
  OBVIOUS
<1>6. iter = F(iter, n)
  BY <1>4, <1>5
<1>7. FoldLeft(addPlain, <<>>, s) = iter[1..n]
  BY <1>5 DEF FoldLeft, MapThenFoldSet
<1>8. g[0] = <<>>
  <2>1. 1..0 = {} /\ 0 \in 0..n /\ {} \in SUBSET (1..n)
    BY <1>5
  <2>2. iter[{}] = <<>>
    BY <1>6, <2>1
  <2>3. QED
    BY <2>1, <2>2
<1>9. ASSUME NEW k \in 1..n PROVE g[k] = addPlain(g[k - 1], s[k])
  <2>1. /\ k \in Nat /\ 1..k \in SUBSET (1..n) /\ k \in 1..k /\ (1..k) \ {k} = 1..(k - 1)
        /\ k \in 0..n /\ k - 1 \in 0..n
    BY <1>5
  <2>2. Max(1..k) = k
    BY <1>1, <2>1
  <2>3. iter[1..k] = addPlain(iter[(1..k) \ {Max(1..k)}], s[Max(1..k)])
    BY <1>6, <2>1
  <2>4. g[k] = iter[1..k] /\ g[k - 1] = iter[1..(k - 1)]
    BY <2>1
  <2> HIDE DEF g, iter
  <2>5. QED
    BY <2>1, <2>2, <2>3, <2>4
<1>10. g[n] = iter[1..n]
  BY <1>5
<1>11. QED
  <2> HIDE DEF g, iter
  <2> QED
    BY <1>7, <1>8, <1>9, <1>10

(* Servers without repetition, all taken from those typed. *)
Kept(p, s) ==
  /\ p \in Seq(Servers)
  /\ IsInjective(p)
  /\ \A i \in 1..Len(p) : \E j \in 1..Len(s) : p[i] = s[j].addr

LEMMA AddPlainKeeps ==
  ASSUME NEW s \in Seq(Typed), NEW k \in 1..Len(s), NEW p, Kept(p, s)
  PROVE  Kept(addPlain(p, s[k]), s)
<1> DEFINE a == s[k].addr
           r == Append(p, a)
<1>1. CASE a = Blank \/ Contains(p, a)
  BY <1>1 DEF addPlain
<1>2. CASE a # Blank /\ ~Contains(p, a)
  <2>1. s[k] \in Typed
    OBVIOUS
  <2>2. a \in Servers
    BY <1>2, <2>1 DEF Typed
  <2>3. p \in Seq(Servers) /\ Len(p) \in Nat /\ \A i \in 1..Len(p) : p[i] # a
    BY <1>2 DEF Contains, Kept
  <2>4. addPlain(p, s[k]) = r
    BY <1>2 DEF addPlain
  <2> HIDE DEF a
  <2>5. /\ r \in Seq(Servers) /\ Len(r) = Len(p) + 1 /\ r[Len(p) + 1] = a
        /\ \A i \in 1..Len(p) : r[i] = p[i]
    BY <2>2, <2>3
  <2> HIDE DEF r
  <2>6. DOMAIN r = 1..(Len(p) + 1) /\ DOMAIN p = 1..Len(p)
    BY <2>3, <2>5
  <2>7. \A i \in 1..(Len(p) + 1) : i \in 1..Len(p) \/ i = Len(p) + 1
    BY <2>3
  <2>8. IsInjective(r)
    <3>1. \A i, j \in 1..Len(p) : p[i] = p[j] => i = j
      BY <2>6 DEF Kept, IsInjective
    <3>2. QED
      BY <2>3, <2>5, <2>6, <2>7, <3>1 DEF IsInjective
  <2>9. \A i \in 1..Len(r) : \E j \in 1..Len(s) : r[i] = s[j].addr
    BY <2>3, <2>5, <2>7 DEF Kept, a
  <2>10. QED
    BY <2>4, <2>5, <2>8, <2>9 DEF Kept
<1>3. QED
  BY <1>1, <1>2

LEMMA LoopKeeps ==
  ASSUME NEW s \in Seq(Typed)
  PROVE  Kept(FoldLeft(addPlain, <<>>, s), s)
<1>1. PICK g : /\ g[0] = <<>>
               /\ \A k \in 1..Len(s) : g[k] = addPlain(g[k - 1], s[k])
               /\ FoldLeft(addPlain, <<>>, s) = g[Len(s)]
  BY LoopSteps
<1> DEFINE Good == {k \in Nat : k <= Len(s) => Kept(g[k], s)}
<1>2. 0 \in Good
  <2>1. Kept(<<>>, s)
    BY DEF Kept, IsInjective
  <2>2. QED
    BY <1>1, <2>1
<1>3. ASSUME NEW k \in Nat, k \in Good PROVE k + 1 \in Good
  <2> SUFFICES ASSUME k + 1 <= Len(s) PROVE Kept(g[k + 1], s)
    OBVIOUS
  <2>1. k <= Len(s) /\ k + 1 \in 1..Len(s) /\ (k + 1) - 1 = k
    OBVIOUS
  <2>2. Kept(g[k], s)
    BY <1>3, <2>1
  <2>3. g[k + 1] = addPlain(g[k], s[k + 1])
    BY <1>1, <2>1
  <2>4. QED
    BY <2>1, <2>2, <2>3, AddPlainKeeps
<1>4. \A k \in Nat : k \in Good
  <2>1. Good \in SUBSET Nat
    OBVIOUS
  <2> HIDE DEF Good
  <2>2. QED
    BY <1>2, <1>3, <2>1, Inductive
<1>5. Len(s) \in Nat
  OBVIOUS
<1>6. QED
  BY <1>1, <1>4, <1>5

(* Where a resolver of the chain comes from. *)
Named(x) ==
  \/ x = Doh /\ args.enableDoh
  \/ x = args.dnsAddr.addr
  \/ \E i \in DOMAIN args.dnsFallback : x = args.dnsFallback[i].addr
  \/ args.dnsFallback = <<>> /\ x \in ToSet(DefaultFallback)

LEMMA NamedIsNotSystem ==
  ASSUME args \in CommandLines, NEW x, Named(x)
  PROVE  x # System
<1>1. args.dnsAddr \in Typed /\ args.dnsFallback \in Seq(Typed)
  BY LinesAreTyped DEF CommandLine
<1>2. System \notin Servers \cup {Doh, Blank}
  BY ServersAreNames DEF System, Doh, Blank
<1>3. \A i \in DOMAIN args.dnsFallback : args.dnsFallback[i].addr \in Servers \cup {Blank}
  <2>1. \A i \in DOMAIN args.dnsFallback : args.dnsFallback[i] \in Typed
    BY <1>1
  <2>2. QED
    BY <2>1 DEF Typed
<1>4. ToSet(DefaultFallback) \subseteq Servers
  <2>1. DOMAIN DefaultFallback = 1..2
    BY DEF DefaultFallback
  <2>2. QED
    BY <2>1, ServersAreNames DEF ToSet
<1>5. QED
  BY <1>1, <1>2, <1>3, <1>4 DEF Named, Typed

(* NewDns races each server that was typed, or is a default, once. *)
LEMMA ChainIsNamed ==
  ASSUME args \in CommandLines
  PROVE  IsInjective(Chain) /\ \A x \in ToSet(Chain) : Named(x)
<1> DEFINE s == <<args.dnsAddr>> \o DnsFallback
           p == FoldLeft(addPlain, <<>>, s)
<1>1. args.dnsAddr \in Typed /\ args.dnsFallback \in Seq(Typed)
  BY LinesAreTyped DEF CommandLine
<1>2. /\ DnsFallback \in Seq(Typed)
      /\ \A j \in 1..Len(DnsFallback) : Named(DnsFallback[j].addr)
  <2>1. CASE args.dnsFallback = <<>>
    <3> DEFINE T(i) == [addr |-> DefaultFallback[i], padded |-> FALSE]
    <3>1. \A i \in 1..2 : T(i) \in Typed /\ T(i).addr = DefaultFallback[i]
      BY ServersAreNames DEF Typed
    <3>2. DnsFallback = [i \in 1..2 |-> T(i)]
      BY <2>1 DEF DnsFallback
    <3> HIDE DEF T
    <3>3. DnsFallback \in Seq(Typed) /\ Len(DnsFallback) = 2
      BY <3>1, <3>2
    <3>4. \A i \in 1..2 : DnsFallback[i].addr \in ToSet(DefaultFallback)
      BY <3>1, <3>2 DEF ToSet, DefaultFallback
    <3>5. QED
      BY <2>1, <3>3, <3>4 DEF Named
  <2>2. CASE args.dnsFallback # <<>>
    <3>1. DnsFallback = args.dnsFallback /\ DOMAIN args.dnsFallback = 1..Len(args.dnsFallback)
      BY <1>1, <2>2 DEF DnsFallback
    <3>2. QED
      BY <1>1, <3>1 DEF Named
  <2>3. QED
    BY <2>1, <2>2
<1>3. s \in Seq(Typed) /\ \A j \in 1..Len(s) : Named(s[j].addr)
  <2> DEFINE a == args.dnsAddr
             f == DnsFallback
  <2>1. a \in Typed /\ f \in Seq(Typed) /\ Named(a.addr)
    BY <1>1, <1>2 DEF Named
  <2>2. \A j \in 1..Len(f) : Named(f[j].addr)
    BY <1>2
  <2> HIDE DEF a, f
  <2>3. /\ <<a>> \o f \in Seq(Typed) /\ Len(<<a>> \o f) = 1 + Len(f) /\ Len(f) \in Nat
        /\ (<<a>> \o f)[1] = a
        /\ \A j \in 2..(1 + Len(f)) : (<<a>> \o f)[j] = f[j - 1]
    BY <2>1
  <2>4. \A j \in 1..(1 + Len(f)) : j = 1 \/ (j \in 2..(1 + Len(f)) /\ j - 1 \in 1..Len(f))
    BY <2>3
  <2>5. QED
    BY <2>1, <2>2, <2>3, <2>4 DEF a, f
<1>4. Kept(p, s)
  BY <1>3, LoopKeeps
<1> HIDE DEF s, p
<1>5. p \in Seq(Servers) /\ DOMAIN p = 1..Len(p) /\ IsInjective(p)
  BY <1>4 DEF Kept
<1>6. \A i \in DOMAIN p : Named(p[i]) /\ p[i] # Doh
  BY <1>3, <1>4, <1>5, ServersAreNames DEF Kept
<1>7. Chain = IF args.enableDoh /\ args.dohUrl # Blank THEN Append(p, Doh) ELSE p
  BY DEF Chain, p, s
<1>8. CASE Chain = p
  BY <1>5, <1>6, <1>8 DEF ToSet
<1>9. CASE Chain = Append(p, Doh) /\ args.enableDoh
  <2>1. /\ DOMAIN Chain = 1..(Len(p) + 1) /\ Chain[Len(p) + 1] = Doh /\ Len(p) \in Nat
        /\ \A i \in 1..Len(p) : Chain[i] = p[i]
    BY <1>5, <1>9
  <2>2. \A i \in 1..(Len(p) + 1) : i \in 1..Len(p) \/ i = Len(p) + 1
    BY <2>1
  <2>3. IsInjective(Chain)
    <3>1. \A i, j \in 1..Len(p) : p[i] = p[j] => i = j
      BY <1>5 DEF IsInjective
    <3>2. QED
      BY <1>5, <1>6, <2>1, <2>2, <3>1 DEF IsInjective
  <2>4. \A i \in DOMAIN Chain : Named(Chain[i])
    BY <1>5, <1>6, <1>9, <2>1, <2>2 DEF Named
  <2>5. QED
    BY <2>3, <2>4 DEF ToSet
<1>10. QED
  BY <1>7, <1>8, <1>9

-----------------------------------------------------------------------------
(* What the calls know of what they return: the host was classified once, by
   the patterns, and an answer comes from where that class of hosts is asked. *)
DnsTypeOK ==
  /\ args \in CommandLines
  /\ rpc \in [Calls -> {"idle", "literal", "bypass", "system"}]
  /\ DOMAIN host = Calls /\ DOMAIN sysRet = Calls
  /\ began \in [Calls -> Nat \cup {None}]

Classified(c) ==
  /\ (rpc[c] = "bypass") <=> (pc[c] # "idle")
  /\ rpc[c] = "bypass" => host[c] = key[c] /\ patternMatches(host[c])
  /\ rpc[c] = "system" => ~patternMatches(host[c])
  /\ rpc[c] = "literal" => host[c] \in Literals
  /\ rpc[c] # "idle" => began[c] \in Nat

(* An IPv6 address has no business here, unless its upstream does not conform. *)
Wanted(a) == args.dnsIPv4Only => Family[a] = 4 \/ From[a] \notin Conforming \cup {System}

Sourced(c) ==
  /\ got[c] \in Answers => Named(From[got[c]]) /\ Wanted(got[c])
  /\ sysRet[c] \in Answers => From[sysRet[c]] = System /\ Wanted(sysRet[c])

DnsInv == DnsTypeOK /\ \A c \in Calls : Classified(c) /\ Sourced(c)

(* The record types that -dns-ipv4-only leaves. *)
LEMMA Families ==
  ASSUME args.dnsIPv4Only
  PROVE  /\ {FamilyOf(q) : q \in ToSet(qTypes)} = {4}
         /\ FamiliesOf(networkForQTypes) = {4}
<1>1. ToSet(qTypes) = {"A"}
  BY DEF ToSet, qTypes
<1>2. networkForQTypes = "ip4"
  BY <1>1 DEF networkForQTypes
<1>3. QED
  BY <1>1, <1>2 DEF FamilyOf, FamiliesOf

(* What the chain and the system resolver may return. *)
LEMMA MayReturn ==
  ASSUME args \in CommandLines, NEW a \in Answers
  PROVE  /\ a \in ChainResults => Named(From[a]) /\ Wanted(a)
         /\ a \in SystemResults => From[a] = System /\ Wanted(a)
<1>1. a # Failed /\ a # Empty
  BY AnswersAreLists
<1>2. ASSUME a \in ChainResults PROVE Named(From[a]) /\ Wanted(a)
  <2>1. PICK s \in ToSet(Chain) : a \in Replies(s)
    BY <1>1, <1>2, Zenon DEF ChainResults
  <2>2. From[a] = s /\ (s \in Conforming => Family[a] \in {FamilyOf(q) : q \in ToSet(qTypes)})
    BY <2>1 DEF Replies
  <2>3. Named(s)
    BY <2>1, ChainIsNamed
  <2>4. s # System
    BY <2>3, NamedIsNotSystem
  <2>5. Wanted(a)
    BY <2>2, <2>4, Families DEF Wanted
  <2>6. QED
    BY <2>2, <2>3, <2>5
<1>3. ASSUME a \in SystemResults PROVE From[a] = System /\ Wanted(a)
  <2>1. From[a] = System /\ Family[a] \in FamiliesOf(networkForQTypes)
    BY <1>1, <1>3 DEF SystemResults
  <2>2. QED
    BY <2>1, Families DEF Wanted
<1>4. QED
  BY <1>2, <1>3

(* A step of the cache moves one call on, and neither its key nor the outcome
   of its lookup changes. *)
LEMMA StepFacts ==
  ASSUME TypeInv, NEW c \in Calls, Step(c)
  PROVE  /\ now' = now /\ key' = key /\ got' = got
         /\ pc[c] \notin {"idle", "done"} /\ pc'[c] # "idle"
         /\ \A d \in Calls \ {c} : pc'[d] = pc[d]
  BY DEF TypeInv, TypeOK, Step, Hit, Join, Lead, WaitDone, WaitCtx, Publish,
         CloseDone, Store, Evict, Return, Goto

LEMMA DnsSteps == TypeInv /\ DnsInv /\ [DnsNext]_allVars => DnsInv'
<1> SUFFICES ASSUME TypeInv, DnsInv, [DnsNext]_allVars PROVE DnsInv'
  OBVIOUS
<1> USE DEF DnsInv, DnsTypeOK, Classified, Sourced
<1>a. args' = args
  BY DEF DnsNext, ResolveLiteral, ResolveBypass, ResolveSystem, ResolveHost,
         CacheStep, ChainReturns, SystemReturns, Expire, Shutdown, Pass,
         AllReturned, allVars, dnsVars
<1>b. \A h : patternMatches(h)' = patternMatches(h)
  BY <1>a DEF patternMatches, AllowedPatterns
<1>c. \A x : Named(x)' = Named(x) /\ Wanted(x)' = Wanted(x)
  BY <1>a DEF Named, Wanted
<1>d. None \notin Answers /\ CtxErr \notin Answers /\ now \in Nat
  BY NoneIsNoValue, AnswersAreLists DEF Results, TypeInv, TypeOK
<1>1. ASSUME NEW c \in Calls, ResolveLiteral(c) PROVE DnsInv'
  BY <1>1, <1>a, <1>b, <1>c, <1>d DEF ResolveLiteral, ResolveHost, vars, callVars
<1>2. ASSUME NEW c \in Calls, ResolveSystem(c) PROVE DnsInv'
  BY <1>2, <1>a, <1>b, <1>c, <1>d DEF ResolveSystem, ResolveHost, vars, callVars
<1>3. ASSUME NEW c \in Calls, ResolveBypass(c) PROVE DnsInv'
  <2>1. /\ pc'[c] # "idle" /\ \A d \in Calls \ {c} : pc'[d] = pc[d]
        /\ got' = got /\ \A d \in Calls \ {c} : key'[d] = key[d]
    BY <1>3 DEF ResolveBypass, Begin, Goto, TypeInv, TypeOK
  <2>2. /\ host'[c] = key'[c] /\ patternMatches(key'[c]) /\ rpc'[c] = "bypass"
        /\ DnsTypeOK' /\ began'[c] \in Nat /\ sysRet' = sysRet
        /\ \A d \in Calls \ {c} :
             host'[d] = host[d] /\ rpc'[d] = rpc[d] /\ began'[d] = began[d]
    BY <1>3, <1>a, <1>d DEF ResolveBypass, ResolveHost
  <2>3. QED
    BY <1>a, <1>b, <1>c, <2>1, <2>2
<1>4. ASSUME NEW c \in Calls, CacheStep(c) PROVE DnsInv'
  BY <1>4, <1>a, <1>b, <1>c, StepFacts DEF CacheStep, dnsVars
<1>5. ASSUME NEW c \in Calls, ChainReturns(c) PROVE DnsInv'
  <2>1. /\ got'[c] \in ChainResults /\ \A d \in Calls \ {c} : got'[d] = got[d]
        /\ pc[c] = "lookup" /\ pc'[c] = "publish" /\ key' = key
        /\ \A d \in Calls \ {c} : pc'[d] = pc[d]
        /\ UNCHANGED dnsVars
    BY <1>5 DEF ChainReturns, LookupReturn, Goto, TypeInv, TypeOK
  <2>2. got'[c] \in Answers =>
          Named(From[got'[c]]) /\ Wanted(got'[c])
    BY <2>1, MayReturn
  <2>3. QED
    BY <1>a, <1>b, <1>c, <2>1, <2>2 DEF dnsVars
<1>6. ASSUME NEW c \in Calls, SystemReturns(c) PROVE DnsInv'
  <2>1. PICK r \in SystemResults \cup {CtxErr} : sysRet' = [sysRet EXCEPT ![c] = r]
    BY <1>6 DEF SystemReturns
  <2>2. r \in Answers => From[r] = System /\ Wanted(r)
    BY <1>d, <2>1, MayReturn
  <2>3. QED
    BY <1>6, <1>a, <1>b, <1>c, <2>1, <2>2 DEF SystemReturns, vars, callVars
<1>7. ASSUME NEW c \in Calls, Expire(c) PROVE DnsInv'
  BY <1>7, <1>a, <1>b, <1>c DEF Expire, CtxExpire, dnsVars
<1>8. CASE Shutdown \/ Pass \/ AllReturned \/ UNCHANGED allVars
  BY <1>8, <1>a, <1>b, <1>c
     DEF Shutdown, Pass, Tick, AllReturned, allVars, vars, callVars, dnsVars
<1>9. QED
  BY <1>1, <1>2, <1>3, <1>4, <1>5, <1>6, <1>7, <1>8 DEF DnsNext

LEMMA DnsInvariance == DnsSpec => [](TypeInv /\ FlightInv /\ AnswerInv /\ DnsInv)
<1>1. DnsInit => DnsInv
  BY NoneIsNoValue
     DEF DnsInit, Init, DnsInv, DnsTypeOK, Classified, Sourced, Results
<1>2. QED
  BY <1>1, DnsSteps, CacheIsInside, Typing, Flight, Answer, PTL DEF DnsSpec

-----------------------------------------------------------------------------
(* An answer of the cache is what some lookup of the chain returned. *)
LEMMA ReturnedIsGot ==
  ASSUME TypeInv, AnswerInv, NEW c \in Calls, pc[c] = "done", ret[c] \in Answers
  PROVE  \E l \in Calls : ret[c] = got[l]
<1>1. ret[c] # CtxErr
  BY AnswersAreLists
<1>2. src[c] # None /\ ret[c] = got[src[c]]
  BY <1>1 DEF AnswerInv, AnswerFresh
<1>3. src[c] \in Calls
  BY <1>2 DEF TypeInv, TypeOK
<1>4. QED
  BY <1>2, <1>3

(* What ResolveHost gives back, and what is known of it. *)
LEMMA Resolved ==
  ASSUME TypeInv, AnswerInv, DnsInv, NEW c \in Calls, Returned(c),
         Resolution(c) \in Answers
  PROVE  /\ Wanted(Resolution(c))
         /\ \/ rpc[c] = "bypass" /\ Named(From[Resolution(c)])
            \/ rpc[c] = "system" /\ From[Resolution(c)] = System
<1>1. Failed \notin Answers
  BY AnswersAreLists
<1>2. CASE rpc[c] = "bypass"
  <2>1. pc[c] = "done"
    BY <1>2 DEF Returned
  <2>2. Resolution(c) = ret[c] /\ ret[c] \in Answers
    BY <1>1, <1>2 DEF Resolution
  <2>3. PICK l \in Calls : ret[c] = got[l]
    BY <2>1, <2>2, ReturnedIsGot
  <2>4. QED
    BY <1>2, <2>2, <2>3 DEF DnsInv, Sourced
<1>3. CASE rpc[c] = "system"
  <2>1. Resolution(c) = sysRet[c] /\ sysRet[c] \in Answers
    BY <1>1, <1>3 DEF Resolution
  <2>2. QED
    BY <1>3, <2>1 DEF DnsInv, Sourced
<1>4. CASE rpc[c] = "literal"
  <2>1. Resolution(c) = host[c] /\ host[c] \in Literals
    BY <1>4 DEF Resolution, DnsInv, Classified
  <2>2. QED
    BY <2>1, LiteralsAreHosts
<1>5. CASE rpc[c] = "idle"
  BY <1>5 DEF Returned
<1>6. QED
  BY <1>2, <1>3, <1>4, <1>5 DEF DnsInv, DnsTypeOK

(* However calls are coalesced and answers cached, ResolveHost answers for a
   selected host only with what a server of the command line said, each of
   which NewDns races once, and for another host only with what the system
   resolver said. *)
THEOREM BypassIsAsConfigured == DnsSpec => []BypassAsConfigured
<1>1. TypeInv /\ AnswerInv /\ DnsInv => BypassAsConfigured
  <2> SUFFICES ASSUME TypeInv, AnswerInv, DnsInv PROVE BypassAsConfigured
    OBVIOUS
  <2>1. IsInjective(Chain)
    BY ChainIsNamed DEF DnsInv, DnsTypeOK
  <2> DEFINE selected(c) ==
        args.patterns = <<>>
          \/ \E i \in DOMAIN args.patterns : host[c] \in args.patterns[i]
  <2>2. ASSUME NEW c \in Calls, Returned(c), Resolution(c) \in Answers
        PROVE  IF ~selected(c) THEN From[Resolution(c)] = System
               ELSE Named(From[Resolution(c)])
    <3>1. \/ rpc[c] = "bypass" /\ Named(From[Resolution(c)])
          \/ rpc[c] = "system" /\ From[Resolution(c)] = System
      BY <2>2, Resolved
    <3>2. (rpc[c] = "bypass" => selected(c)) /\ (rpc[c] = "system" => ~selected(c))
      BY DEF DnsInv, Classified, patternMatches, AllowedPatterns
    <3>3. QED
      BY <3>1, <3>2
  <2>3. QED
    BY <2>1, <2>2 DEF BypassAsConfigured, Named
<1>2. QED
  BY <1>1, DnsInvariance, PTL

(* With -dns-ipv4-only neither the system resolver nor a conforming upstream of
   the chain, nor an entry of the cache that came from one, makes ResolveHost
   give back an IPv6 address: only an upstream that sends AAAA records unasked
   does, as parseAddrsFromMsg takes what it is sent. *)
THEOREM FamilyIsRespected == DnsSpec => []FamilyRespected
<1>1. TypeInv /\ AnswerInv /\ DnsInv => FamilyRespected
  BY Resolved DEF FamilyRespected, Wanted
<1>2. QED
  BY <1>1, DnsInvariance, PTL

-----------------------------------------------------------------------------
(* While a call has not returned, time passes only if the resolver that it
   waits for, or its own context, leaves it some. *)
LEMMA TimeIsLeft ==
  ASSUME TypeInv, FlightInv, DnsInv, \A d \in Calls : Quiet(d),
         NEW c \in Calls, ~Returned(c), rpc[c] # "idle"
  PROVE  now < began[c] + Budget
<1>1. now \in Nat /\ began[c] \in Nat
  BY DEF TypeInv, TypeOK, DnsInv, Classified
<1>2. ~Runnable(c)
  BY DEF Quiet
<1>3. CASE rpc[c] = "bypass"
  <2>1. pc[c] \notin {"idle", "done"}
    BY <1>3 DEF Returned, DnsInv, Classified
  <2>2. mu = None
    <3> SUFFICES ASSUME mu \in Calls PROVE FALSE
      BY DEF TypeInv, TypeOK
    <3>1. pc[mu] \in {"close", "store", "evict"}
      BY DEF FlightInv, LockOK
    <3>2. ~Runnable(mu)
      BY DEF Quiet
    <3>3. QED
      BY <3>1, <3>2 DEF Runnable
  <2>3. pc[c] \in {"wait", "lookup"}
    BY <1>2, <2>1, <2>2 DEF Runnable, TypeInv, TypeOK
  <2>4. CASE pc[c] = "lookup"
    <3>1. now < began[c] + PerTry
      BY <1>3, <2>4 DEF Quiet, ChainDeadline
    <3>2. QED
      BY <1>1, <3>1, TriesFitBudget
  <2>5. CASE pc[c] = "wait"
    <3>1. ~CtxIsDone(c)
      BY <1>2, <2>5 DEF Runnable
    <3>2. QED
      BY <1>1, <3>1, TriesFitBudget DEF CtxIsDone
  <2>6. QED
    BY <2>3, <2>4, <2>5
<1>4. CASE rpc[c] = "system"
  <2>1. ~CtxIsDone(c)
    BY <1>4 DEF Quiet, Returned
  <2>2. QED
    BY <1>1, <2>1, TriesFitBudget DEF CtxIsDone
<1>5. CASE rpc[c] = "literal"
  BY <1>5 DEF Returned
<1>6. QED
  BY <1>3, <1>4, <1>5 DEF DnsInv, DnsTypeOK

(* No call of ResolveHost is still waiting when its budget is used up, whatever
   it waits for: the system resolver, the lookup it leads although it does not
   watch its own context, or another call's lookup. *)
THEOREM WaitsAreWithinBudget == DnsSpec => []WithinBudget
<1> DEFINE I == TypeInv /\ FlightInv /\ DnsInv
<1>1. DnsInit => WithinBudget
  BY DEF DnsInit, WithinBudget
<1>2. I /\ WithinBudget /\ [DnsNext]_allVars => WithinBudget'
  <2> SUFFICES ASSUME I, WithinBudget, [DnsNext]_allVars, NEW c \in Calls,
                      ~Returned(c)', rpc'[c] # "idle"
               PROVE  now' <= began'[c] + Budget
    BY DEF WithinBudget
  <2>0. now \in Nat /\ Budget \in Nat /\ pc \in [Calls -> {"idle", "check", "lookup",
          "wait", "publish", "close", "store", "evict", "done"}]
    BY TriesFitBudget DEF TypeInv, TypeOK
  <2>1. ASSUME NEW d \in Calls,
               ResolveLiteral(d) \/ ResolveBypass(d) \/ ResolveSystem(d)
        PROVE  now' <= began'[c] + Budget
    <3>1. /\ now' = now /\ began' = [began EXCEPT ![d] = now]
          /\ rpc[d] = "idle" /\ \A e \in Calls \ {d} : pc'[e] = pc[e]
          /\ \A e \in Calls \ {d} : rpc'[e] = rpc[e] /\ sysRet'[e] = sysRet[e]
      BY <2>0, <2>1 DEF ResolveLiteral, ResolveBypass, ResolveSystem, ResolveHost,
                  Begin, Goto, vars, callVars, DnsInv, DnsTypeOK
    <3>2. CASE c = d
      BY <2>0, <3>1, <3>2 DEF DnsInv, DnsTypeOK
    <3>3. CASE c # d
      <4>1. ~Returned(c) /\ rpc[c] # "idle" /\ began'[c] = began[c]
        BY <3>1, <3>3 DEF Returned, DnsInv, DnsTypeOK
      <4>2. QED
        BY <3>1, <4>1 DEF WithinBudget
    <3>4. QED
      BY <3>2, <3>3
  <2>2. ASSUME NEW d \in Calls, CacheStep(d) \/ ChainReturns(d) \/ Expire(d)
        PROVE  now' <= began'[c] + Budget
    <3>1. /\ now' = now /\ UNCHANGED dnsVars /\ pc[d] # "done"
          /\ \A e \in Calls \ {d} : pc'[e] = pc[e]
      BY <2>0, <2>2, StepFacts
         DEF CacheStep, ChainReturns, Expire, LookupReturn, CtxExpire, Goto
    <3>2. ~Returned(c) /\ rpc[c] # "idle"
      BY <3>1 DEF Returned, dnsVars
    <3>3. QED
      BY <3>1, <3>2 DEF WithinBudget, dnsVars
  <2>3. ASSUME NEW d \in Calls, SystemReturns(d) PROVE now' <= began'[c] + Budget
    <3>1. /\ now' = now /\ pc' = pc /\ rpc' = rpc /\ began' = began
          /\ sysRet[d] = None
          /\ \A e \in Calls \ {d} : sysRet'[e] = sysRet[e]
      BY <2>3 DEF SystemReturns, vars, callVars, DnsInv, DnsTypeOK
    <3>2. ~Returned(c) /\ rpc[c] # "idle"
      BY <3>1 DEF Returned
    <3>3. QED
      BY <3>1, <3>2 DEF WithinBudget
  <2>4. CASE Shutdown \/ AllReturned \/ UNCHANGED allVars
    <3>1. now' = now /\ pc' = pc /\ rpc' = rpc /\ began' = began /\ sysRet' = sysRet
      BY <2>4 DEF Shutdown, AllReturned, allVars, vars, callVars, dnsVars
    <3>2. ~Returned(c) /\ rpc[c] # "idle"
      BY <3>1 DEF Returned
    <3>3. QED
      BY <3>1, <3>2 DEF WithinBudget
  <2>5. CASE Pass
    <3>1. /\ now' = now + 1 /\ pc' = pc /\ rpc' = rpc /\ began' = began
          /\ sysRet' = sysRet /\ \A d \in Calls : Quiet(d)
      BY <2>5 DEF Pass, Tick, callVars, dnsVars
    <3>2. ~Returned(c) /\ rpc[c] # "idle"
      BY <3>1 DEF Returned
    <3>3. now < began[c] + Budget
      BY <3>1, <3>2, TimeIsLeft
    <3>4. began[c] \in Nat
      BY <3>2 DEF DnsInv, Classified
    <3>5. QED
      BY <2>0, <3>1, <3>3, <3>4
  <2>6. QED
    BY <2>1, <2>2, <2>3, <2>4, <2>5 DEF DnsNext
<1>3. QED
  BY <1>1, <1>2, DnsInvariance, PTL DEF DnsSpec
=============================================================================
