--------------------------- MODULE DnsCacheProofs ---------------------------
(***************************************************************************)
(* Proofs about DnsCache, for any number of calls and keys, any TTLs and   *)
(* any capacity.                                                           *)
(***************************************************************************)
EXTENDS DnsCache, FiniteSetTheorems, TLAPS

-----------------------------------------------------------------------------
(* What the program counter says about a call's locals. *)
LocalOK(c) ==
  /\ pc[c] # "idle" => key[c] \in Keys /\ t0[c] \in Nat
  /\ pc[c] = "wait" => src[c] \in Calls
  /\ pc[c] \in {"publish", "close", "store", "evict"} => got[c] \in Results

TypeInv == TypeOK /\ \A c \in Calls : LocalOK(c)

(* Where c.mu and c.pending point. *)
LockOK ==
  \A c \in Calls : (pc[c] \in {"close", "store", "evict"}) <=> (mu = c)

PendingOK ==
  \A c \in Calls, k \in Keys :
    (pending[k] = c) <=> (key[c] = k /\ pc[c] \in {"lookup", "publish", "close"})

StoringOK ==
  \A c \in Calls : pc[c] \in {"store", "evict"} => pending[key[c]] = None

-----------------------------------------------------------------------------
(* The shape of every variable, and of the locals each step relies on: a call
   that reads c.entries has a key, a joiner has a pendingLookup, a leader that
   saves has an outcome. *)
LEMMA Typing == Spec => []TypeInv
<1>1. Init => TypeInv
  BY DEF Init, TypeInv, TypeOK, LocalOK
<1>2. TypeInv /\ [Next]_vars => TypeInv'
  <2> SUFFICES ASSUME TypeInv, [Next]_vars PROVE TypeInv'
    OBVIOUS
  <2> USE NoneIsNoValue DEF TypeInv, TypeOK, LocalOK
  <2>1. ASSUME NEW c \in Calls, Begin(c) PROVE TypeInv'
    BY <2>1 DEF Begin, Goto
  <2>2. ASSUME NEW c \in Calls, Hit(c) PROVE TypeInv'
    BY <2>2 DEF Hit, Usable, Return, Goto, Entry
  <2>3. ASSUME NEW c \in Calls, Join(c) PROVE TypeInv'
    BY <2>3 DEF Join, Goto
  <2>4. ASSUME NEW c \in Calls, Lead(c) PROVE TypeInv'
    BY <2>4 DEF Lead, Goto
  <2>5. ASSUME NEW c \in Calls, WaitDone(c) PROVE TypeInv'
    BY <2>5 DEF WaitDone, Return, Goto
  <2>6. ASSUME NEW c \in Calls, WaitCtx(c) PROVE TypeInv'
    BY <2>6 DEF WaitCtx, Return, Goto, Results
  <2>7. ASSUME NEW c \in Calls, LookupReturn(c) PROVE TypeInv'
    BY <2>7 DEF LookupReturn, Goto
  <2>8. ASSUME NEW c \in Calls, Publish(c) PROVE TypeInv'
    BY <2>8 DEF Publish, Goto
  <2>9. ASSUME NEW c \in Calls, CloseDone(c) PROVE TypeInv'
    BY <2>9 DEF CloseDone, Goto
  <2>10. ASSUME NEW c \in Calls, Store(c) PROVE TypeInv'
    <3>1. TTL(got[c]) \in Int
      BY TTLsAreInts DEF TTL
    <3>2. [res |-> got[c], expires |-> now + TTL(got[c]), by |-> c] \in Entry
      BY <2>10, <3>1 DEF Store, Entry
    <3>3. entries' \in [Keys -> Entry \cup {None}]
      BY <2>10, <3>2 DEF Store
    <3>4. QED
      BY <2>10, <3>3 DEF Store, Return, Goto
  <2>11. ASSUME NEW c \in Calls, Evict(c) PROVE TypeInv'
    <3>1. entries' \in [Keys -> Entry \cup {None}]
      BY <2>11 DEF Evict, Evictions, Without
    <3>2. QED
      BY <2>11, <3>1 DEF Evict, Return, Goto
  <2>12. ASSUME NEW c \in Calls, CtxExpire(c) PROVE TypeInv'
    BY <2>12 DEF CtxExpire
  <2>13. CASE Tick
    BY <2>13 DEF Tick, callVars
  <2>14. CASE UNCHANGED vars
    BY <2>14 DEF vars, callVars
  <2>15. QED
    BY <2>1, <2>2, <2>3, <2>4, <2>5, <2>6, <2>7, <2>8, <2>9, <2>10, <2>11,
       <2>12, <2>13, <2>14 DEF Next, Step, Finished
<1>3. QED
  BY <1>1, <1>2, PTL DEF Spec

(* Every variable of the model keeps its shape in every behaviour. *)
THEOREM TypeCorrect == Spec => []TypeOK
<1>1. TypeInv => TypeOK
  BY DEF TypeInv
<1>2. QED
  BY <1>1, Typing, PTL
-----------------------------------------------------------------------------
FlightInv == LockOK /\ PendingOK /\ StoringOK

(* c.mu is held exactly by the call in the second critical section, c.pending
   holds exactly the lookups that have not been closed, and the key of an
   outcome being stored is not pending. *)
LEMMA Flight == Spec => []FlightInv
<1>1. Init => FlightInv
  BY NoneIsNoValue DEF Init, FlightInv, LockOK, PendingOK, StoringOK
<1>2. TypeInv /\ FlightInv /\ [Next]_vars => FlightInv'
  <2> SUFFICES ASSUME TypeInv, FlightInv, [Next]_vars PROVE FlightInv'
    OBVIOUS
  <2> USE NoneIsNoValue
      DEF TypeInv, TypeOK, LocalOK, FlightInv, LockOK, PendingOK, StoringOK
  <2>1. ASSUME NEW c \in Calls, Begin(c) PROVE FlightInv'
    BY <2>1 DEF Begin, Goto
  <2>2. ASSUME NEW c \in Calls, Hit(c) PROVE FlightInv'
    BY <2>2 DEF Hit, Return, Goto
  <2>3. ASSUME NEW c \in Calls, Join(c) PROVE FlightInv'
    BY <2>3 DEF Join, Goto
  <2>4. ASSUME NEW c \in Calls, Lead(c) PROVE FlightInv'
    BY <2>4 DEF Lead, Goto
  <2>5. ASSUME NEW c \in Calls, WaitDone(c) PROVE FlightInv'
    BY <2>5 DEF WaitDone, Return, Goto
  <2>6. ASSUME NEW c \in Calls, WaitCtx(c) PROVE FlightInv'
    BY <2>6 DEF WaitCtx, Return, Goto
  <2>7. ASSUME NEW c \in Calls, LookupReturn(c) PROVE FlightInv'
    BY <2>7 DEF LookupReturn, Goto
  <2>8. ASSUME NEW c \in Calls, Publish(c) PROVE FlightInv'
    BY <2>8 DEF Publish, Goto
  <2>9. ASSUME NEW c \in Calls, CloseDone(c) PROVE FlightInv'
    BY <2>9 DEF CloseDone, Goto
  <2>10. ASSUME NEW c \in Calls, Store(c) PROVE FlightInv'
    BY <2>10 DEF Store, Return, Goto
  <2>11. ASSUME NEW c \in Calls, Evict(c) PROVE FlightInv'
    BY <2>11 DEF Evict, Return, Goto
  <2>12. ASSUME NEW c \in Calls, CtxExpire(c) PROVE FlightInv'
    BY <2>12 DEF CtxExpire
  <2>13. CASE Tick
    BY <2>13 DEF Tick, callVars
  <2>14. CASE UNCHANGED vars
    BY <2>14 DEF vars, callVars
  <2>15. QED
    BY <2>1, <2>2, <2>3, <2>4, <2>5, <2>6, <2>7, <2>8, <2>9, <2>10, <2>11,
       <2>12, <2>13, <2>14 DEF Next, Step, Finished
<1>3. QED
  BY <1>1, <1>2, Typing, PTL DEF Spec

(* Two lookups of one key are never in flight together: from taking the lead
   to releasing the lock after the entry is stored, a leader excludes every
   other leader of its key, so a burst of requests makes one upstream lookup. *)
THEOREM LookupsCoalesce == Spec => []SingleFlight
<1>1. TypeInv /\ FlightInv => SingleFlight
  BY NoneIsNoValue
  DEF TypeInv, TypeOK, LocalOK, FlightInv, LockOK, PendingOK, StoringOK,
      SingleFlight, Leading
<1>2. QED
  BY <1>1, Typing, Flight, PTL
-----------------------------------------------------------------------------
(* The locals of a call: its outcome is None until the inner resolver returned
   and never a context error, and p holds that outcome once p.done is closed. *)
CallInv ==
  \A c \in Calls :
    /\ pc[c] # "idle" => t0[c] <= now
    /\ pc[c] \in {"idle", "check", "wait", "lookup"} => got[c] = None
    /\ got[c] # CtxErr
    /\ Leading(c) => src[c] = c
    /\ pc[c] \in {"close", "store", "evict"} => pres[c] = got[c]
    /\ closed[c] => pres[c] = got[c] /\ got[c] # None
    /\ pc[c] \notin {"evict", "done"} => savedAt[c] = None
    /\ pc[c] = "evict" => savedAt[c] \in Nat /\ t0[c] <= savedAt[c]
    /\ (pc[c] = "done") <=> (ret[c] # None)

(* An entry is the answer of a lookup of its key, with the expiry its kind of
   answer gets from the moment it was saved. *)
EntryOK ==
  \A k \in Keys : entries[k] # None =>
    LET l == entries[k].by IN
      /\ key[l] = k
      /\ got[l] = entries[k].res
      /\ savedAt[l] \in Nat
      /\ entries[k].expires = savedAt[l] + TTL(got[l])
      /\ pc[l] \in {"evict", "done"}

(* A joiner waits for a lookup of its key that was not saved when it began. *)
WaitOK ==
  \A c \in Calls : pc[c] = "wait" =>
    /\ Leading(src[c]) \/ pc[src[c]] = "done"
    /\ key[src[c]] = key[c]
    /\ savedAt[src[c]] = None \/ t0[c] <= savedAt[src[c]]

AnswerInv == CallInv /\ EntryOK /\ WaitOK /\ AnswerFresh /\ CancelIsolation

(* Whatever a call is about to return is the outcome of a lookup of its own
   key, recent enough for the moment the call began, and free of context
   errors of others. *)
LEMMA Answer == Spec => []AnswerInv
<1>1. Init => AnswerInv
  BY NoneIsNoValue
  DEF Init, AnswerInv, CallInv, EntryOK, WaitOK, AnswerFresh, CancelIsolation,
      Cached, Leading, Results
<1>2. TypeInv /\ FlightInv /\ AnswerInv /\ [Next]_vars => AnswerInv'
  <2> SUFFICES ASSUME TypeInv, FlightInv, AnswerInv, [Next]_vars PROVE AnswerInv'
    OBVIOUS
  <2> USE NoneIsNoValue, TTLsAreInts, AnswersAreLists
      DEF TypeInv, TypeOK, LocalOK, AnswerInv, CallInv, EntryOK, WaitOK,
          AnswerFresh, CancelIsolation, Cached, Leading, Entry, Results, TTL
  <2>1. ASSUME NEW c \in Calls, Begin(c) PROVE AnswerInv'
    <3>1. CallInv'
      BY <2>1 DEF Begin, Goto
    <3>2. EntryOK'
      BY <2>1 DEF Begin, Goto
    <3>3. WaitOK'
      BY <2>1 DEF Begin, Goto
    <3>4. AnswerFresh'
      BY <2>1 DEF Begin, Goto
    <3>5. CancelIsolation'
      BY <2>1 DEF Begin, Goto
    <3>6. QED
      BY <3>1, <3>2, <3>3, <3>4, <3>5
  <2>2. ASSUME NEW c \in Calls, Hit(c) PROVE AnswerInv'
    <3>1. CallInv'
      BY <2>2 DEF Hit, Usable, Return, Goto
    <3>2. EntryOK'
      BY <2>2 DEF Hit, Usable, Return, Goto
    <3>3. WaitOK'
      BY <2>2 DEF Hit, Usable, Return, Goto
    <3>4. AnswerFresh'
      BY <2>2 DEF Hit, Usable, Return, Goto
    <3>5. CancelIsolation'
      BY <2>2 DEF Hit, Usable, Return, Goto
    <3>6. QED
      BY <3>1, <3>2, <3>3, <3>4, <3>5
  <2>3. ASSUME NEW c \in Calls, Join(c) PROVE AnswerInv'
    <3>1. CallInv'
      BY <2>3 DEF Join, Goto
    <3>2. EntryOK'
      BY <2>3 DEF Join, Goto
    <3>3. WaitOK'
      BY <2>3 DEF Join, Goto, FlightInv, PendingOK
    <3>4. AnswerFresh'
      BY <2>3 DEF Join, Goto
    <3>5. CancelIsolation'
      BY <2>3 DEF Join, Goto
    <3>6. QED
      BY <3>1, <3>2, <3>3, <3>4, <3>5
  <2>4. ASSUME NEW c \in Calls, Lead(c) PROVE AnswerInv'
    <3>1. CallInv'
      BY <2>4 DEF Lead, Goto
    <3>2. EntryOK'
      BY <2>4 DEF Lead, Goto
    <3>3. WaitOK'
      BY <2>4 DEF Lead, Goto
    <3>4. AnswerFresh'
      BY <2>4 DEF Lead, Goto
    <3>5. CancelIsolation'
      BY <2>4 DEF Lead, Goto
    <3>6. QED
      BY <3>1, <3>2, <3>3, <3>4, <3>5
  <2>5. ASSUME NEW c \in Calls, WaitDone(c) PROVE AnswerInv'
    <3>1. CallInv'
      BY <2>5 DEF WaitDone, Return, Goto
    <3>2. EntryOK'
      BY <2>5 DEF WaitDone, Return, Goto
    <3>3. WaitOK'
      BY <2>5 DEF WaitDone, Return, Goto
    <3>4. AnswerFresh'
      BY <2>5 DEF WaitDone, Return, Goto
    <3>5. CancelIsolation'
      BY <2>5 DEF WaitDone, Return, Goto
    <3>6. QED
      BY <3>1, <3>2, <3>3, <3>4, <3>5
  <2>6. ASSUME NEW c \in Calls, WaitCtx(c) PROVE AnswerInv'
    <3>1. CallInv'
      BY <2>6 DEF WaitCtx, Return, Goto
    <3>2. EntryOK'
      BY <2>6 DEF WaitCtx, Return, Goto
    <3>3. WaitOK'
      BY <2>6 DEF WaitCtx, Return, Goto
    <3>4. AnswerFresh'
      BY <2>6 DEF WaitCtx, Return, Goto
    <3>5. CancelIsolation'
      BY <2>6 DEF WaitCtx, Return, Goto
    <3>6. QED
      BY <3>1, <3>2, <3>3, <3>4, <3>5
  <2>7. ASSUME NEW c \in Calls, LookupReturn(c) PROVE AnswerInv'
    <3>1. CallInv'
      BY <2>7 DEF LookupReturn, LookupCtxDone, Goto
    <3>2. EntryOK'
      BY <2>7 DEF LookupReturn, LookupCtxDone, Goto
    <3>3. WaitOK'
      BY <2>7 DEF LookupReturn, LookupCtxDone, Goto
    <3>4. AnswerFresh'
      BY <2>7 DEF LookupReturn, LookupCtxDone, Goto
    <3>5. CancelIsolation'
      BY <2>7 DEF LookupReturn, LookupCtxDone, Goto
    <3>6. QED
      BY <3>1, <3>2, <3>3, <3>4, <3>5
  <2>8. ASSUME NEW c \in Calls, Publish(c) PROVE AnswerInv'
    <3>1. CallInv'
      BY <2>8 DEF Publish, Goto
    <3>2. EntryOK'
      BY <2>8 DEF Publish, Goto
    <3>3. WaitOK'
      BY <2>8 DEF Publish, Goto
    <3>4. AnswerFresh'
      BY <2>8 DEF Publish, Goto
    <3>5. CancelIsolation'
      BY <2>8 DEF Publish, Goto
    <3>6. QED
      BY <3>1, <3>2, <3>3, <3>4, <3>5
  <2>9. ASSUME NEW c \in Calls, CloseDone(c) PROVE AnswerInv'
    <3>1. CallInv'
      BY <2>9 DEF CloseDone, Goto
    <3>2. EntryOK'
      BY <2>9 DEF CloseDone, Goto
    <3>3. WaitOK'
      BY <2>9 DEF CloseDone, Goto
    <3>4. AnswerFresh'
      BY <2>9 DEF CloseDone, Goto
    <3>5. CancelIsolation'
      BY <2>9 DEF CloseDone, Goto
    <3>6. QED
      BY <3>1, <3>2, <3>3, <3>4, <3>5
  <2>10. ASSUME NEW c \in Calls, Store(c) PROVE AnswerInv'
    <3>1. CallInv'
      BY <2>10 DEF Store, Return, Goto
    <3>2. EntryOK'
      BY <2>10 DEF Store, Return, Goto
    <3>3. WaitOK'
      BY <2>10 DEF Store, Return, Goto
    <3>4. AnswerFresh'
      BY <2>10 DEF Store, Return, Goto
    <3>5. CancelIsolation'
      BY <2>10 DEF Store, Return, Goto
    <3>6. QED
      BY <3>1, <3>2, <3>3, <3>4, <3>5
  <2>11. ASSUME NEW c \in Calls, Evict(c) PROVE AnswerInv'
    <3>0. \A k \in Keys : entries'[k] \in {entries[k], None}
      BY <2>11 DEF Evict, Evictions, Without
    <3>1. CallInv'
      BY <2>11 DEF Evict, Return, Goto
    <3>2. EntryOK'
      BY <2>11, <3>0 DEF Evict, Return, Goto
    <3>3. WaitOK'
      BY <2>11 DEF Evict, Return, Goto
    <3>4. AnswerFresh'
      BY <2>11 DEF Evict, Return, Goto
    <3>5. CancelIsolation'
      BY <2>11, <3>0 DEF Evict, Return, Goto
    <3>6. QED
      BY <3>1, <3>2, <3>3, <3>4, <3>5
  <2>12. ASSUME NEW c \in Calls, CtxExpire(c) PROVE AnswerInv'
    <3>1. CallInv'
      BY <2>12 DEF CtxExpire
    <3>2. EntryOK'
      BY <2>12 DEF CtxExpire
    <3>3. WaitOK'
      BY <2>12 DEF CtxExpire
    <3>4. AnswerFresh'
      BY <2>12 DEF CtxExpire
    <3>5. CancelIsolation'
      BY <2>12 DEF CtxExpire
    <3>6. QED
      BY <3>1, <3>2, <3>3, <3>4, <3>5
  <2>13. CASE Tick
    BY <2>13 DEF Tick, callVars
  <2>14. CASE UNCHANGED vars
    BY <2>14 DEF vars, callVars
  <2>15. QED
    BY <2>1, <2>2, <2>3, <2>4, <2>5, <2>6, <2>7, <2>8, <2>9, <2>10, <2>11,
       <2>12, <2>13, <2>14 DEF Next, Step, Finished
<1>3. QED
  BY <1>1, <1>2, Typing, Flight, PTL DEF Spec

(* A call returns the outcome of one lookup of its own key, made while it ran or
   kept no longer than the TTL of that kind of outcome, unless its own context
   ended first. *)
THEOREM AnswersAreFresh == Spec => []AnswerFresh
<1>1. AnswerInv => AnswerFresh
  BY DEF AnswerInv
<1>2. QED
  BY <1>1, Answer, PTL

(* Because the lookup runs under context.WithoutCancel, a leader that gives up
   never fails the calls that joined it, nor leaves its error in the cache. *)
THEOREM CancelsAreIsolated == Spec => []CancelIsolation
<1>1. AnswerInv => CancelIsolation
  BY DEF AnswerInv
<1>2. QED
  BY <1>1, Answer, PTL

-----------------------------------------------------------------------------
(* Outside evictLocked the table fits its capacity. *)
SizeInv ==
  (\A c \in Calls : pc[c] # "evict") => Cardinality(Cached(entries)) <= Capacity

(* NewCache keeps a positive size, whatever it was given. *)
LEMMA CapacityPositive == Capacity \in Nat /\ Capacity > 0
  BY SizeIsInt DEF Capacity

(* evictLocked leaves at most Capacity entries, whichever it drops. *)
LEMMA EvictionsFit ==
  ASSUME NEW m \in [Keys -> Entry \cup {None}], NEW e \in Evictions(m)
  PROVE  Cardinality(Cached(e)) <= Capacity
<1> DEFINE live == {k \in Cached(m) : m[k].expires > now}
<1>1. \A s \in SUBSET Cached(m) : Cached(Without(m, Keys \ s)) = s
  BY DEF Cached, Without
<1>2. live \in SUBSET Cached(m)
  OBVIOUS
<1>3. CASE Cardinality(Cached(m)) <= Capacity
  BY <1>3 DEF Evictions
<1>4. CASE ~(Cardinality(Cached(m)) <= Capacity) /\ Cardinality(live) <= Capacity
  BY <1>1, <1>2, <1>4 DEF Evictions
<1>5. CASE ~(Cardinality(Cached(m)) <= Capacity) /\ ~(Cardinality(live) <= Capacity)
  <2>1. PICK s \in SUBSET live : Cardinality(s) = Capacity /\ e = Without(m, Keys \ s)
    BY <1>5 DEF Evictions
  <2>2. Cached(e) = s
    BY <1>1, <2>1
  <2>3. QED
    BY <2>1, <2>2, CapacityPositive
<1>6. QED
  BY <1>3, <1>4, <1>5

(* The table exceeds its capacity only between the insertion and evictLocked. *)
LEMMA Size == Spec => []SizeInv
<1>1. Init => SizeInv
  BY FS_EmptySet, CapacityPositive DEF Init, SizeInv, Cached
<1>2. TypeInv /\ FlightInv /\ SizeInv /\ [Next]_vars => SizeInv'
  <2> SUFFICES ASSUME TypeInv, FlightInv, SizeInv, [Next]_vars PROVE SizeInv'
    OBVIOUS
  <2>1. ASSUME NEW c \in Calls, Store(c) PROVE SizeInv'
    <3>1. CASE TTL(got[c]) > 0
      BY <2>1, <3>1 DEF Store, Goto, SizeInv, TypeInv, TypeOK
    <3>2. CASE ~(TTL(got[c]) > 0)
      <4>1. \A d \in Calls : pc[d] # "evict"
        BY <2>1, NoneIsNoValue DEF Store, FlightInv, LockOK, TypeInv, TypeOK
      <4>2. QED
        BY <2>1, <3>2, <4>1 DEF Store, SizeInv
    <3>3. QED
      BY <3>1, <3>2
  <2>2. ASSUME NEW c \in Calls, Evict(c) PROVE SizeInv'
    <3>1. Cardinality(Cached(entries')) <= Capacity
      BY <2>2, EvictionsFit DEF Evict, TypeInv, TypeOK
    <3>2. QED
      BY <3>1 DEF SizeInv, Cached
  <2>3. ASSUME NEW c \in Calls,
               \/ Begin(c) \/ Hit(c) \/ Join(c) \/ Lead(c) \/ WaitDone(c)
               \/ WaitCtx(c) \/ LookupReturn(c) \/ Publish(c) \/ CloseDone(c)
        PROVE  SizeInv'
    <3>1. entries' = entries /\ pc[c] # "evict"
      BY <2>3 DEF Begin, Hit, Join, Lead, WaitDone, WaitCtx, LookupReturn,
                  Publish, CloseDone
    <3>2. \A d \in Calls : d # c => pc'[d] = pc[d]
      BY <2>3 DEF Begin, Hit, Join, Lead, WaitDone, WaitCtx, LookupReturn,
                  Publish, CloseDone, Return, Goto, TypeInv, TypeOK
    <3>3. QED
      BY <3>1, <3>2 DEF SizeInv, Cached
  <2>4. ASSUME NEW c \in Calls, CtxExpire(c) PROVE SizeInv'
    BY <2>4 DEF CtxExpire, SizeInv, Cached
  <2>5. CASE Tick
    BY <2>5 DEF Tick, SizeInv, Cached
  <2>6. CASE UNCHANGED vars
    BY <2>6 DEF vars, SizeInv, Cached
  <2>7. QED
    BY <2>1, <2>2, <2>3, <2>4, <2>5, <2>6 DEF Next, Step, Finished
<1>3. QED
  BY <1>1, <1>2, Typing, Flight, PTL DEF Spec

(* Whenever c.mu is free the table holds at most maxSize entries (1024 when
   NewCache was given no positive size). *)
THEOREM CacheIsBounded == Spec => []CacheBounded
<1>1. TypeInv /\ FlightInv /\ SizeInv => CacheBounded
  BY NoneIsNoValue DEF TypeInv, TypeOK, FlightInv, LockOK, SizeInv, CacheBounded
<1>2. QED
  BY <1>1, Typing, Flight, Size, PTL

-----------------------------------------------------------------------------
(* Each call of Cache.Resolve is a Resolver call: it returns once, and with a
   context's error only if its own context is done. *)
THEOREM CallsAreResolverCalls ==
  Spec => /\ \A c \in Calls : Contract(c)!Init
          /\ [][\A c \in Calls : Contract(c)!Step]_vars
<1>1. Init => \A c \in Calls : Contract(c)!Init
  BY DEF Init, Contract!Init
<1>2. TypeInv /\ AnswerInv /\ AnswerInv' /\ TypeInv' /\ [Next]_vars
        => [\A c \in Calls : Contract(c)!Step]_vars
  <2> SUFFICES ASSUME TypeInv, AnswerInv, AnswerInv', TypeInv', [Next]_vars,
                      NEW c \in Calls
               PROVE  Contract(c)!Step
    OBVIOUS
  <2>1. (pc[c] = "done" <=> ret[c] # None) /\ (pc'[c] = "done" <=> ret'[c] # None)
    BY DEF AnswerInv, CallInv
  <2>2. ret'[c] # None => ret'[c] \in Results /\ (ret'[c] = CtxErr => ctxDone'[c])
    BY DEF TypeInv, TypeOK, AnswerInv, CancelIsolation
  <2>3. \/ UNCHANGED <<pc[c], ctxDone[c], ret[c]>>
        \/ pc[c] = "idle" /\ pc'[c] = "check" /\ UNCHANGED <<ctxDone[c], ret[c]>>
        \/ /\ pc[c] \notin {"idle", "done"} /\ pc'[c] # "idle"
           /\ UNCHANGED ctxDone[c]
        \/ /\ pc[c] \notin {"idle", "done"} /\ ~ctxDone[c] /\ ctxDone'[c]
           /\ UNCHANGED <<pc[c], ret[c]>>
    <3> USE DEF TypeInv, TypeOK
    <3>1. ASSUME NEW d \in Calls, Step(d)
          PROVE  \/ UNCHANGED <<pc[c], ctxDone[c], ret[c]>>
                 \/ /\ pc[c] \notin {"idle", "done"} /\ pc'[c] # "idle"
                    /\ UNCHANGED ctxDone[c]
      BY <3>1 DEF Step, Hit, Join, Lead, WaitDone, WaitCtx, Publish, CloseDone,
                  Store, Evict, Return, Goto
    <3>2. ASSUME NEW d \in Calls, Begin(d) \/ LookupReturn(d)
          PROVE  \/ UNCHANGED <<pc[c], ctxDone[c], ret[c]>>
                 \/ /\ pc[c] = "idle" /\ pc'[c] = "check"
                    /\ UNCHANGED <<ctxDone[c], ret[c]>>
                 \/ /\ pc[c] \notin {"idle", "done"} /\ pc'[c] # "idle"
                    /\ UNCHANGED ctxDone[c]
      BY <3>2 DEF Begin, LookupReturn, Goto
    <3>3. ASSUME NEW d \in Calls, CtxExpire(d)
          PROVE  \/ UNCHANGED <<pc[c], ctxDone[c], ret[c]>>
                 \/ /\ pc[c] \notin {"idle", "done"} /\ ~ctxDone[c] /\ ctxDone'[c]
                    /\ UNCHANGED <<pc[c], ret[c]>>
      BY <3>3 DEF CtxExpire
    <3>4. CASE Tick \/ UNCHANGED vars
      BY <3>4 DEF Tick, vars, callVars
    <3>5. QED
      BY <3>1, <3>2, <3>3, <3>4 DEF Next, Finished
  <2>4. ctxDone[c] \in BOOLEAN /\ ctxDone'[c] \in BOOLEAN
    BY Zenon DEF TypeInv, TypeOK
  <2>5. QED
    BY <2>1, <2>2, <2>3, <2>4
       DEF Contract!Step, Contract!Next, Contract!cvars, Contract!Call,
           Contract!Expire, Contract!Return
<1>3. QED
  BY <1>1, <1>2, Typing, Answer, PTL DEF Spec
=============================================================================
