------------------------------ MODULE DnsCache ------------------------------
(***************************************************************************)
(* Cache.Resolve of dns/resolver/cache.go: a TTL cache with negative       *)
(* entries in front of an inner Resolver, which coalesces concurrent       *)
(* lookups of one key behind a pendingLookup.                              *)
(*                                                                         *)
(* Every element of Calls is one goroutine that runs Resolve once.  The    *)
(* steps are the code between two points where another goroutine can       *)
(* interfere: taking c.mu, closing p.done (its readers do not hold c.mu),  *)
(* reading the clock, and the inner lookup itself.                         *)
(***************************************************************************)
EXTENDS Integers, FiniteSets

CONSTANTS Calls,        \* goroutines that call Resolve
          Keys,         \* cache keys: a host with its query types
          Answers,      \* non-empty address lists an upstream may give
          posTTL,       \* lifetime of a positive entry
          negTTL,       \* lifetime of a failed or an empty answer
          maxSize,      \* the maxSize argument of NewCache
          MaxTime,      \* bound: the clock stops here
          None          \* nil pointer, absent map entry

\* A lookup's outcome that is not an address list: (nil, nil), an error of
\* the upstream, or the error of the context the lookup was given.
Empty  == "empty"
Failed == "failed"
CtxErr == "ctxErr"

Results == Answers \cup {Empty, Failed, CtxErr}

ASSUME KeysFinite     == IsFiniteSet(Keys)
ASSUME TTLsAreInts    == posTTL \in Int /\ negTTL \in Int
ASSUME SizeIsInt      == maxSize \in Int
ASSUME MaxTimeIsNat   == MaxTime \in Nat
ASSUME NoneIsNoValue  == None \notin Calls \cup Keys \cup Results \cup Int
ASSUME AnswersAreLists == Answers \cap {Empty, Failed, CtxErr} = {}

VARIABLES
  now,        \* the clock time.Now() reads
  mu,         \* holder of c.mu across a step boundary, or None
  entries,    \* c.entries: Keys -> an entry or None
  pending,    \* c.pending: Keys -> the call whose pendingLookup it is, or None
  pc,         \* where each call is in Resolve
  key,        \* local key
  t0,         \* local now, read before c.mu is taken
  ctxDone,    \* whether the call's ctx is done
  src,        \* the lookup whose entry or pendingLookup the call holds
  got,        \* local addrs, err of a leader, returned by c.inner.Resolve
  pres,       \* addrs, err of the leader's pendingLookup
  closed,     \* whether the leader's p.done is closed
  ret,        \* what the call returned
  savedAt     \* history: when a leader computed its entry's expiry

callVars == <<key, t0, ctxDone, src, got, pres, closed, ret, savedAt>>
vars == <<now, mu, entries, pending, pc, callVars>>

-----------------------------------------------------------------------------
(* The maxSize NewCache keeps. *)
Capacity == IF maxSize <= 0 THEN 1024 ELSE maxSize

(* The TTL of an outcome: an error or an empty list is negative. *)
TTL(r) == IF r \in Answers THEN posTTL ELSE negTTL

Cached(m) == {k \in Keys : m[k] # None}

(* A table after the deletion of some keys. *)
Without(m, gone) == [k \in Keys |-> IF k \in gone THEN None ELSE m[k]]

(* Mutant of Evictions: only expired entries are dropped. *)
EvictExpiredOnly(m) ==
  {Without(m, {k \in Cached(m) : m[k].expires <= now})}

(* evictLocked: the tables it may leave behind at the current time. *)
Evictions(m) ==
  LET live == {k \in Cached(m) : m[k].expires > now}
  IN  IF Cardinality(Cached(m)) <= Capacity
      THEN {m}
      ELSE IF Cardinality(live) <= Capacity
      THEN {Without(m, Keys \ live)}
      ELSE {Without(m, Keys \ kept) :
              kept \in {s \in SUBSET live : Cardinality(s) = Capacity}}

(* Mutant of LookupCtxDone: the lookup runs under the leader's own ctx. *)
LookupCtxOfLeader(c) == ctxDone[c]

(* The lookup runs under context.WithoutCancel(ctx): its context is never
   done, whatever happens to the leader's own. *)
LookupCtxDone(c) == FALSE

-----------------------------------------------------------------------------
Init ==
  /\ now = 0
  /\ mu = None
  /\ entries = [k \in Keys |-> None]
  /\ pending = [k \in Keys |-> None]
  /\ pc      = [c \in Calls |-> "idle"]
  /\ key     = [c \in Calls |-> None]
  /\ t0      = [c \in Calls |-> None]
  /\ ctxDone = [c \in Calls |-> FALSE]
  /\ src     = [c \in Calls |-> None]
  /\ got     = [c \in Calls |-> None]
  /\ pres    = [c \in Calls |-> None]
  /\ closed  = [c \in Calls |-> FALSE]
  /\ ret     = [c \in Calls |-> None]
  /\ savedAt = [c \in Calls |-> None]

Goto(c, l) == pc' = [pc EXCEPT ![c] = l]

Return(c, r) ==
  /\ Goto(c, "done")
  /\ ret' = [ret EXCEPT ![c] = r]

(* Mutant of Begin: an entry gets a period of grace after its expiry. *)
BeginWithGrace(c) ==
  /\ pc[c] = "idle"
  /\ \E k \in Keys : key' = [key EXCEPT ![c] = k]
  /\ t0' = [t0 EXCEPT ![c] = now - negTTL]
  /\ Goto(c, "check")
  /\ UNCHANGED <<now, mu, entries, pending, ctxDone, src, got, pres, closed,
                 ret, savedAt>>

(* Resolve is called: key and now are computed outside the lock. *)
Begin(c) ==
  /\ pc[c] = "idle"
  /\ \E k \in Keys : key' = [key EXCEPT ![c] = k]
  /\ t0' = [t0 EXCEPT ![c] = now]
  /\ Goto(c, "check")
  /\ UNCHANGED <<now, mu, entries, pending, ctxDone, src, got, pres, closed,
                 ret, savedAt>>

(* Mutant of Usable: an entry is served at the very moment it expires. *)
UsableAtExpiry(c) == LET e == entries[key[c]]
                     IN  e # None /\ e.expires >= t0[c]

(* e.expires.After(now), with the now of Begin. *)
Usable(c) == LET e == entries[key[c]]
             IN  e # None /\ e.expires > t0[c]

(* The first critical section, in its three outcomes: an entry that had not
   expired is returned, ... *)
Hit(c) ==
  /\ pc[c] = "check" /\ mu = None
  /\ Usable(c)
  /\ src' = [src EXCEPT ![c] = entries[key[c]].by]
  /\ Return(c, entries[key[c]].res)
  /\ UNCHANGED <<now, mu, entries, pending, key, t0, ctxDone, got, pres,
                 closed, savedAt>>

(* ... a lookup in flight is joined, ... *)
Join(c) ==
  /\ pc[c] = "check" /\ mu = None
  /\ ~Usable(c)
  /\ pending[key[c]] # None
  /\ src' = [src EXCEPT ![c] = pending[key[c]]]
  /\ Goto(c, "wait")
  /\ UNCHANGED <<now, mu, entries, pending, key, t0, ctxDone, got, pres,
                 closed, ret, savedAt>>

(* ... or the call becomes the leader of a lookup of its own. *)
Lead(c) ==
  /\ pc[c] = "check" /\ mu = None
  /\ ~Usable(c)
  /\ pending[key[c]] = None
  /\ pending' = [pending EXCEPT ![key[c]] = c]
  /\ src' = [src EXCEPT ![c] = c]
  /\ Goto(c, "lookup")
  /\ UNCHANGED <<now, mu, entries, key, t0, ctxDone, got, pres, closed, ret,
                 savedAt>>

(* The select of a joiner: p.done is closed and p is read without the lock, ... *)
WaitDone(c) ==
  /\ pc[c] = "wait"
  /\ closed[src[c]]
  /\ Return(c, pres[src[c]])
  /\ UNCHANGED <<now, mu, entries, pending, key, t0, ctxDone, src, got, pres,
                 closed, savedAt>>

(* Mutant of WaitCtx: a joiner waits for the lookup alone. *)
JoinerIgnoresCtx(c) == FALSE

(* ... or the joiner's own context is done. *)
WaitCtx(c) ==
  /\ pc[c] = "wait"
  /\ ctxDone[c]
  /\ Return(c, CtxErr)
  /\ UNCHANGED <<now, mu, entries, pending, key, t0, ctxDone, src, got, pres,
                 closed, savedAt>>

(* c.inner.Resolve returns to the leader. *)
LookupReturn(c) ==
  /\ pc[c] = "lookup"
  /\ \E r \in Results :
       /\ r = CtxErr => LookupCtxDone(c)
       /\ got' = [got EXCEPT ![c] = r]
  /\ Goto(c, "publish")
  /\ UNCHANGED <<now, mu, entries, pending, key, t0, ctxDone, src, pres,
                 closed, ret, savedAt>>

(* The second critical section: the outcome is put in p, ... *)
Publish(c) ==
  /\ pc[c] = "publish" /\ mu = None
  /\ mu' = c
  /\ pres' = [pres EXCEPT ![c] = got[c]]
  /\ Goto(c, "close")
  /\ UNCHANGED <<now, entries, pending, key, t0, ctxDone, src, got, closed,
                 ret, savedAt>>

(* Mutant of CloseDone: the lock is released before the entry is stored. *)
CloseDoneUnlocks(c) ==
  /\ pc[c] = "close"
  /\ closed' = [closed EXCEPT ![c] = TRUE]
  /\ pending' = [pending EXCEPT ![key[c]] = None]
  /\ mu' = None
  /\ Goto(c, "store")
  /\ UNCHANGED <<now, entries, key, t0, ctxDone, src, got, pres, ret, savedAt>>

(* Mutant of CloseDone: the channel is never closed. *)
CloseDoneForgets(c) ==
  /\ pc[c] = "close"
  /\ pending' = [pending EXCEPT ![key[c]] = None]
  /\ Goto(c, "store")
  /\ UNCHANGED <<now, mu, entries, key, t0, ctxDone, src, got, pres, closed,
                 ret, savedAt>>

(* ... p.done is closed and p leaves the pending table, ... *)
CloseDone(c) ==
  /\ pc[c] = "close"
  /\ closed' = [closed EXCEPT ![c] = TRUE]
  /\ pending' = [pending EXCEPT ![key[c]] = None]
  /\ Goto(c, "store")
  /\ UNCHANGED <<now, mu, entries, key, t0, ctxDone, src, got, pres, ret,
                 savedAt>>

(* ... the entry is stored when its TTL is positive, ... *)
Store(c) ==
  /\ pc[c] = "store"
  /\ savedAt' = [savedAt EXCEPT ![c] = now]
  /\ IF TTL(got[c]) > 0
     THEN /\ entries' = [entries EXCEPT ![key[c]] =
                           [res |-> got[c], expires |-> now + TTL(got[c]), by |-> c]]
          /\ Goto(c, "evict")
          /\ UNCHANGED <<mu, ret>>
     ELSE /\ mu' = None
          /\ Return(c, got[c])
          /\ UNCHANGED entries
  /\ UNCHANGED <<now, pending, key, t0, ctxDone, src, got, pres, closed>>

(* ... and evictLocked trims the table before the lock is released. *)
Evict(c) ==
  /\ pc[c] = "evict"
  /\ entries' \in Evictions(entries)
  /\ mu' = None
  /\ Return(c, got[c])
  /\ UNCHANGED <<now, pending, key, t0, ctxDone, src, got, pres, closed,
                 savedAt>>

(* The caller's context is cancelled, or its deadline passes. *)
CtxExpire(c) ==
  /\ pc[c] \notin {"idle", "done"}
  /\ ~ctxDone[c]
  /\ ctxDone' = [ctxDone EXCEPT ![c] = TRUE]
  /\ UNCHANGED <<now, mu, entries, pending, pc, key, t0, src, got, pres,
                 closed, ret, savedAt>>

Tick ==
  /\ now < MaxTime
  /\ now' = now + 1
  /\ UNCHANGED <<mu, entries, pending, pc, callVars>>

(* All calls have returned: nothing is left to happen but stuttering. *)
Finished ==
  /\ \A c \in Calls : pc[c] = "done"
  /\ UNCHANGED vars

(* The steps of a call that the scheduler alone decides: a runnable goroutine
   runs, and c.mu is not starved, ... *)
Step(c) ==
  \/ Hit(c) \/ Join(c) \/ Lead(c)
  \/ WaitDone(c) \/ WaitCtx(c)
  \/ Publish(c) \/ CloseDone(c) \/ Store(c) \/ Evict(c)

(* ... and those that callers, upstreams and contexts decide. *)
Next ==
  \/ \E c \in Calls : Step(c) \/ Begin(c) \/ LookupReturn(c) \/ CtxExpire(c)
  \/ Tick
  \/ Finished

Spec == Init /\ [][Next]_vars

-----------------------------------------------------------------------------
(* Resolve is a sequence of steps on values of these shapes. *)
Entry == [res : Results, expires : Int, by : Calls]

TypeOK ==
  /\ now \in Nat
  /\ mu \in Calls \cup {None}
  /\ entries \in [Keys -> Entry \cup {None}]
  /\ pending \in [Keys -> Calls \cup {None}]
  /\ pc \in [Calls -> {"idle", "check", "lookup", "wait", "publish", "close",
                       "store", "evict", "done"}]
  /\ key \in [Calls -> Keys \cup {None}]
  /\ t0 \in [Calls -> Nat \cup {None}]
  /\ ctxDone \in [Calls -> BOOLEAN]
  /\ src \in [Calls -> Calls \cup {None}]
  /\ got \in [Calls -> Results \cup {None}]
  /\ pres \in [Calls -> Results \cup {None}]
  /\ closed \in [Calls -> BOOLEAN]
  /\ ret \in [Calls -> Results \cup {None}]
  /\ savedAt \in [Calls -> Nat \cup {None}]

(* From the moment a call takes a lookup upon itself until its outcome is in
   the cache and the lock is released. *)
Leading(c) == pc[c] \in {"lookup", "publish", "close", "store", "evict"}

(* A burst of requests for one host produces one upstream lookup: two calls
   are never busy with a lookup of the same key, not even while one of them
   has answered its waiters but has not stored the entry yet. *)
SingleFlight ==
  \A c, d \in Calls :
    c # d /\ Leading(c) /\ Leading(d) => key[c] # key[d]

(* What a call returns, unless its context ended, is what one lookup of its
   own key produced, and the call started before that lookup's answer had been
   kept for longer than the TTL of that kind of answer. *)
AnswerFresh ==
  \A c \in Calls :
    pc[c] = "done" /\ ret[c] # CtxErr =>
      LET l == src[c] IN
        /\ l # None
        /\ key[l] = key[c]
        /\ ret[c] = got[l]
        /\ \/ savedAt[l] = None
           \/ t0[c] <= savedAt[l]
           \/ t0[c] < savedAt[l] + TTL(got[l])

(* One caller giving up is invisible to the others: a call fails with a
   context error only when its own context is done, and no such error is kept
   in the cache. *)
CancelIsolation ==
  /\ \A c \in Calls : ret[c] = CtxErr => ctxDone[c]
  /\ \A k \in Cached(entries) : entries[k].res # CtxErr

(* Between critical sections the table never exceeds its capacity. *)
CacheBounded ==
  mu = None => Cardinality(Cached(entries)) <= Capacity

(* The inner resolver keeps its part: a lookup comes back in the end. *)
LookupsReturn == \A c \in Calls : []<>(pc[c] # "lookup")

(* Each call on its own is a Resolver call: it returns at most once, blames a
   context only if it is its own, and does return if the lookups do. *)
Contract(c) ==
  INSTANCE ResolverContract
    WITH Outcomes <- Results, called <- pc[c] # "idle",
         ctxDone <- ctxDone[c], ret <- ret[c]

ImplementsResolver ==
  /\ \A c \in Calls : Contract(c)!Init
  /\ [][\A c \in Calls : Contract(c)!Step]_vars
  /\ LookupsReturn => \A c \in Calls : Contract(c)!Live

(* A call that waits for another one's lookup returns once its own context is
   done, even if the lookup never comes back. *)
CancelFreesWaiter ==
  \A c \in Calls : pc[c] = "wait" /\ ctxDone[c] ~> pc[c] = "done"

=============================================================================
