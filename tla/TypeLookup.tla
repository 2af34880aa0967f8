----------------------------- MODULE TypeLookup -----------------------------
(***************************************************************************)
(* One call of GeneralResolver.Resolve or DOHResolver.Resolve: the worker  *)
(* goroutines and the closer of lookupAllTypes, the exchange each worker   *)
(* makes, and processResults, which merges what arrives on the channel     *)
(* (dns/resolver/resolver.go, general.go, doh.go).                         *)
(*                                                                         *)
(* An address is its rank in the RFC 6724 order, 1 being the best.  The    *)
(* server's records are fixed in Init: a complete reply to a query carries *)
(* all of them, a truncated one a proper prefix.                           *)
(***************************************************************************)
EXTENDS Naturals, Sequences, FiniteSets

CONSTANTS QTypes,       \* the record types asked for
          Zones,        \* record lists the server may hold: QTypes -> Seq(Nat)
          Transports,   \* {"plain"}, {"doh"} or both
          None

(* A Go result pair; err is "nil", "failed" or "ctxErr". *)
Pair(a, e) == [addrs |-> a, err |-> e]

Nothing == Pair(<<>>, "nil")
Failed  == Pair(<<>>, "failed")
CtxErr  == Pair(<<>>, "ctxErr")

ASSUME QTypesFinite    == IsFiniteSet(QTypes) /\ QTypes # {}
ASSUME ZonesAreRecords == \A z \in Zones : z \in [QTypes -> Seq(Nat)]
ASSUME TransportsKnown == Transports \subseteq {"plain", "doh"}
ASSUME NoneIsNoResult  ==
  None \notin [addrs : Seq(Nat), err : {"nil", "failed", "ctxErr"}]

VARIABLES
  transport,  \* which resolver it is
  zone,       \* what the server holds for each type
  ctxDone,    \* the caller's ctx
  wpc,        \* per type: where its worker is
  res,        \* per type: the worker's DNSResult
  resCh,      \* the buffered channel, as a queue of types
  closed,     \* whether resCh is closed
  addrs,      \* processResults: the addresses collected
  errs,       \* processResults: the types whose errors were collected
  sel,        \* its select: "running" towards it, "parked" in it, or woken by
              \* a "result", by the "end" of resCh or by the "ctx"
  ret         \* what Resolve returned

server   == <<transport, zone>>
chVars   == <<resCh, closed>>
procVars == <<addrs, errs, ret>>
vars == <<server, ctxDone, wpc, res, chVars, procVars, sel>>

-----------------------------------------------------------------------------
Init ==
  /\ transport \in Transports
  /\ zone \in Zones
  /\ ctxDone = FALSE
  /\ wpc = [q \in QTypes |-> "exchange"]
  /\ res = [q \in QTypes |-> None]
  /\ resCh = <<>>
  /\ closed = FALSE
  /\ addrs = <<>>
  /\ errs = {}
  /\ sel = "running"
  /\ ret = None

(* A goroutine parked in a select commits to the first case that gets ready;
   one that finds several ready when it reaches the select takes any. *)
Wake(case) == sel' = IF sel = "parked" THEN case ELSE sel
Taking(case) == sel \in {"running", case} /\ sel' = "running"

Result(q, r) ==
  /\ res' = [res EXCEPT ![q] = r]
  /\ wpc' = [wpc EXCEPT ![q] = "send"]

(* The final word of an exchange: a complete reply, or an error (timeout,
   transport, HTTP status, and for DoH an unpack error or an rcode). *)
Conclude(q) == \E r \in {Pair(zone[q], "nil"), Failed} : Result(q, r)

(* Mutant of AskUdp: a truncated reply is taken as the answer. *)
AskUdpOnce(q) ==
  /\ transport = "plain"
  /\ wpc[q] = "exchange"
  /\ \/ Conclude(q)
     \/ /\ zone[q] # <<>>
        /\ Result(q, Pair(Tail(zone[q]), "nil"))
  /\ UNCHANGED <<server, ctxDone, chVars, procVars, sel>>

(* GeneralResolver.exchange asks over UDP and, when the reply has TC set,
   throws it away and asks again over TCP. *)
AskUdp(q) ==
  /\ transport = "plain"
  /\ wpc[q] = "exchange"
  /\ \/ Conclude(q)
     \/ /\ zone[q] # <<>>
        /\ wpc' = [wpc EXCEPT ![q] = "tcp"]
        /\ UNCHANGED res
  /\ UNCHANGED <<server, ctxDone, chVars, procVars, sel>>

AskTcp(q) ==
  /\ wpc[q] = "tcp"
  /\ Conclude(q)
  /\ UNCHANGED <<server, ctxDone, chVars, procVars, sel>>

(* DOHResolver.exchange is one HTTPS request. *)
AskDoh(q) ==
  /\ transport = "doh"
  /\ wpc[q] = "exchange"
  /\ Conclude(q)
  /\ UNCHANGED <<server, ctxDone, chVars, procVars, sel>>

(* Mutant of Send: the result is sent twice. *)
SendTwice(q) ==
  /\ wpc[q] = "send"
  /\ resCh' = resCh \o <<q, q>>
  /\ wpc' = [wpc EXCEPT ![q] = "exited"]
  /\ Wake("result")
  /\ UNCHANGED <<server, ctxDone, res, closed, procVars>>

(* The worker's select, and its wg.Done: a place in the buffer, ... *)
Send(q) ==
  /\ wpc[q] = "send"
  /\ Len(resCh) < Cardinality(QTypes)
  /\ resCh' = Append(resCh, q)
  /\ wpc' = [wpc EXCEPT ![q] = "exited"]
  /\ Wake("result")
  /\ UNCHANGED <<server, ctxDone, res, closed, procVars>>

(* ... or the result is dropped, when the context is done. *)
Drop(q) ==
  /\ wpc[q] = "send"
  /\ ctxDone
  /\ wpc' = [wpc EXCEPT ![q] = "exited"]
  /\ UNCHANGED <<server, ctxDone, res, chVars, procVars, sel>>

(* Every worker has called wg.Done. *)
AllDone == \A q \in QTypes : wpc[q] = "exited"

(* Mutant of CloseCh: wg.Add is left to the workers, so that one that has not
   started yet is not waited for. *)
CloseChEarly ==
  /\ ~closed
  /\ \A q \in QTypes : wpc[q] \in {"exchange", "exited"}
  /\ closed' = TRUE
  /\ Wake("end")
  /\ UNCHANGED <<server, ctxDone, wpc, res, resCh, procVars>>

(* The closer goroutine: wg.Wait(), then close(resCh). *)
CloseCh ==
  /\ ~closed
  /\ AllDone
  /\ closed' = TRUE
  /\ Wake("end")
  /\ UNCHANGED <<server, ctxDone, wpc, res, resCh, procVars>>

(* The ways to put a list of n ranks in order: a place for each. *)
Orders(a, n) ==
  {p \in [1..n -> 1..n] : /\ \A j \in 1..n : \E i \in 1..n : p[i] = j
                          /\ \A i, j \in 1..n : i < j => a[p[i]] <= a[p[j]]}

(* sortAddrs: best address first.  AddrSelect models how. *)
sortAddrs(a) ==
  LET p == CHOOSE p \in Orders(a, Len(a)) : TRUE
  IN  [i \in 1..Len(a) |-> a[p[i]]]

(* processResults finds no case of its select ready, and waits, ... *)
Park ==
  /\ ret = None /\ sel = "running"
  /\ resCh = <<>> /\ ~closed /\ ~ctxDone
  /\ sel' = "parked"
  /\ UNCHANGED <<server, ctxDone, wpc, res, chVars, procVars>>

(* ... or takes one: a result, ... *)
Collect ==
  /\ ret = None /\ Taking("result")
  /\ resCh # <<>>
  /\ LET r == res[Head(resCh)] IN
       IF r.err # "nil"
       THEN errs' = errs \cup {Head(resCh)} /\ UNCHANGED addrs
       ELSE addrs' = addrs \o r.addrs /\ UNCHANGED errs
  /\ resCh' = Tail(resCh)
  /\ UNCHANGED <<server, ctxDone, wpc, res, closed, ret>>

(* Mutant of Drained: with nothing collected the loop goes on. *)
DrainedKeepsWaiting ==
  /\ ret = None /\ Taking("end")
  /\ closed /\ resCh = <<>>
  /\ addrs # <<>>
  /\ ret' = Pair(sortAddrs(addrs), "nil")
  /\ UNCHANGED <<server, ctxDone, wpc, res, chVars, addrs, errs>>

(* ... the end of the channel, where errors.Join of no errors is nil, ... *)
Drained ==
  /\ ret = None /\ Taking("end")
  /\ closed /\ resCh = <<>>
  /\ ret' = IF addrs # <<>> THEN Pair(sortAddrs(addrs), "nil")
            ELSE IF errs # {} THEN Failed ELSE Nothing
  /\ UNCHANGED <<server, ctxDone, wpc, res, chVars, addrs, errs>>

(* Mutant of CtxEnded: partial results are returned as they came. *)
CtxEndedUnsorted ==
  /\ ret = None /\ Taking("ctx")
  /\ ctxDone
  /\ ret' = IF addrs # <<>> THEN Pair(addrs, "nil") ELSE CtxErr
  /\ UNCHANGED <<server, ctxDone, wpc, res, chVars, addrs, errs>>

(* ... or the end of the context: what arrived so far is returned. *)
CtxEnded ==
  /\ ret = None /\ Taking("ctx")
  /\ ctxDone
  /\ ret' = IF addrs # <<>> THEN Pair(sortAddrs(addrs), "nil") ELSE CtxErr
  /\ UNCHANGED <<server, ctxDone, wpc, res, chVars, addrs, errs>>

CtxExpire ==
  /\ ret = None /\ ~ctxDone
  /\ ctxDone' = TRUE
  /\ Wake("ctx")
  /\ UNCHANGED <<server, wpc, res, chVars, procVars>>

Finished == ret # None /\ closed /\ UNCHANGED vars

Worker(q) == AskUdp(q) \/ AskTcp(q) \/ AskDoh(q) \/ Send(q) \/ Drop(q)

processResults == Park \/ Collect \/ Drained \/ CtxEnded

Next ==
  \/ \E q \in QTypes : Worker(q)
  \/ CloseCh \/ processResults \/ CtxExpire \/ Finished

Spec == Init /\ [][Next]_vars

(* Goroutines run, and every exchange ends by the client's own timeout. *)
FairSpec ==
  /\ Spec
  /\ \A q \in QTypes : WF_vars(Worker(q))
  /\ WF_vars(CloseCh) /\ WF_vars(processResults)

-----------------------------------------------------------------------------
Elems(s) == {s[i] : i \in DOMAIN s}

TypeOK ==
  /\ transport \in Transports /\ zone \in Zones
  /\ ctxDone \in BOOLEAN /\ closed \in BOOLEAN
  /\ wpc \in [QTypes -> {"exchange", "tcp", "send", "exited"}]
  /\ DOMAIN res = QTypes
  /\ resCh \in Seq(QTypes) /\ Len(resCh) <= Cardinality(QTypes)
  /\ addrs \in Seq(Nat)
  /\ errs \subseteq QTypes
  /\ sel \in {"running", "parked", "result", "end", "ctx"}
  /\ ret = None \/ (ret.addrs \in Seq(Nat) /\ ret.err \in {"nil", "failed", "ctxErr"})

(* While the caller waits, Resolve returns every record of every type the server
   answered for, none of a truncated reply in its place, and an error exactly
   when there is no record and some query failed. *)
NothingLost ==
  ret # None /\ ~ctxDone =>
    LET answered == {q \in QTypes : res[q].err = "nil"} IN
      /\ Elems(ret.addrs) = UNION {Elems(zone[q]) : q \in answered}
      /\ (ret.err # "nil") <=> (ret.addrs = <<>> /\ answered # QTypes)

(* ResolveHost dials the first address: whichever way Resolve ends and in
   whatever order the answers came, no returned address ranks before it. *)
BestFirst ==
  ret # None => \A i \in DOMAIN ret.addrs : ret.addrs[1] <= ret.addrs[i]

(* No worker can reach its send after resCh is closed, which would panic. *)
CloseIsLast == closed => AllDone /\ \A q \in QTypes : res[q] # None

(* TestGeneralResolverRespectsContext of general_test.go: a lookup whose every
   query failed makes Resolve return an error, not an empty success. *)
SilenceIsAnError == (\A q \in QTypes : res[q] = Failed) => ret # Nothing

(* The call is a Resolver call. *)
Kind(r) == CASE r = None          -> None
             [] r # None /\ r.err = "nil" -> "answer"
             [] OTHER             -> r.err

Contract ==
  INSTANCE ResolverContract
    WITH Outcomes <- {"answer", "failed", "ctxErr"}, CtxErr <- "ctxErr",
         called <- TRUE, ret <- Kind(ret)

ImplementsResolver == Contract!Spec
=============================================================================
