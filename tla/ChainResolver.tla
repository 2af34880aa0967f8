--------------------------- MODULE ChainResolver ----------------------------
(***************************************************************************)
(* One call of ChainResolver.Resolve (dns/resolver/chain.go): every        *)
(* upstream resolver is asked at the same time, each under its own perTry  *)
(* deadline, and the first non-empty answer wins.  An upstream is known    *)
(* only by ResolverContract: it returns something, but it may wait for its *)
(* context to end before it does.                                          *)
(***************************************************************************)
EXTENDS Naturals, Sequences, FiniteSets

CONSTANTS Upstreams,    \* the resolvers NewDns may put in a chain
          Answers,      \* non-empty address lists
          PerTries,     \* subset of BOOLEAN: whether c.perTry > 0
          None

Empty  == "empty"       \* (nil, nil)
Failed == "failed"      \* an error that is not the caller's context's
CtxErr == "ctxErr"      \* the error of the context Resolve was given

Results == Answers \cup {Empty, Failed, CtxErr}

ASSUME UpstreamsFinite == IsFiniteSet(Upstreams)
ASSUME PerTriesBool    == PerTries \subseteq BOOLEAN
ASSUME NoneIsNoValue   == None \notin Upstreams \cup Results
ASSUME AnswersAreLists == Answers \cap {Empty, Failed, CtxErr} = {}

VARIABLES
  resolvers,  \* c.resolvers, fixed when the chain is built
  perTry,     \* whether c.perTry > 0, fixed too
  ctxDone,    \* the caller's ctx
  canceled,   \* whether the deferred cancel() has run
  timedOut,   \* per upstream: whether its perTry deadline has passed
  gpc,        \* per upstream: where its goroutine is
  res,        \* per upstream: what its Resolve returned
  out,        \* the buffered channel of results
  pc,         \* where Resolve is
  iter,       \* iterations of the receive loop completed
  errs,       \* the upstreams whose errors were collected
  ret

chainVars == <<resolvers, perTry>>
goVars    == <<timedOut, gpc, res>>
mainVars  == <<pc, iter, errs, ret>>
vars == <<chainVars, ctxDone, canceled, goVars, out, mainVars>>

-----------------------------------------------------------------------------
(* cctx is derived from ctx and canceled when Resolve returns; tctx is cctx,
   or derived from it with the perTry deadline. *)
CctxDone == ctxDone \/ canceled

(* Mutant of TctxDone: the upstream is given cctx. *)
TctxWithoutDeadline(r) == CctxDone

TctxDone(r) == CctxDone \/ timedOut[r]

Init ==
  /\ resolvers \in SUBSET Upstreams
  /\ perTry \in PerTries
  /\ ctxDone = FALSE
  /\ canceled = FALSE
  /\ timedOut = [r \in Upstreams |-> FALSE]
  /\ gpc = [r \in Upstreams |-> "unstarted"]
  /\ res = [r \in Upstreams |-> None]
  /\ out = <<>>
  /\ pc = "enter"
  /\ iter = 0
  /\ errs = {}
  /\ ret = None

(* Mutant of Return: cancel is not deferred. *)
ReturnWithoutCancel(r) ==
  /\ pc' = "returned"
  /\ ret' = r
  /\ UNCHANGED canceled

Return(r) ==
  /\ pc' = "returned"
  /\ ret' = r
  /\ canceled' = TRUE

(* Without upstreams Resolve fails at once, before there is a cctx; otherwise
   it starts one goroutine for each. *)
Enter ==
  /\ pc = "enter"
  /\ IF resolvers = {}
     THEN Return(Failed) /\ UNCHANGED gpc
     ELSE /\ pc' = "recv"
          /\ gpc' = [r \in Upstreams |->
                       IF r \in resolvers THEN "resolve" ELSE "unstarted"]
          /\ UNCHANGED <<ret, canceled>>
  /\ UNCHANGED <<chainVars, ctxDone, timedOut, res, out, iter, errs>>

(* The perTry deadline of an upstream passes. *)
PerTryExpire(r) ==
  /\ perTry
  /\ gpc[r] = "resolve" /\ ~timedOut[r]
  /\ timedOut' = [timedOut EXCEPT ![r] = TRUE]
  /\ UNCHANGED <<chainVars, ctxDone, canceled, gpc, res, out, mainVars>>

(* r.Resolve(tctx, ...) returns. *)
UpstreamReturn(r) ==
  /\ gpc[r] = "resolve"
  /\ \E x \in Results :
       /\ x = CtxErr => TctxDone(r)
       /\ res' = [res EXCEPT ![r] = x]
  /\ gpc' = [gpc EXCEPT ![r] = "send"]
  /\ UNCHANGED <<chainVars, ctxDone, canceled, timedOut, out, mainVars>>

(* out has room for every upstream. *)
BufferSize == Cardinality(resolvers)

(* Mutant of Send: the result is sent twice. *)
SendTwice(r) ==
  /\ gpc[r] = "send"
  /\ out' = out \o <<r, r>>
  /\ gpc' = [gpc EXCEPT ![r] = "exited"]
  /\ UNCHANGED <<chainVars, ctxDone, canceled, timedOut, res, mainVars>>

(* The goroutine's select: send into the buffer, or drop the result because
   nobody waits for it any more. *)
Send(r) ==
  /\ gpc[r] = "send"
  /\ Len(out) < BufferSize
  /\ out' = Append(out, r)
  /\ gpc' = [gpc EXCEPT ![r] = "exited"]
  /\ UNCHANGED <<chainVars, ctxDone, canceled, timedOut, res, mainVars>>

(* Mutant of Drop: a late result is dropped when its own deadline has passed. *)
DropOnDeadline(r) ==
  /\ gpc[r] = "send"
  /\ TctxDone(r)
  /\ gpc' = [gpc EXCEPT ![r] = "exited"]
  /\ UNCHANGED <<chainVars, ctxDone, canceled, timedOut, res, out, mainVars>>

Drop(r) ==
  /\ gpc[r] = "send"
  /\ CctxDone
  /\ gpc' = [gpc EXCEPT ![r] = "exited"]
  /\ UNCHANGED <<chainVars, ctxDone, canceled, timedOut, res, out, mainVars>>

(* One iteration of the receive loop: a non-empty answer is returned, an
   error is collected, an empty answer is passed over, ... *)
Receive ==
  /\ pc = "recv" /\ iter < Cardinality(resolvers)
  /\ out # <<>>
  /\ LET r == Head(out) IN
       IF res[r] \in Answers
       THEN Return(res[r]) /\ UNCHANGED <<iter, errs>>
       ELSE /\ iter' = iter + 1
            /\ errs' = IF res[r] = Empty THEN errs ELSE errs \cup {r}
            /\ UNCHANGED <<pc, ret, canceled>>
  /\ out' = Tail(out)
  /\ UNCHANGED <<chainVars, ctxDone, goVars>>

(* ... or the caller's context ends the wait. *)
ReceiveCtx ==
  /\ pc = "recv" /\ iter < Cardinality(resolvers)
  /\ ctxDone
  /\ Return(CtxErr)
  /\ UNCHANGED <<chainVars, ctxDone, goVars, out, iter, errs>>

(* Mutant of Exhausted: the collected errors are thrown away. *)
ExhaustedSilently ==
  /\ pc = "recv" /\ iter = Cardinality(resolvers)
  /\ Return(Empty)
  /\ UNCHANGED <<chainVars, ctxDone, goVars, out, iter, errs>>

(* After the loop: errors.Join(errs...) is nil when nothing was collected. *)
Exhausted ==
  /\ pc = "recv" /\ iter = Cardinality(resolvers)
  /\ Return(IF errs = {} THEN Empty ELSE Failed)
  /\ UNCHANGED <<chainVars, ctxDone, goVars, out, iter, errs>>

CtxExpire ==
  /\ pc # "returned" /\ ~ctxDone
  /\ ctxDone' = TRUE
  /\ UNCHANGED <<chainVars, canceled, goVars, out, mainVars>>

(* Resolve has returned and its goroutines are gone. *)
Finished ==
  /\ pc = "returned"
  /\ \A r \in resolvers : gpc[r] \in {"unstarted", "exited"}
  /\ UNCHANGED vars

Main == Enter \/ Receive \/ ReceiveCtx \/ Exhausted

Next ==
  \/ Main \/ CtxExpire \/ Finished
  \/ \E r \in resolvers :
       PerTryExpire(r) \/ UpstreamReturn(r) \/ Send(r) \/ Drop(r)

Spec == Init /\ [][Next]_vars

(* Runnable goroutines run and timers fire, but an upstream is only trusted to
   return once its context is done: it may hang until then. *)
FairSpec ==
  /\ Spec
  /\ WF_vars(Main)
  /\ \A r \in Upstreams :
       /\ WF_vars(PerTryExpire(r))
       /\ WF_vars(TctxDone(r) /\ UpstreamReturn(r))
       /\ WF_vars(Send(r) \/ Drop(r))

-----------------------------------------------------------------------------
TypeOK ==
  /\ resolvers \in SUBSET Upstreams /\ perTry \in PerTries
  /\ ctxDone \in BOOLEAN /\ canceled \in BOOLEAN
  /\ timedOut \in [Upstreams -> BOOLEAN]
  /\ gpc \in [Upstreams -> {"unstarted", "resolve", "send", "exited"}]
  /\ res \in [Upstreams -> Results \cup {None}]
  /\ out \in Seq(resolvers) /\ Len(out) <= BufferSize
  /\ pc \in {"enter", "recv", "returned"}
  /\ iter \in 0..Cardinality(resolvers)
  /\ errs \in SUBSET resolvers
  /\ ret \in Results \cup {None}

(* Resolve gives up only when it has to: it reports failure or an empty answer
   only after every upstream has answered without an address, and it hides no
   upstream's error behind an empty answer. *)
NoAnswerMissed ==
  /\ ret \in {Failed, Empty} =>
       \A r \in resolvers : res[r] \in Results \ Answers
  /\ ret = Empty => \A r \in resolvers : res[r] = Empty
  /\ ret = Failed /\ resolvers # {} =>
       \E r \in resolvers : res[r] \in {Failed, CtxErr}

(* A result is dropped only when nobody wants it: until Resolve returns or its
   caller gives up, what an upstream returned is in the channel or has been
   taken from it, so the loop's iterations add up. *)
NoResultLost ==
  ~CctxDone =>
    Cardinality({r \in resolvers : gpc[r] = "exited"}) = iter + Len(out)

(* A winner stops the race: every goroutine Resolve started ends after it
   returns, though each upstream may hang until its context is canceled. *)
LosersStop ==
  pc = "returned" ~> \A r \in resolvers : gpc[r] \in {"unstarted", "exited"}

(* The call is a Resolver call: it returns at most once, with a context error
   only if its own context is done, and with a perTry it does return even when
   every upstream hangs until its deadline. *)
Contract ==
  INSTANCE ResolverContract
    WITH Outcomes <- Results, called <- TRUE,
         ctxDone <- ctxDone, ret <- ret

ImplementsResolver ==
  /\ Contract!Init
  /\ [][Contract!Next]_(Contract!cvars)
  /\ perTry => Contract!Live
=============================================================================
