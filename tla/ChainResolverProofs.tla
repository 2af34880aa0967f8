------------------------ MODULE ChainResolverProofs -------------------------
(***************************************************************************)
(* Proofs about ChainResolver, for any number of upstreams and answers.    *)
(***************************************************************************)
EXTENDS ChainResolver, FiniteSetTheorems, TLAPS

-----------------------------------------------------------------------------
FlagsOK == ctxDone \in BOOLEAN /\ canceled \in BOOLEAN

(* Contexts are canceled, never revived. *)
LEMMA FlagSteps == FlagsOK /\ [Next]_vars => FlagsOK'
<1> SUFFICES ASSUME FlagsOK, [Next]_vars PROVE FlagsOK'
  OBVIOUS
<1> USE DEF FlagsOK
<1>1. ASSUME UNCHANGED <<ctxDone, canceled>> PROVE FlagsOK'
  BY <1>1
<1>2. CASE Enter
  BY <1>2 DEF Enter, Return
<1>3. CASE Receive
  BY <1>3 DEF Receive, Return
<1>4. CASE ReceiveCtx
  BY <1>4 DEF ReceiveCtx, Return
<1>5. CASE Exhausted
  BY <1>5 DEF Exhausted, Return
<1>6. CASE CtxExpire
  BY <1>6 DEF CtxExpire
<1>7. ASSUME NEW r \in resolvers,
             PerTryExpire(r) \/ UpstreamReturn(r) \/ Send(r) \/ Drop(r)
      PROVE  FlagsOK'
  BY <1>1, <1>7 DEF PerTryExpire, UpstreamReturn, Send, Drop
<1>8. CASE UNCHANGED vars
  BY <1>1, <1>8 DEF vars
<1>9. QED
  BY <1>2, <1>3, <1>4, <1>5, <1>6, <1>7, <1>8 DEF Next, Main, Finished

(* A goroutine past its upstream's Resolve has a result, and the channel holds
   upstreams whose goroutine has sent. *)
LocalOK ==
  /\ pc # "returned" => ret = None
  /\ pc = "enter" => out = <<>> /\ \A r \in Upstreams : gpc[r] = "unstarted"
  /\ \A r \in resolvers : gpc[r] \in {"send", "exited"} => res[r] \in Results
  /\ \A i \in 1..Len(out) : gpc[out[i]] = "exited"

TypeInv == TypeOK /\ LocalOK

(* The number of upstreams is a number. *)
LEMMA Sizes ==
  ASSUME resolvers \in SUBSET Upstreams
  PROVE  IsFiniteSet(resolvers) /\ Cardinality(resolvers) \in Nat
  BY UpstreamsFinite, FS_Subset, FS_CardinalityType

(* The shape of every variable: no result is received twice or from an upstream
   that has none, and the buffer never overflows. *)
LEMMA Typing == Spec => []TypeInv
<1> USE NoneIsNoValue, PerTriesBool DEF Results
<1>1. Init => TypeInv
  <2> SUFFICES ASSUME Init PROVE TypeInv
    OBVIOUS
  <2>1. FlagsOK
    BY DEF Init, FlagsOK
  <2>2. Cardinality(resolvers) \in Nat
    BY Sizes DEF Init
  <2>3. QED
    BY <2>1, <2>2 DEF Init, TypeInv, TypeOK, LocalOK, FlagsOK, BufferSize
<1>2. TypeInv /\ [Next]_vars => TypeInv'
  <2> SUFFICES ASSUME TypeInv, [Next]_vars PROVE TypeInv'
    OBVIOUS
  <2>1. FlagsOK /\ FlagsOK'
    BY FlagSteps DEF TypeInv, TypeOK, FlagsOK
  <2>2. Cardinality(resolvers) \in Nat
    BY Sizes DEF TypeInv, TypeOK
  <2> USE <2>1, <2>2
      DEF TypeInv, TypeOK, LocalOK, FlagsOK, BufferSize, chainVars, goVars, mainVars
  <2>3. CASE Enter
    BY <2>3 DEF Enter, Return
  <2>4. CASE Receive
    BY <2>4 DEF Receive, Return
  <2>5. CASE ReceiveCtx
    BY <2>5 DEF ReceiveCtx, Return
  <2>6. CASE Exhausted
    BY <2>6 DEF Exhausted, Return
  <2>7. CASE CtxExpire
    BY <2>7 DEF CtxExpire
  <2>8. ASSUME NEW r \in resolvers, PerTryExpire(r) PROVE TypeInv'
    BY <2>8 DEF PerTryExpire
  <2>9. ASSUME NEW r \in resolvers, UpstreamReturn(r) PROVE TypeInv'
    BY <2>9 DEF UpstreamReturn
  <2>10. ASSUME NEW r \in resolvers, Send(r) PROVE TypeInv'
    BY <2>10 DEF Send
  <2>11. ASSUME NEW r \in resolvers, Drop(r) PROVE TypeInv'
    BY <2>11 DEF Drop
  <2>12. CASE UNCHANGED vars
    BY <2>12 DEF vars
  <2>13. QED
    BY <2>3, <2>4, <2>5, <2>6, <2>7, <2>8, <2>9, <2>10, <2>11, <2>12
    DEF Next, Main, Finished
<1>3. QED
  BY <1>1, <1>2, PTL DEF Spec

(* Every variable of the model keeps its shape in every behaviour. *)
THEOREM TypeCorrect == Spec => []TypeOK
<1>1. TypeInv => TypeOK
  BY DEF TypeInv
<1>2. QED
  BY <1>1, Typing, PTL
-----------------------------------------------------------------------------
(* R is the set of upstreams whose results the loop has taken: as many as it
   made iterations, none an answer, the errors among them collected.  Until
   somebody gives up, the rest of the finished ones are in the channel. *)
Received(R) ==
  /\ Cardinality(R) = iter
  /\ errs = {r \in R : res[r] # Empty}
  /\ \A r \in R : gpc[r] = "exited" /\ res[r] \notin Answers
  /\ \A i \in 1..Len(out) : out[i] \notin R
  /\ ~CctxDone =>
       \A r \in resolvers :
         gpc[r] = "exited" => r \in R \/ \E i \in 1..Len(out) : out[i] = r

NoDuplicates == \A i, j \in 1..Len(out) : out[i] = out[j] => i = j

(* A call that reported an empty answer or a failure has heard from everyone. *)
HeardAll ==
  ret \in {Empty, Failed} => \A r \in resolvers : gpc[r] = "exited"

ChainInv ==
  /\ NoDuplicates /\ HeardAll /\ NoAnswerMissed
  /\ \E R \in SUBSET resolvers : Received(R)

(* A step that leaves the results already taken, the channel and the outcome
   alone keeps what is known of them, if no further goroutine exits. *)
LEMMA Undisturbed ==
  ASSUME TypeInv, ChainInv,
         UNCHANGED <<resolvers, out, iter, errs>>,
         \A r \in resolvers :
           /\ (gpc[r] = "exited") <=> (gpc'[r] = "exited")
           /\ gpc[r] = "exited" => res'[r] = res[r],
         CctxDone => CctxDone'
  PROVE  NoDuplicates' /\ \E R \in SUBSET resolvers' : Received(R)'
<1>1. PICK R \in SUBSET resolvers : Received(R)
  BY DEF ChainInv
<1>2. \A i \in 1..Len(out) : out[i] \in resolvers
  BY DEF TypeInv, TypeOK
<1>3. errs' = {r \in R : res'[r] # Empty}
  BY <1>1 DEF Received
<1>4. Received(R)'
  BY <1>1, <1>2, <1>3 DEF Received
<1>5. NoDuplicates'
  BY DEF ChainInv, NoDuplicates
<1>6. QED
  BY <1>4, <1>5

(* Every result is taken at most once, and none is lost while somebody waits. *)
LEMMA Chain == Spec => []ChainInv
<1> USE NoneIsNoValue, AnswersAreLists
<1>1. Init => ChainInv
  <2> SUFFICES ASSUME Init PROVE ChainInv
    OBVIOUS
  <2>1. Received({})
    BY FS_EmptySet DEF Init, Received
  <2>2. NoDuplicates /\ HeardAll /\ NoAnswerMissed
    BY DEF Init, NoDuplicates, HeardAll, NoAnswerMissed, Results
  <2>3. QED
    BY <2>1, <2>2 DEF ChainInv
<1>2. TypeInv /\ ChainInv /\ [Next]_vars => ChainInv'
  <2> SUFFICES ASSUME TypeInv, ChainInv, [Next]_vars PROVE ChainInv'
    OBVIOUS
  <2> USE DEF chainVars, goVars, mainVars
  <2>1. IsFiniteSet(resolvers) /\ Cardinality(resolvers) \in Nat
    BY Sizes DEF TypeInv, TypeOK
  <2>2. PICK R \in SUBSET resolvers : Received(R)
    BY DEF ChainInv
  <2>3. IsFiniteSet(R) /\ Cardinality(R) \in Nat
    BY <2>1, FS_Subset, FS_CardinalityType
  <2>4. CASE Enter
    <3>1. NoDuplicates' /\ \E Q \in SUBSET resolvers' : Received(Q)'
      <4>1. UNCHANGED <<resolvers, out, iter, errs, res>> /\ (CctxDone => CctxDone')
        BY <2>4 DEF Enter, Return, CctxDone
      <4>2. \A r \in resolvers : gpc[r] # "exited" /\ gpc'[r] # "exited"
        BY <2>4 DEF Enter, TypeInv, TypeOK, LocalOK
      <4>3. QED
        BY <4>1, <4>2, Undisturbed
    <3>2. HeardAll' /\ NoAnswerMissed'
      BY <2>4 DEF Enter, Return, HeardAll, NoAnswerMissed, TypeInv, LocalOK, Results
    <3>3. QED
      BY <3>1, <3>2 DEF ChainInv
  <2>5. CASE Receive
    <3>1. PICK h \in resolvers :
            h = Head(out) /\ h = out[1] /\ h \notin R /\ gpc[h] = "exited"
      BY <2>2, <2>5 DEF Receive, TypeInv, TypeOK, LocalOK, Received
    <3>2. /\ \A i \in 1..Len(out') : i + 1 \in 1..Len(out) /\ out'[i] = out[i + 1]
          /\ \A j \in 2..Len(out) : j - 1 \in 1..Len(out') /\ out'[j - 1] = out[j]
      BY <2>5 DEF Receive, TypeInv, TypeOK
    <3>3. NoDuplicates' /\ \A i \in 1..Len(out') : out'[i] # h
      BY <2>5, <3>1, <3>2 DEF Receive, TypeInv, TypeOK, ChainInv, NoDuplicates
    <3>4. CASE res[h] \in Answers
      <4>1. pc' = "returned" /\ ret' = res[h] /\ canceled' /\ UNCHANGED <<iter, errs>>
        BY <2>5, <3>1, <3>4 DEF Receive, Return
      <4>2. Received(R)'
        BY <2>2, <2>5, <3>2, <4>1 DEF Receive, Received, CctxDone
      <4>3. HeardAll' /\ NoAnswerMissed'
        BY <3>4, <4>1 DEF HeardAll, NoAnswerMissed
      <4>4. QED
        BY <2>5, <3>3, <4>2, <4>3 DEF ChainInv, Receive
    <3>5. CASE res[h] \notin Answers
      <4>1. /\ iter' = iter + 1
            /\ errs' = IF res[h] = Empty THEN errs ELSE errs \cup {h}
            /\ UNCHANGED <<pc, ret, canceled, ctxDone, gpc, res, resolvers>>
        BY <2>5, <3>1, <3>5 DEF Receive
      <4>2. Cardinality(R \cup {h}) = iter'
        BY <2>2, <2>3, <3>1, <4>1, FS_AddElement DEF Received
      <4>3. errs' = {r \in R \cup {h} : res'[r] # Empty}
        BY <2>2, <4>1 DEF Received
      <4>4. \A r \in R \cup {h} : gpc'[r] = "exited" /\ res'[r] \notin Answers
        BY <2>2, <3>1, <3>5, <4>1 DEF Received
      <4>5. \A i \in 1..Len(out') : out'[i] \notin R \cup {h}
        BY <2>2, <3>2, <3>3 DEF Received
      <4>6. ASSUME ~CctxDone', NEW r \in resolvers, gpc[r] = "exited", r \notin R \cup {h}
            PROVE  \E i \in 1..Len(out') : out'[i] = r
        <5>1. PICK j \in 1..Len(out) : out[j] = r
          BY <2>2, <4>1, <4>6 DEF Received, CctxDone
        <5>2. j \in 2..Len(out)
          BY <3>1, <4>6, <5>1 DEF TypeInv, TypeOK
        <5>3. QED
          BY <3>2, <5>1, <5>2
      <4>7. Received(R \cup {h})'
        BY <4>1, <4>2, <4>3, <4>4, <4>5, <4>6 DEF Received
      <4>8. HeardAll' /\ NoAnswerMissed'
        BY <4>1 DEF ChainInv, HeardAll, NoAnswerMissed
      <4>9. R \cup {h} \in SUBSET resolvers'
        BY <3>1, <4>1
      <4>10. QED
        BY <3>3, <4>7, <4>8, <4>9 DEF ChainInv
    <3>6. QED
      BY <3>4, <3>5
  <2>6. CASE ReceiveCtx
    <3>1. NoDuplicates' /\ \E Q \in SUBSET resolvers' : Received(Q)'
      BY <2>6, Undisturbed DEF ReceiveCtx, Return, CctxDone
    <3>2. HeardAll' /\ NoAnswerMissed'
      BY <2>6 DEF ReceiveCtx, Return, HeardAll, NoAnswerMissed, Empty, Failed, CtxErr
    <3>3. QED
      BY <3>1, <3>2 DEF ChainInv
  <2>7. CASE Exhausted
    <3>1. NoDuplicates' /\ \E Q \in SUBSET resolvers' : Received(Q)'
      BY <2>7, Undisturbed DEF Exhausted, Return, CctxDone
    <3>2. R = resolvers
      BY <2>1, <2>2, <2>7, FS_Subset DEF Exhausted, Received
    <3>3. \A r \in resolvers :
            gpc[r] = "exited" /\ res[r] \in Results \ Answers /\ (r \in errs <=> res[r] # Empty)
      BY <2>2, <3>2 DEF Received, TypeInv, TypeOK, LocalOK
    <3>4. HeardAll' /\ NoAnswerMissed'
      BY <2>7, <3>3 DEF Exhausted, Return, HeardAll, NoAnswerMissed, Results,
                        Empty, Failed, CtxErr, TypeInv, TypeOK
    <3>5. QED
      BY <3>1, <3>4 DEF ChainInv
  <2>8. CASE CtxExpire
    <3>1. NoDuplicates' /\ \E Q \in SUBSET resolvers' : Received(Q)'
      BY <2>8, Undisturbed DEF CtxExpire, CctxDone
    <3>2. QED
      BY <2>8, <3>1 DEF ChainInv, CtxExpire, HeardAll, NoAnswerMissed
  <2>9. ASSUME NEW r \in resolvers, PerTryExpire(r) PROVE ChainInv'
    <3>1. NoDuplicates' /\ \E Q \in SUBSET resolvers' : Received(Q)'
      BY <2>9, Undisturbed DEF PerTryExpire, CctxDone
    <3>2. QED
      BY <2>9, <3>1 DEF ChainInv, PerTryExpire, HeardAll, NoAnswerMissed
  <2>10. ASSUME NEW r \in resolvers, UpstreamReturn(r) PROVE ChainInv'
    <3>1. \A q \in resolvers :
            /\ (gpc[q] = "exited") <=> (gpc'[q] = "exited")
            /\ gpc[q] = "exited" => res'[q] = res[q]
      BY <2>10 DEF UpstreamReturn, TypeInv, TypeOK
    <3>2. NoDuplicates' /\ \E Q \in SUBSET resolvers' : Received(Q)'
      BY <2>10, <3>1, Undisturbed DEF UpstreamReturn, CctxDone
    <3>3. HeardAll' /\ NoAnswerMissed'
      BY <2>10, <3>1 DEF ChainInv, UpstreamReturn, HeardAll, NoAnswerMissed
    <3>4. QED
      BY <3>2, <3>3 DEF ChainInv
  <2>11. ASSUME NEW r \in resolvers, Send(r) PROVE ChainInv'
    <3>1. /\ Len(out') = Len(out) + 1 /\ out'[Len(out')] = r
          /\ \A i \in 1..Len(out) : i \in 1..Len(out') /\ out'[i] = out[i]
      BY <2>11 DEF Send, TypeInv, TypeOK
    <3>2. \A i \in 1..Len(out) : out[i] # r
      BY <2>11 DEF Send, TypeInv, LocalOK
    <3>3. NoDuplicates'
      BY <3>1, <3>2 DEF ChainInv, NoDuplicates, TypeInv, TypeOK
    <3>4. r \notin R
      BY <2>2, <2>11 DEF Received, Send
    <3>5. \A i \in 1..Len(out') : out'[i] \notin R
      BY <2>2, <3>1, <3>4 DEF Received, TypeInv, TypeOK
    <3>6. /\ gpc'[r] = "exited" /\ \A q \in resolvers : q # r => gpc'[q] = gpc[q]
          /\ UNCHANGED <<resolvers, res, iter, errs, ret, ctxDone, canceled>>
      BY <2>11 DEF Send, TypeInv, TypeOK
    <3>7. ASSUME ~CctxDone', NEW q \in resolvers, gpc'[q] = "exited", q \notin R
          PROVE  \E i \in 1..Len(out') : out'[i] = q
      <4>1. CASE q = r
        BY <3>1, <4>1 DEF TypeInv, TypeOK
      <4>2. CASE q # r
        BY <2>2, <3>1, <3>6, <3>7, <4>2 DEF Received, CctxDone
      <4>3. QED
        BY <4>1, <4>2
    <3>8. Received(R)'
      BY <2>2, <3>4, <3>5, <3>6, <3>7 DEF Received
    <3>9. HeardAll' /\ NoAnswerMissed'
      BY <3>6 DEF ChainInv, HeardAll, NoAnswerMissed
    <3>10. QED
      BY <3>3, <3>6, <3>8, <3>9 DEF ChainInv
  <2>12. ASSUME NEW r \in resolvers, Drop(r) PROVE ChainInv'
    <3>1. /\ gpc'[r] = "exited" /\ \A q \in resolvers : q # r => gpc'[q] = gpc[q]
          /\ UNCHANGED <<resolvers, out, res, iter, errs, ret, ctxDone, canceled>>
      BY <2>12 DEF Drop, TypeInv, TypeOK
    <3>2. CctxDone'
      BY <2>12, <3>1 DEF Drop, CctxDone
    <3>3. Received(R)'
      BY <2>2, <3>1, <3>2 DEF Received
    <3>4. NoDuplicates' /\ HeardAll' /\ NoAnswerMissed'
      BY <3>1 DEF ChainInv, NoDuplicates, HeardAll, NoAnswerMissed
    <3>5. QED
      BY <3>1, <3>3, <3>4 DEF ChainInv
  <2>13. CASE UNCHANGED vars
    <3>1. NoDuplicates' /\ \E Q \in SUBSET resolvers' : Received(Q)'
      BY <2>13, Undisturbed DEF vars, CctxDone
    <3>2. QED
      BY <2>13, <3>1 DEF ChainInv, vars, HeardAll, NoAnswerMissed
  <2>14. QED
    BY <2>4, <2>5, <2>6, <2>7, <2>8, <2>9, <2>10, <2>11, <2>12, <2>13
    DEF Next, Main, Finished
<1>3. QED
  BY <1>1, <1>2, Typing, PTL DEF Spec

(* Resolve reports failure or an empty answer only after every upstream has
   answered without an address, and hides no upstream's error: also when the
   caller's context ends while results are in the channel or being dropped. *)
THEOREM NoAnswerIsMissed == Spec => []NoAnswerMissed
<1>1. ChainInv => NoAnswerMissed
  BY DEF ChainInv
<1>2. QED
  BY <1>1, Chain, PTL

(* While somebody waits, the finished upstreams are the ones counted by iter
   and the ones in the channel, so the loop over len(c.resolvers) results can
   complete. *)
THEOREM NoResultIsLost == Spec => []NoResultLost
<1>1. TypeInv /\ ChainInv => NoResultLost
  <2> SUFFICES ASSUME TypeInv, ChainInv, ~CctxDone
               PROVE  Cardinality({r \in resolvers : gpc[r] = "exited"}) = iter + Len(out)
    BY DEF NoResultLost
  <2> DEFINE Exited == {r \in resolvers : gpc[r] = "exited"}
             Queued == {out[i] : i \in 1..Len(out)}
  <2>1. PICK R \in SUBSET resolvers : Received(R)
    BY DEF ChainInv
  <2>2. Exited = R \cup Queued /\ R \cap Queued = {}
    BY <2>1 DEF Received, TypeInv, TypeOK, LocalOK
  <2>3. ExistsBijection(1..Len(out), Queued)
    <3>1. out \in [1..Len(out) -> Queued]
      BY DEF TypeInv, TypeOK
    <3>2. out \in Injection(1..Len(out), Queued)
      BY <3>1 DEF Injection, IsInjective, ChainInv, NoDuplicates
    <3>3. out \in Surjection(1..Len(out), Queued)
      BY <3>1 DEF Surjection
    <3>4. QED
      BY <3>2, <3>3 DEF ExistsBijection, Bijection
  <2>4. IsFiniteSet(Queued) /\ Cardinality(Queued) = Len(out)
    <3>1. IsFiniteSet(1..Len(out)) /\ Cardinality(1..Len(out)) = Len(out)
      <4>1. Len(out) \in Nat
        BY DEF TypeInv, TypeOK
      <4>2. /\ IsFiniteSet(1..Len(out))
            /\ Cardinality(1..Len(out)) = IF 1 > Len(out) THEN 0 ELSE Len(out) - 1 + 1
        BY <4>1, FS_Interval
      <4>3. QED
        BY <4>1, <4>2
    <3>2. QED
      BY <2>3, <3>1, FS_Bijection
  <2>5. IsFiniteSet(R)
    BY Sizes, FS_Subset DEF TypeInv, TypeOK
  <2>6. Cardinality(R \cup Queued) = Cardinality(R) + Cardinality(Queued)
    <3>1. Cardinality(R) \in Nat /\ Cardinality(Queued) \in Nat
      BY <2>4, <2>5, FS_CardinalityType
    <3>2. Cardinality(R \cap Queued) = 0
      BY <2>2, FS_EmptySet
    <3>3. Cardinality(R \cup Queued)
            = Cardinality(R) + Cardinality(Queued) - Cardinality(R \cap Queued)
      BY <2>4, <2>5, FS_Union
    <3>4. QED
      BY <3>1, <3>2, <3>3
  <2>7. QED
    BY <2>1, <2>2, <2>4, <2>6 DEF Received
<1>2. QED
  BY <1>1, Typing, Chain, PTL
-----------------------------------------------------------------------------
(* A call of the chain is a Resolver call: it returns once, and with the
   context's error only if the caller's own context is done, never because of
   the perTry deadline of an upstream or of its own cancel. *)
THEOREM ChainIsResolver == Spec => Contract!Init /\ [][Contract!Next]_(Contract!cvars)
<1> USE NoneIsNoValue, AnswersAreLists DEF Contract!cvars
<1>1. Init => Contract!Init
  BY DEF Init, Contract!Init
<1>2. TypeInv /\ [Next]_vars => [Contract!Next]_(Contract!cvars)
  <2> SUFFICES ASSUME TypeInv, [Next]_vars PROVE [Contract!Next]_(Contract!cvars)
    OBVIOUS
  <2> USE DEF TypeInv, TypeOK, LocalOK, Return, Results, chainVars, mainVars,
              Contract!Next, Contract!Return
  <2>1. CASE Enter
    BY <2>1 DEF Enter, Empty, Failed, CtxErr
  <2>2. CASE Receive
    <3>1. CASE ret' = ret
      BY <2>2, <3>1 DEF Receive
    <3>2. CASE ret' # ret
      BY <2>2, <3>2 DEF Receive
    <3>3. QED
      BY <3>1, <3>2
  <2>3. CASE ReceiveCtx
    BY <2>3 DEF ReceiveCtx
  <2>4. CASE Exhausted
    BY <2>4 DEF Exhausted, Empty, Failed, CtxErr
  <2>5. CASE CtxExpire
    BY <2>5 DEF CtxExpire, Contract!Expire
  <2>6. ASSUME NEW r \in resolvers,
               PerTryExpire(r) \/ UpstreamReturn(r) \/ Send(r) \/ Drop(r)
        PROVE  UNCHANGED Contract!cvars
    BY <2>6 DEF PerTryExpire, UpstreamReturn, Send, Drop
  <2>7. CASE UNCHANGED vars
    BY <2>7 DEF vars
  <2>8. QED
    BY <2>1, <2>2, <2>3, <2>4, <2>5, <2>6, <2>7 DEF Next, Main, Finished
<1>3. QED
  BY <1>1, <1>2, Typing, PTL DEF Spec
=============================================================================
