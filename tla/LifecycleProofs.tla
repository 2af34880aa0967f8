-------------------------- MODULE LifecycleProofs ---------------------------
(***************************************************************************)
(* Proofs about Lifecycle, for any number of starts, of descriptors and of *)
(* networks.                                                               *)
(***************************************************************************)
EXTENDS Lifecycle, TLAPS

-----------------------------------------------------------------------------
(* The commands still to run: both, the second, or none; the loops of setProxy
   and unsetProxy are left with the last one. *)
TodoOK ==
  /\ todo \in {<<>>, getProxyTypes, <<"securewebproxy">>}
  /\ pc \in {"set", "unset"} => todo # <<>>

TypeInv == TypeOK /\ TodoOK

(* What Head and Tail make of the list of proxy types. *)
LEMMA TodoSteps ==
  /\ getProxyTypes # <<>> /\ <<"securewebproxy">> # <<>>
  /\ getProxyTypes # <<"securewebproxy">>
  /\ Len(getProxyTypes) = 2 /\ Len(<<"securewebproxy">>) = 1
  /\ Head(getProxyTypes) = "webproxy" /\ Tail(getProxyTypes) = <<"securewebproxy">>
  /\ Head(<<"securewebproxy">>) = "securewebproxy" /\ Tail(<<"securewebproxy">>) = <<>>
  BY DEF getProxyTypes

(* The flags of run and of Start are set and reset, nothing else. *)
LEMMA FlagSteps == FlagsOK /\ [Next]_vars => FlagsOK'
<1> SUFFICES ASSUME FlagsOK, [Next]_vars PROVE FlagsOK'
  OBVIOUS
<1> DEFINE Same == UNCHANGED <<notified, sigs, ctxDone, listening>>
<1> USE DEF Within, mainVars, osVars, startVars, FlagsOK, Exit
<1>1. ASSUME Same PROVE FlagsOK'
  BY <1>1
<1>2. CASE Within(LoadConfig)
  BY <1>1, <1>2 DEF LoadConfig
<1>3. CASE Within(Spawn) \/ Within(getDefaultNetwork) \/ Within(SetOsProxy)
  BY <1>1, <1>3 DEF Spawn, getDefaultNetwork, SetOsProxy
<1>4. CASE Within(UnsetOsProxy) \/ Within(OsProxyFails)
  BY <1>1, <1>4 DEF UnsetOsProxy, OsProxyFails
<1>5. CASE Within(AwaitStart) \/ Within(SelectErr)
  BY <1>1, <1>5 DEF AwaitStart, SelectErr
<1>6. CASE Within(NetworkChanges)
  BY <1>1, <1>6 DEF NetworkChanges
<1>7. CASE Within(Accept) \/ Within(ConnEnds)
  BY <1>1, <1>7 DEF Accept, ConnEnds
<1>8. CASE Within(AcceptTimeout) \/ Within(Wake)
  BY <1>1, <1>8 DEF AcceptTimeout, Wake
<1>9. CASE UNCHANGED vars
  BY <1>1, <1>9 DEF vars
<1>10. CASE Within(Notify)
  BY <1>10 DEF Notify
<1>11. CASE Within(SelectSignal)
  BY <1>11 DEF SelectSignal
<1>12. CASE Within(Signal)
  BY <1>12 DEF Signal
<1>13. CASE Within(Listen)
  BY <1>13 DEF Listen, StartReturns
<1>14. CASE Within(CloseListener)
  BY <1>14 DEF CloseListener
<1>15. CASE Within(AcceptClosed) \/ Within(AcceptExhausted) \/ Within(AcceptFatal)
  BY <1>15 DEF AcceptClosed, AcceptExhausted, AcceptFatal, StartReturns
<1>16. CASE Restart
  BY <1>16 DEF Restart
<1>17. QED
  BY <1>2, <1>3, <1>4, <1>5, <1>6, <1>7, <1>8, <1>9, <1>10, <1>11, <1>12,
     <1>13, <1>14, <1>15, <1>16 DEF Next, run, Finished

(* The shape of every variable; the backoff takes only the ten values of the
   doubling from 5 ms to a second. *)
LEMMA Typing == Spec => []TypeInv
<1>1. Init => TypeInv
  <2> SUFFICES ASSUME Init PROVE TypeInv
    OBVIOUS
  <2>1. FlagsOK
    BY DEF Init, FlagsOK
  <2>2. QED
    BY <2>1, MaxRunsNat, FdLimitNat DEF Init, TypeInv, TypeOK, TodoOK
<1>2. TypeInv /\ [Next]_vars => TypeInv'
  <2> SUFFICES ASSUME TypeInv, [Next]_vars PROVE TypeInv'
    OBVIOUS
  <2> USE DEF TypeInv, TypeOK, TodoOK, Within, mainVars, osVars, startVars, Exit
  <2>1. FlagsOK'
    BY FlagSteps
  <2>2. CASE Within(LoadConfig)
    BY <2>1, <2>2, TodoSteps DEF LoadConfig, EnterOsProxy
  <2>3. CASE Within(Spawn) \/ Within(Notify)
    BY <2>1, <2>3 DEF Spawn, Notify
  <2>4. CASE Within(getDefaultNetwork)
    BY <2>1, <2>4 DEF getDefaultNetwork
  <2>5. CASE Within(SetOsProxy)
    <3>1. service \in Networks
      BY <2>5 DEF SetOsProxy
    <3>2. Head(todo) \in {"webproxy", "securewebproxy"} /\ TodoOK'
      BY <2>5, TodoSteps DEF SetOsProxy
    <3>3. (settings \subseteq Networks \X {"webproxy", "securewebproxy"})'
      BY <2>5, <3>1, <3>2 DEF SetOsProxy
    <3>4. QED
      BY <2>1, <2>5, <3>2, <3>3 DEF SetOsProxy
  <2>6. CASE Within(UnsetOsProxy)
    <3>1. TodoOK'
      <4>1. todo \in {getProxyTypes, <<"securewebproxy">>}
        BY <2>6 DEF UnsetOsProxy
      <4>2. QED
        BY <2>6, <4>1, TodoSteps, SMTT(30) DEF UnsetOsProxy
    <3>2. QED
      BY <2>1, <2>6, <3>1 DEF UnsetOsProxy
  <2>7. CASE Within(OsProxyFails)
    BY <2>1, <2>7 DEF OsProxyFails, Mishaps
  <2>8. CASE Within(SelectSignal)
    BY <2>1, <2>8 DEF SelectSignal
  <2>9. CASE Within(AwaitStart) \/ Within(SelectErr)
    BY <2>1, <2>9, TodoSteps DEF AwaitStart, SelectErr, RunReturns, EnterOsProxy
  <2>10. CASE Within(Signal) \/ Within(NetworkChanges)
    <3>1. CASE Within(Signal) /\ notified
      BY <2>1, <3>1 DEF Signal
    <3>2. CASE Within(Signal) /\ ~notified
      <4>1. /\ pc' = "killed" /\ mishaps' = mishaps \cup {"killed"}
            /\ UNCHANGED <<args, network, service, todo, settings, code, runs,
                           startVars>>
        BY <3>2 DEF Signal
      <4>2. QED
        BY <2>1, <4>1 DEF Mishaps
    <3>3. CASE Within(NetworkChanges)
      BY <2>1, <3>3 DEF NetworkChanges, Mishaps
    <3>4. QED
      BY <2>10, <3>1, <3>2, <3>3
  <2>11. CASE Within(Listen) \/ Within(CloseListener)
    BY <2>1, <2>11 DEF Listen, CloseListener, StartReturns
  <2>12. CASE Within(Accept) \/ Within(ConnEnds)
    BY <2>1, <2>12, FdLimitNat DEF Accept, ConnEnds
  <2>13. CASE Within(AcceptTimeout) \/ Within(Wake)
    BY <2>1, <2>13 DEF AcceptTimeout, Wake, NextDelay
  <2>14. CASE Within(AcceptClosed) \/ Within(AcceptExhausted) \/ Within(AcceptFatal)
    BY <2>1, <2>14 DEF AcceptClosed, AcceptExhausted, AcceptFatal, StartReturns
  <2>15. CASE Restart
    BY <2>1, <2>15, MaxRunsNat, FdLimitNat DEF Restart
  <2>16. CASE UNCHANGED vars
    BY <2>1, <2>16 DEF vars
  <2>17. QED
    BY <2>2, <2>3, <2>4, <2>5, <2>6, <2>7, <2>8, <2>9, <2>10, <2>11,
       <2>12, <2>13, <2>14, <2>15, <2>16 DEF Next, run, Finished
<1>3. QED
  BY <1>1, <1>2, PTL DEF Spec

(* Every variable of the model keeps its shape in every behaviour. *)
THEOREM TypeCorrect == Spec => []TypeOK
<1>1. TypeInv => TypeOK
  BY DEF TypeInv
<1>2. QED
  BY <1>1, Typing, PTL
-----------------------------------------------------------------------------
(* Whoever lets Start or run end without an error has seen ctx done. *)
AskedInv ==
  /\ pc = "await" => ctxDone
  /\ spc \in {"accept", "sleep"} /\ ~listening => ctxDone
  /\ errCh = "nil" => ctxDone
  /\ code = 0 => ctxDone \/ args.version


(* Start returns nil only from the listener that the end of ctx closed, and run
   takes code 0 only from that nil, from the signal it waited for or from -v. *)
LEMMA Asked == Spec => []AskedInv
<1>1. Init => AskedInv
  BY NoneIsNoValue DEF Init, AskedInv
<1>2. TypeInv /\ AskedInv /\ [Next]_vars => AskedInv'
  <2> SUFFICES ASSUME TypeInv, AskedInv, [Next]_vars PROVE AskedInv'
    OBVIOUS
  <2> USE NoneIsNoValue
      DEF TypeInv, TypeOK, AskedInv, Within, mainVars, osVars, startVars, Exit
  <2>1. CASE Within(LoadConfig)
    BY <2>1 DEF LoadConfig, EnterOsProxy
  <2>2. CASE Within(Spawn) \/ Within(Notify)
    BY <2>2 DEF Spawn, Notify
  <2>3. CASE Within(getDefaultNetwork) \/ Within(NetworkChanges)
    BY <2>3 DEF getDefaultNetwork, NetworkChanges
  <2>4. CASE Within(SetOsProxy) \/ Within(UnsetOsProxy)
    BY <2>4 DEF SetOsProxy, UnsetOsProxy
  <2>5. CASE Within(OsProxyFails)
    BY <2>5 DEF OsProxyFails
  <2>6. CASE Within(SelectSignal)
    BY <2>6 DEF SelectSignal
  <2>7. CASE Within(AwaitStart)
    BY <2>7 DEF AwaitStart, RunReturns, EnterOsProxy
  <2>8. CASE Within(SelectErr)
    BY <2>8 DEF SelectErr, RunReturns, EnterOsProxy
  <2>9. CASE Within(Signal)
    BY <2>9 DEF Signal
  <2>10. CASE Within(Listen) \/ Within(CloseListener)
    BY <2>10 DEF Listen, CloseListener, StartReturns
  <2>11. CASE Within(Accept) \/ Within(ConnEnds)
    BY <2>11 DEF Accept, ConnEnds
  <2>12. CASE Within(AcceptTimeout) \/ Within(Wake)
    BY <2>12 DEF AcceptTimeout, Wake
  <2>13. CASE Within(AcceptClosed) \/ Within(AcceptExhausted) \/ Within(AcceptFatal)
    BY <2>13 DEF AcceptClosed, AcceptExhausted, AcceptFatal, StartReturns
  <2>14. CASE Restart
    BY <2>14 DEF Restart
  <2>15. CASE UNCHANGED vars
    BY <2>15 DEF vars
  <2>16. QED
    BY <2>1, <2>2, <2>3, <2>4, <2>5, <2>6, <2>7, <2>8, <2>9, <2>10, <2>11,
       <2>12, <2>13, <2>14, <2>15 DEF Next, run, Finished
<1>3. QED
  BY <1>1, <1>2, Typing, PTL DEF Spec

(* Exit code 0 is never the end of a Start that failed: it answers -v, or ctx
   was canceled for a signal before Start returned. *)
THEOREM ExitZeroIsClean == Spec => []CleanExitWasAsked
<1>1. AskedInv => CleanExitWasAsked
  BY DEF AskedInv, CleanExitWasAsked
<1>2. QED
  BY <1>1, Asked, PTL
-----------------------------------------------------------------------------
(* What the place where run is says of the list of proxy types. *)
PlaceInv ==
  /\ pc \in {"load", "set", "spawn", "notify", "killed"} => ~notified
  /\ pc \in {"select", "await", "unset"} => notified
  /\ pc \in {"set", "unset"} => UsesOsProxy
  /\ pc = "load" => todo = <<>> /\ service = None
  /\ pc = "exited" /\ ~notified /\ todo # <<>> => code = 1

(* UnsetOsProxy has turned off the types it has been through, on the network
   it looked up. *)
UnsetInv ==
  /\ pc \in {"set", "unset"} /\ service = None => todo = getProxyTypes
  /\ pc = "unset" /\ todo = <<"securewebproxy">> => <<service, "webproxy">> \notin settings
  /\ pc = "exited" /\ notified /\ UsesOsProxy /\ todo = <<>> =>
       /\ <<service, "webproxy">> \notin settings
       /\ <<service, "securewebproxy">> \notin settings

(* Without a mishap only the default network has settings on, and only while
   this run is between setting and unsetting them. *)
NoMishapInv ==
  mishaps = {} =>
    /\ service \in {None, network}
    /\ settings \subseteq {network} \X {"webproxy", "securewebproxy"}
    /\ pc \in {"load", "exited"} \/ ~UsesOsProxy => settings = {}
    /\ pc # "killed"

ProxyInv == PlaceInv /\ UnsetInv /\ NoMishapInv

(* run's order of SetOsProxy, Notify and the deferred UnsetOsProxy keeps these
   facts, over restarts of the program too. *)
LEMMA Proxies == Spec => []ProxyInv
<1> USE NoneIsNoValue DEF UsesOsProxy
<1>1. Init => ProxyInv
  BY TodoSteps DEF Init, ProxyInv, PlaceInv, UnsetInv, NoMishapInv
<1>2. TypeInv /\ ProxyInv /\ [Next]_vars => ProxyInv'
  <2> SUFFICES ASSUME TypeInv, ProxyInv, [Next]_vars PROVE ProxyInv'
    OBVIOUS
  <2> USE DEF TypeInv, TypeOK, TodoOK, ProxyInv, PlaceInv, UnsetInv,
              NoMishapInv, Within, mainVars, osVars, Exit
  <2>1. CASE UNCHANGED mainVars
    BY <2>1
  <2>2. CASE Within(LoadConfig)
    BY <2>2, TodoSteps DEF LoadConfig, EnterOsProxy
  <2>3. CASE Within(Spawn) \/ Within(Notify)
    BY <2>3 DEF Spawn, Notify
  <2>4. CASE Within(getDefaultNetwork)
    BY <2>4, TodoSteps DEF getDefaultNetwork
  <2>5. CASE Within(SetOsProxy)
    BY <2>5, TodoSteps DEF SetOsProxy
  <2>6. CASE Within(UnsetOsProxy)
    <3> USE DEF UnsetOsProxy
    <3>1. CASE todo = getProxyTypes
      BY <2>6, <3>1, TodoSteps
    <3>2. CASE todo = <<"securewebproxy">>
      <4>1. /\ pc' = "exited" /\ todo' = <<>>
            /\ settings' = settings \ {<<service, "securewebproxy">>}
        BY <2>6, <3>2, TodoSteps
      <4>2. PlaceInv' /\ UnsetInv'
        BY <2>6, <3>2, <4>1, TodoSteps
      <4>3. mishaps = {} => settings' = {}
        BY <2>6, <3>2, <4>1
      <4>4. QED
        BY <2>6, <4>1, <4>2, <4>3
    <3>3. QED
      BY <2>6, <3>1, <3>2
  <2>7. CASE Within(OsProxyFails)
    BY <2>7 DEF OsProxyFails
  <2>8. CASE Within(SelectSignal)
    BY <2>8 DEF SelectSignal
  <2>9. CASE Within(AwaitStart) \/ Within(SelectErr)
    BY <2>9, TodoSteps, SMTT(30) DEF AwaitStart, SelectErr, RunReturns, EnterOsProxy
  <2>10. CASE Within(Signal)
    BY <2>10, SMTT(30) DEF Signal, Running
  <2>11. CASE Within(NetworkChanges)
    BY <2>11 DEF NetworkChanges
  <2>12. CASE Restart
    BY <2>12 DEF Restart, Running
  <2>13. QED
    BY <2>1, <2>2, <2>3, <2>4, <2>5, <2>6, <2>7, <2>8, <2>9, <2>10, <2>11, <2>12
    DEF Next, run, Finished, vars, Listen, CloseListener, Accept, AcceptClosed,
        AcceptTimeout, Wake, AcceptExhausted, AcceptFatal, ConnEnds
<1>3. QED
  BY <1>1, <1>2, Typing, PTL DEF Spec

(* When the process has ended, a run that got as far as Notify and whose
   commands worked has left no proxy on the network it looked up last, settings
   are on only after a mishap the code does not handle, and a SetOsProxy that
   was not finished shows in the exit code. *)
THEOREM ProxyIsRestored == Spec => []ProxyRestored
<1>1. TypeInv /\ ProxyInv => ProxyRestored
  BY DEF TypeInv, TypeOK, ProxyInv, PlaceInv, UnsetInv, NoMishapInv,
         ProxyRestored, Running, UsesOsProxy
<1>2. QED
  BY <1>1, Typing, Proxies, PTL
=============================================================================
