----------------------------- MODULE Lifecycle ------------------------------
(***************************************************************************)
(* The life of the process: run in main.go, the accept loop of Proxy.Start *)
(* (proxy/proxy.go) and the system proxy settings that util/os.go changes  *)
(* on macOS.  Connections are counted, not looked into: each holds a file  *)
(* descriptor, of which there are FdLimit.                                 *)
(***************************************************************************)
EXTENDS Naturals, Sequences

CONSTANTS FdLimit,      \* connections the process can have open
          Networks,     \* network services of the machine
          MaxRuns,      \* bound: how often the program is started
          None

ASSUME FdLimitNat == FdLimit \in Nat \ {0}
ASSUME MaxRunsNat == MaxRuns \in Nat \ {0}
ASSUME NoneIsNoValue ==
  None \notin Networks /\ None \notin {"nil", "exhausted", "fatal"} /\ None \notin {0, 1, 2}

VARIABLES
  args,       \* flags and platform, see Settings
  pc,         \* where run is
  network,    \* the service the default route goes through
  mishaps,    \* history: what kept some run from cleaning up, see Mishaps
  service,    \* what getDefaultNetwork returned, None before it is called
  todo,       \* proxy types setProxy or unsetProxy has still to treat
  settings,   \* <<service, proxy type>> that are on in the system's settings
  code,       \* the exit code
  notified,   \* whether signal.Notify was called
  sigs,       \* whether a signal is in the sigs channel
  ctxDone,    \* whether run has canceled ctx
  errCh,      \* what Start returned: None until then, "nil" or an error
  spc,        \* where Start is
  listening,  \* whether the listener is open
  tempDelay,  \* accept backoff in ms
  conns,      \* open connections
  runs        \* how often the program was started

osVars    == <<network, mishaps, service, todo, settings>>
mainVars  == <<args, pc, osVars, code, notified, sigs, ctxDone>>
startVars == <<errCh, spc, listening, tempDelay, conns>>
vars == <<mainVars, startVars, runs>>

-----------------------------------------------------------------------------
getProxyTypes == <<"webproxy", "securewebproxy">>

Settings == [version : BOOLEAN, systemProxy : BOOLEAN, darwin : BOOLEAN]

(* A signal before Notify, a failed command, another default network. *)
Mishaps == {"killed", "setFailed", "unsetFailed", "moved"}

Init ==
  /\ args \in Settings
  /\ pc = "load"
  /\ network \in Networks /\ mishaps = {}
  /\ service = None
  /\ todo = <<>>
  /\ settings = {}
  /\ code = None
  /\ notified = FALSE /\ sigs = FALSE
  /\ ctxDone = FALSE
  /\ errCh = None
  /\ spc = "none"
  /\ listening = FALSE
  /\ tempDelay = 0
  /\ conns = 0
  /\ runs = 1

Running == pc \notin {"exited", "killed"}

Exit(c) == pc' = "exited" /\ code' = c

-----------------------------------------------------------------------------
UsesOsProxy == args.systemProxy /\ args.darwin

(* SetOsProxy or UnsetOsProxy is entered: run is at l. *)
EnterOsProxy(l) ==
  /\ pc' = l
  /\ todo' = getProxyTypes
  /\ service' = None

(* run: -v prints the version, a bad configuration is code 2. *)
LoadConfig ==
  /\ pc = "load"
  /\ \/ args.version /\ Exit(0) /\ UNCHANGED <<todo, service>>
     \/ ~args.version /\ Exit(2) /\ UNCHANGED <<todo, service>>
     \/ /\ ~args.version
        /\ IF UsesOsProxy THEN EnterOsProxy("set")
           ELSE pc' = "spawn" /\ UNCHANGED <<todo, service>>
        /\ UNCHANGED code
  /\ UNCHANGED <<args, network, mishaps, settings, notified, sigs, ctxDone,
                 startVars>>

(* A command of SetOsProxy or UnsetOsProxy fails: nothing is undone or tried
   again.  SetOsProxy makes run return before UnsetOsProxy is deferred, the
   error of UnsetOsProxy is only logged. *)
OsProxyFails ==
  /\ pc \in {"set", "unset"}
  /\ Exit(IF pc = "set" THEN 1 ELSE code)
  /\ mishaps' = mishaps \cup {IF pc = "set" THEN "setFailed" ELSE "unsetFailed"}
  /\ UNCHANGED <<args, network, service, todo, settings, notified, sigs,
                 ctxDone, startVars>>

(* Both ask for the network that is the default one now, ... *)
getDefaultNetwork ==
  /\ pc \in {"set", "unset"} /\ service = None
  /\ service' = network
  /\ UNCHANGED <<args, pc, network, mishaps, todo, settings, code, notified,
                 sigs, ctxDone, startVars>>

(* ... and SetOsProxy turns the proxy settings of that one on. *)
SetOsProxy ==
  /\ pc = "set" /\ service # None
  /\ settings' = settings \cup {<<service, Head(todo)>>}
  /\ todo' = Tail(todo)
  /\ pc' = IF Len(todo) = 1 THEN "spawn" ELSE "set"
  /\ UNCHANGED <<args, network, mishaps, service, code, notified, sigs, ctxDone,
                 startVars>>

Spawn ==
  /\ pc = "spawn"
  /\ pc' = "notify"
  /\ spc' = "listen"
  /\ UNCHANGED <<args, osVars, code, notified, sigs, ctxDone,
                 errCh, listening, tempDelay, conns>>

Notify ==
  /\ pc = "notify"
  /\ notified' = TRUE
  /\ pc' = "select"
  /\ UNCHANGED <<args, osVars, code, sigs, ctxDone, startVars>>

(* The deferred calls run: UnsetOsProxy, if it was deferred, then cancel. *)
RunReturns(c) ==
  /\ code' = c
  /\ IF UsesOsProxy THEN EnterOsProxy("unset")
     ELSE pc' = "exited" /\ UNCHANGED <<todo, service>>

(* The select of run: a signal cancels ctx and waits for Start, ... *)
SelectSignal ==
  /\ pc = "select"
  /\ sigs
  /\ sigs' = FALSE
  /\ ctxDone' = TRUE
  /\ pc' = "await"
  /\ UNCHANGED <<args, osVars, code, notified, startVars>>

AwaitStart ==
  /\ pc = "await"
  /\ errCh # None
  /\ RunReturns(0)
  /\ UNCHANGED <<args, network, mishaps, settings, notified, sigs, ctxDone, startVars>>

(* Mutant of SelectErr: the error of Start is not looked at. *)
SelectErrIgnored ==
  /\ pc = "select"
  /\ errCh # None
  /\ RunReturns(0)
  /\ UNCHANGED <<args, network, mishaps, settings, notified, sigs, ctxDone, startVars>>

(* ... and the end of Start ends the process. *)
SelectErr ==
  /\ pc = "select"
  /\ errCh # None
  /\ RunReturns(IF errCh = "nil" THEN 0 ELSE 1)
  /\ UNCHANGED <<args, network, mishaps, settings, notified, sigs, ctxDone, startVars>>

(* UnsetOsProxy turns off the settings of the network that is the default one
   by then. *)
UnsetOsProxy ==
  /\ pc = "unset" /\ service # None
  /\ settings' = settings \ {<<service, Head(todo)>>}
  /\ todo' = Tail(todo)
  /\ pc' = IF Len(todo) = 1 THEN "exited" ELSE "unset"
  /\ UNCHANGED <<args, network, mishaps, service, code, notified, sigs, ctxDone,
                 startVars>>

(* The machine moves to another network. *)
NetworkChanges ==
  /\ \E n \in Networks \ {network} : network' = n
  /\ mishaps' = IF pc = "load" THEN mishaps ELSE mishaps \cup {"moved"}
  /\ UNCHANGED <<args, pc, service, todo, settings, code, notified, sigs,
                 ctxDone, startVars>>

(* SIGINT, SIGTERM, SIGQUIT or SIGHUP: before Notify it kills the process,
   afterwards it is queued, or dropped if one is queued already. *)
Signal ==
  /\ Running
  /\ IF notified THEN sigs' = TRUE /\ UNCHANGED <<pc, mishaps>>
     ELSE pc' = "killed" /\ mishaps' = mishaps \cup {"killed"} /\ UNCHANGED sigs
  /\ UNCHANGED <<args, network, service, todo, settings, code, notified,
                 ctxDone, startVars>>

(* The program is started again; the system's settings are as it left them. *)
Restart ==
  /\ ~Running /\ runs < MaxRuns
  /\ runs' = runs + 1
  /\ args' \in {a \in Settings : a.darwin = args.darwin}
  /\ pc' = "load" /\ spc' = "none"
  /\ service' = None /\ code' = None /\ errCh' = None
  /\ todo' = <<>>
  /\ notified' = FALSE /\ sigs' = FALSE /\ ctxDone' = FALSE /\ listening' = FALSE
  /\ tempDelay' = 0 /\ conns' = 0
  /\ UNCHANGED <<network, mishaps, settings>>

-----------------------------------------------------------------------------
StartReturns(err) ==
  /\ spc' = "returned"
  /\ listening' = FALSE
  /\ errCh' = err

(* Start: net.ListenTCP. *)
Listen ==
  /\ Running /\ spc = "listen"
  /\ \/ spc' = "accept" /\ listening' = TRUE /\ UNCHANGED errCh
     \/ StartReturns("fatal")
  /\ UNCHANGED <<mainVars, tempDelay, conns>>

(* Mutant of CloseListener: nobody closes the listener. *)
CloseListenerNever == FALSE

(* The goroutine that closes the listener once ctx is done. *)
CloseListener ==
  /\ Running /\ listening
  /\ ctxDone
  /\ listening' = FALSE
  /\ UNCHANGED <<mainVars, errCh, spc, tempDelay, conns>>

Accept ==
  /\ Running /\ spc = "accept" /\ listening
  /\ conns < FdLimit
  /\ conns' = conns + 1
  /\ tempDelay' = 0
  /\ UNCHANGED <<mainVars, errCh, spc, listening>>

(* net.ErrClosed *)
AcceptClosed ==
  /\ Running /\ spc = "accept" /\ ~listening
  /\ StartReturns("nil")
  /\ UNCHANGED <<mainVars, tempDelay, conns>>

(* Mutant of NextDelay: no cap. *)
NextDelayUncapped(d) == IF d = 0 THEN 5 ELSE 2 * d

(* 5 ms, doubled each time, at most a second. *)
NextDelay(d) ==
  LET e == IF d = 0 THEN 5 ELSE 2 * d
  IN  IF e > 1000 THEN 1000 ELSE e

(* An error that says Timeout() is retried after a pause, ... *)
AcceptTimeout ==
  /\ Running /\ spc = "accept" /\ listening
  /\ tempDelay' = NextDelay(tempDelay)
  /\ spc' = "sleep"
  /\ UNCHANGED <<mainVars, errCh, listening, conns>>

Wake ==
  /\ Running /\ spc = "sleep"
  /\ spc' = "accept"
  /\ UNCHANGED <<mainVars, errCh, listening, tempDelay, conns>>

(* ... any other is returned: a passing lack of descriptors, whose errno is
   temporary but not a timeout, ... *)
AcceptExhausted ==
  /\ Running /\ spc = "accept" /\ listening
  /\ conns = FdLimit
  /\ StartReturns("exhausted")
  /\ UNCHANGED <<mainVars, tempDelay, conns>>

(* Mutant of AcceptFatal: the accept loop exits the process by itself. *)
AcceptFatalExits ==
  /\ Running /\ spc = "accept" /\ listening
  /\ Exit(1)
  /\ UNCHANGED <<args, osVars, notified, sigs, ctxDone, startVars>>

(* ... and an error of the listener itself. *)
AcceptFatal ==
  /\ Running /\ spc = "accept" /\ listening
  /\ StartReturns("fatal")
  /\ UNCHANGED <<mainVars, tempDelay, conns>>

(* A connection's handle returns, after a panic too. *)
ConnEnds ==
  /\ Running /\ conns > 0
  /\ conns' = conns - 1
  /\ UNCHANGED <<mainVars, errCh, spc, listening, tempDelay>>

Finished == ~Running /\ runs = MaxRuns /\ UNCHANGED vars

-----------------------------------------------------------------------------
run == \/ LoadConfig \/ Spawn \/ Notify
       \/ getDefaultNetwork \/ SetOsProxy \/ UnsetOsProxy \/ OsProxyFails
       \/ SelectSignal \/ AwaitStart \/ SelectErr

(* A step within one run of the program. *)
Within(A) == A /\ UNCHANGED runs

Next ==
  \/ Within(run) \/ Within(Signal) \/ Within(NetworkChanges)
  \/ Within(Listen) \/ Within(CloseListener) \/ Within(Accept)
  \/ Within(AcceptClosed) \/ Within(AcceptTimeout) \/ Within(Wake)
  \/ Within(AcceptExhausted) \/ Within(AcceptFatal) \/ Within(ConnEnds)
  \/ Restart \/ Finished

Spec == Init /\ [][Next]_vars

(* Goroutines run, Sleep returns, Listen and networksetup come back; nobody
   need connect. *)
FairSpec ==
  /\ Spec
  /\ WF_vars(Within(run)) /\ WF_vars(Within(Listen)) /\ WF_vars(Within(Wake))
  /\ WF_vars(Within(CloseListener)) /\ WF_vars(Within(AcceptClosed))

-----------------------------------------------------------------------------
FlagsOK ==
  /\ notified \in BOOLEAN /\ sigs \in BOOLEAN /\ ctxDone \in BOOLEAN
  /\ listening \in BOOLEAN

TypeOK ==
  /\ FlagsOK
  /\ args \in Settings
  /\ pc \in {"load", "set", "spawn", "notify", "select", "await", "unset",
             "exited", "killed"}
  /\ network \in Networks /\ service \in Networks \cup {None}
  /\ mishaps \subseteq Mishaps /\ runs \in 1..MaxRuns
  /\ settings \subseteq Networks \X {"webproxy", "securewebproxy"}
  /\ code \in {None, 0, 1, 2}
  /\ errCh \in {None, "nil", "exhausted", "fatal"}
  /\ spc \in {"none", "listen", "accept", "sleep", "returned"}
  /\ tempDelay \in {0, 5, 10, 20, 40, 80, 160, 320, 640, 1000}
  /\ conns \in 0..FdLimit

(* A run that reached Notify and whose commands worked leaves the network it
   looked up last without the proxy, whatever an earlier run that was killed
   or failed had left there.  Settings stay on only after one of the mishaps
   the code does not handle, and never behind exit code 0 of a run that could
   not set them. *)
ProxyRestored ==
  ~Running =>
    /\ notified /\ UsesOsProxy /\ todo = <<>> =>
         \A t \in {"webproxy", "securewebproxy"} : <<service, t>> \notin settings
    /\ settings # {} => mishaps # {}
    /\ ~notified /\ todo # <<>> => code = 1 \/ pc = "killed"

(* Exit code 0 means that somebody asked for the exit. *)
CleanExitWasAsked ==
  pc = "exited" /\ code = 0 => ctxDone \/ args.version

(* A signal that arrived ends the process, whatever the accept loop is doing. *)
ShutdownCompletes == sigs ~> ~Running

(* CHANGELOG.md: on transient errors the accept loop "retries with backoff". *)
TransientErrorsRetried == errCh # "exhausted"
=============================================================================
