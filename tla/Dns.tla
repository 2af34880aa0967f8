-------------------------------- MODULE Dns --------------------------------
(***************************************************************************)
(* Dns of dns/dns.go put together: the command line and the configuration  *)
(* that NewDns turns into resolvers, and ResolveHost calls that share the  *)
(* cache of DnsCache.  The chain below the cache is what ChainResolver is  *)
(* shown to be: a Resolver that returns by its per-try deadline.           *)
(*                                                                         *)
(* Time is what matters here, so a goroutine's own steps take none: Tick   *)
(* waits until only upstreams, timers or new requests can move.            *)
(***************************************************************************)
EXTENDS DnsCache, SequencesExt

CONSTANTS Servers,      \* addresses of plain DNS servers
          Literals,     \* hosts that are IP addresses
          From, Family, \* of each answer: who gave it, its first address's family
          Conforming,   \* the upstreams that send only records of the type asked for
          CommandLines, \* the command lines the process may be started with
          PerTry,       \* the perTry NewDns gives the chain
          Budget        \* totalBudget

\* The resolvers that are no plain server, and the text of an empty flag.
Doh    == "doh"
System == "system"
Blank  == ""

(* A server as typed, perhaps with blanks around it; a pattern is the set of
   hosts it matches. *)
Typed == [addr : Servers \cup {Blank}, padded : BOOLEAN]
CommandLine ==
  [dnsAddr : Typed, dnsFallback : Seq(Typed), enableDoh : BOOLEAN,
   dohUrl : {Blank, "url"}, patterns : Seq(SUBSET (Keys \cup Literals)),
   dnsIPv4Only : BOOLEAN]

(* ParseArgs: without -dns-fallback there are two fallback servers. *)
DefaultFallback == <<"8.8.8.8", "9.9.9.9">>

ASSUME ServersAreNames == /\ Servers \cap {Doh, System, Blank} = {}
                          /\ \A i \in 1..2 : DefaultFallback[i] \in Servers
ASSUME LinesAreTyped   == CommandLines \subseteq CommandLine
ASSUME AnswersAreTyped == /\ From \in [Answers -> Servers \cup {Doh, System}]
                          /\ Family \in [Answers -> {4, 6}]
ASSUME UpstreamsConform == Conforming \subseteq Servers \cup {Doh}
ASSUME LiteralsAreHosts == Literals \cap (Keys \cup Answers) = {}
ASSUME TriesFitBudget  == PerTry \in Nat /\ Budget \in Nat /\ PerTry <= Budget

VARIABLES
  args,       \* the command line of this process
  stopped,    \* whether the process's context was cancelled
  rpc,        \* where each call of ResolveHost is
  host,       \* its argument
  began,      \* when its budget started
  sysRet      \* what the system resolver returned to it

dnsVars == <<args, stopped, rpc, host, began, sysRet>>
allVars == <<vars, dnsVars>>

-----------------------------------------------------------------------------
DnsFallback ==
  IF args.dnsFallback = <<>>
  THEN [i \in 1..2 |-> [addr |-> DefaultFallback[i], padded |-> FALSE]]
  ELSE args.dnsFallback

(* Mutant of addPlain: servers are compared before they are trimmed. *)
addPlainUntrimmed(chain, t) ==
  IF t.addr = Blank \/ (~t.padded /\ Contains(chain, t.addr))
  THEN chain ELSE Append(chain, t.addr)

(* NewDns: blank servers are skipped, repeated ones are added once. *)
addPlain(chain, t) ==
  IF t.addr = Blank \/ Contains(chain, t.addr)
  THEN chain ELSE Append(chain, t.addr)

(* NewDns: the resolvers the bypass client races.  None may be left. *)
Chain ==
  LET plain == FoldLeft(addPlain, <<>>, <<args.dnsAddr>> \o DnsFallback)
  IN  IF args.enableDoh /\ args.dohUrl # Blank THEN Append(plain, Doh) ELSE plain

(* NewDns: the record types asked for. *)
qTypes == IF args.dnsIPv4Only THEN <<"A">> ELSE <<"AAAA", "A">>

(* The addresses of a DNS record type. *)
FamilyOf(q) == IF q = "A" THEN 4 ELSE 6

(* Mutant of networkForQTypes: the system resolver ignores the types. *)
networkAny == "ip"

(* SystemResolver: the network it asks net.Resolver for. *)
networkForQTypes ==
  CASE ToSet(qTypes) = {"A"}    -> "ip4"
    [] ToSet(qTypes) = {"AAAA"} -> "ip6"
    [] OTHER                    -> "ip"

FamiliesOf(network) ==
  CASE network = "ip4" -> {4} [] network = "ip6" -> {6} [] network = "ip" -> {4, 6}

(* compileAllowedPatterns: the list is nil without -pattern.  A pattern that
   does not compile ends the process (LoadConfig of Lifecycle). *)
AllowedPatterns == args.patterns

(* Mutant of patternMatches: no pattern matches when there is none. *)
patternMatchesSome(h) == \E i \in DOMAIN AllowedPatterns : h \in AllowedPatterns[i]

(* A nil list matches every host. *)
patternMatches(h) ==
  AllowedPatterns = <<>> \/ \E i \in DOMAIN AllowedPatterns : h \in AllowedPatterns[i]

(* Mutant of ChainDeadline: the servers are tried one after the other. *)
ChainDeadlineInTurn(c) == began[c] + PerTry * Len(Chain)

(* ChainResolver tries all resolvers at once, each for PerTry at most. *)
ChainDeadline(c) == began[c] + PerTry

(* What an upstream's replies may hold.  parseAddrsFromMsg takes the A and the
   AAAA records of a reply alike, whatever was asked: it is up to the upstream
   to send no others. *)
Replies(s) ==
  {a \in Answers :
     /\ From[a] = s
     /\ s \in Conforming => Family[a] \in {FamilyOf(q) : q \in ToSet(qTypes)}}

(* What the chain may return: an answer of one of its resolvers, or nothing; an
   empty chain fails. *)
ChainResults ==
  IF Chain = <<>> THEN {Failed}
  ELSE {Empty, Failed} \cup UNION {Replies(s) : s \in ToSet(Chain)}

(* What SystemResolver.Resolve may return before its context is done. *)
SystemResults ==
  {Failed} \cup {a \in Answers : /\ From[a] = System
                                 /\ Family[a] \in FamiliesOf(networkForQTypes)}

-----------------------------------------------------------------------------
DnsInit ==
  /\ Init
  /\ args \in CommandLines
  /\ stopped = FALSE
  /\ rpc    = [c \in Calls |-> "idle"]
  /\ host   = [c \in Calls |-> None]
  /\ began  = [c \in Calls |-> None]
  /\ sysRet = [c \in Calls |-> None]

(* handle calls ResolveHost with useSystemDns = !matched; the budget starts. *)
ResolveHost(c, h, l) ==
  /\ rpc[c] = "idle"
  /\ host' = [host EXCEPT ![c] = h]
  /\ rpc' = [rpc EXCEPT ![c] = l]
  /\ began' = [began EXCEPT ![c] = now]
  /\ UNCHANGED <<args, stopped, sysRet>>

(* An address needs no lookup, ... *)
ResolveLiteral(c) ==
  /\ \E h \in Literals : ResolveHost(c, h, "literal")
  /\ UNCHANGED vars

(* ... a host that matches is looked up through the cache, ... *)
ResolveBypass(c) ==
  /\ Begin(c)
  /\ patternMatches(key'[c])
  /\ ResolveHost(c, key'[c], "bypass")

(* ... any other one by the system. *)
ResolveSystem(c) ==
  /\ \E h \in Keys : ~patternMatches(h) /\ ResolveHost(c, h, "system")
  /\ UNCHANGED vars

(* A context is done when the budget is used up or the process stops. *)
CtxIsDone(c) == stopped \/ now >= began[c] + Budget

Expire(c) ==
  /\ rpc[c] = "bypass"
  /\ CtxIsDone(c)
  /\ CtxExpire(c)
  /\ UNCHANGED dnsVars

(* The cache's own steps, ... *)
CacheStep(c) == Step(c) /\ UNCHANGED dnsVars

(* ... the return of the chain to the cache, ... *)
ChainReturns(c) ==
  /\ LookupReturn(c)
  /\ got'[c] \in ChainResults
  /\ UNCHANGED dnsVars

(* ... and the system resolver's, which heeds the context. *)
SystemReturns(c) ==
  /\ rpc[c] = "system" /\ sysRet[c] = None
  /\ \E r \in SystemResults \cup {CtxErr} :
       /\ r = CtxErr => CtxIsDone(c)
       /\ sysRet' = [sysRet EXCEPT ![c] = r]
  /\ UNCHANGED <<vars, args, stopped, rpc, host, began>>

(* run cancels the context every request hangs from. *)
Shutdown ==
  /\ ~stopped
  /\ stopped' = TRUE
  /\ UNCHANGED <<vars, args, rpc, host, began, sysRet>>

(* A step of the call can be taken: CacheStep(c) or Expire(c) is enabled. *)
Runnable(c) ==
  \/ pc[c] \in {"check", "publish"} /\ mu = None
  \/ pc[c] = "wait" /\ (closed[src[c]] \/ ctxDone[c])
  \/ pc[c] \in {"close", "store", "evict"}
  \/ pc[c] \notin {"idle", "done"} /\ ~ctxDone[c] /\ CtxIsDone(c)

(* No goroutine of the call can run, no timer of it is due, and the resolver
   it waits for is within its deadline. *)
Quiet(c) ==
  /\ ~Runnable(c)
  /\ rpc[c] = "bypass" /\ pc[c] = "lookup" => now < ChainDeadline(c)
  /\ rpc[c] = "system" /\ sysRet[c] = None => ~CtxIsDone(c)

Pass == Tick /\ (\A c \in Calls : Quiet(c)) /\ UNCHANGED dnsVars

Returned(c) ==
  CASE rpc[c] = "bypass" -> pc[c] = "done"
    [] rpc[c] = "system" -> sysRet[c] # None
    [] OTHER             -> rpc[c] = "literal"

AllReturned == (\A c \in Calls : Returned(c)) /\ UNCHANGED allVars

DnsNext ==
  \/ \E c \in Calls :
       \/ ResolveLiteral(c) \/ ResolveBypass(c) \/ ResolveSystem(c)
       \/ CacheStep(c) \/ ChainReturns(c) \/ SystemReturns(c) \/ Expire(c)
  \/ Shutdown \/ Pass \/ AllReturned

DnsSpec == DnsInit /\ [][DnsNext]_allVars

(* As in DnsCache, runnable goroutines run; the upstreams and the clock need
   not move. *)
DnsFairSpec ==
  DnsSpec /\ \A c \in Calls : WF_allVars(CacheStep(c)) /\ WF_allVars(Expire(c))

-----------------------------------------------------------------------------
(* What ResolveHost gives back: the host itself, the first address of a list
   that is not empty, or an error. *)
Resolution(c) ==
  LET r == CASE rpc[c] = "bypass" -> ret[c]
             [] rpc[c] = "system" -> sysRet[c]
             [] OTHER             -> None
  IN  IF rpc[c] = "literal" THEN host[c] ELSE IF r \in Answers THEN r ELSE Failed

(* A host the patterns select, or any host when there are none, gets its
   address only from the servers named on the command line, or their
   defaults, each of which is asked once per lookup, and never from the
   system resolver, however calls are coalesced and answers cached; any other
   host gets it from the system resolver. *)
BypassAsConfigured ==
  /\ IsInjective(Chain)
  /\ \A c \in Calls :
       Returned(c) /\ Resolution(c) \in Answers =>
         LET from == From[Resolution(c)]
             selected == args.patterns = <<>>
                           \/ \E i \in DOMAIN args.patterns : host[c] \in args.patterns[i]
         IN  IF ~selected THEN from = System
             ELSE \/ from = Doh /\ args.enableDoh
                  \/ from = args.dnsAddr.addr
                  \/ \E i \in DOMAIN args.dnsFallback : from = args.dnsFallback[i].addr
                  \/ args.dnsFallback = <<>> /\ from \in ToSet(DefaultFallback)

(* With -dns-ipv4-only ResolveHost gives back an IPv6 address only if a chosen
   upstream sent it unasked: what the system resolver and the conforming
   upstreams are asked for lets no other in, directly or through the cache. *)
FamilyRespected ==
  args.dnsIPv4Only =>
    \A c \in Calls :
      Returned(c) /\ Resolution(c) \in Answers =>
        \/ Family[Resolution(c)] = 4
        \/ From[Resolution(c)] \notin Conforming \cup {System}

(* No request waits for its name longer than the budget, although the caller
   that leads a lookup does not watch its own context: the chain's deadline,
   counted from the leader, covers it and everyone it is joined by. *)
WithinBudget ==
  \A c \in Calls : ~Returned(c) /\ rpc[c] # "idle" => now <= began[c] + Budget

=============================================================================
