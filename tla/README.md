# SpoofDPI-Turkiye: a TLA+ model of the proxy

SpoofDPI-Turkiye is a local HTTP proxy.  For hosts that match a pattern it
resolves names through several upstream DNS servers instead of the system's
resolver, and it sends the TLS client hello in small pieces, so that a
middlebox does not find the server name in one packet.  This directory models
the program from the command line to the bytes that reach the server, checks it
with TLC and proves with TLAPS nearly all of its safety properties for every
value of the constants.

    cd tla
    tlc -workers 2 -config MCDnsCache.cfg MCDnsCache     # any .cfg with its MC module
    tlapm DnsCacheProofs.tla                             # any *Proofs module

`PROJECT.json` lists the runs, the source lines behind every definition, the
hazards the properties are aimed at, and one mutant per property.

## 1. Inventory

| component | source | state | operations | hard behaviour |
|---|---|---|---|---|
| Process life | `main.go`, `Proxy.Start` | exit code, `sigs`, `errCh`, listener, `tempDelay` | start, signal, accept, backoff, shut down | signal against error, accept errors, deferred clean-up |
| System proxy | `util/os.go` | two settings per network service | `SetOsProxy`, `UnsetOsProxy` | each of several commands may fail; the default network changes |
| Connection | `Proxy.handle`, `proxy/handler` | two sockets, a `bufio.Reader`, two copy buffers | read request, resolve, dial, answer, forward hello, pipe | two goroutines on the same two sockets, half-close, deadlines, resets |
| Request and record parsing | `packet/` | none | `ReadHttpRequest`, `Tidy`, `ReadTLSMessage` | text and 16-bit edge cases |
| Entry point of DNS | `dns/dns.go` | resolvers and query types | `NewDns`, `ResolveHost` | one deadline over nested resolvers |
| DNS cache | `dns/resolver/cache.go` | `entries`, `pending`, `mu` | `Resolve`, `evictLocked` | coalesced callers, their cancellations, expiry, eviction |
| Resolver chain | `dns/resolver/chain.go` | one channel per call | `Resolve` | race of upstreams, losers, hanging upstreams |
| Plain and DoH resolver | `resolver.go`, `general.go`, `doh.go` | one channel per call | `Resolve`, `exchange` | workers, closer and context end in any order; truncated replies |
| System resolver | `system.go` | none | `Resolve` | has to obey the same flags as the chain |
| Address selection | `dns/addrselect` | four parallel slices | find sources, `Less`, `Swap`, sort | a comparison that must be transitive; only the first address is dialed |
| Configuration | `util/args.go`, `util/config.go` | flags | parse, defaults | which resolvers and which hosts they select |
| Logging, version, banner | `util/log`, `version` | none | print | none |

How they interact.  `main.run` starts `Proxy.Start` in a goroutine and waits
for a signal or for its error.  `Start` starts one `handle` goroutine per
connection.  `handle` calls `ResolveHost`, which calls either the system
resolver or the cache; the cache calls the chain, the chain calls every plain
resolver and the DoH resolver in parallel, and each of these runs one goroutine
per record type.  All of them meet at the interface `Resolver`; a context
carries cancellation downwards, channels carry results upwards.  The cache is
the only mutable state that connections share.  After the dial, `handle` hands
its `bufio.Reader` and both sockets to a handler, which ends in `pipe`.

## 2. Modules

| module | models | composition |
|---|---|---|
| `ResolverContract` | what a caller of `Resolver.Resolve` may rely on: one return, a context error only for its own context, and a return in the end | abstract |
| `DnsCache` | `Cache.Resolve` for a set of concurrent calls | each call implements `ResolverContract` |
| `ChainResolver` | one `ChainResolver.Resolve` and its goroutines | implements `ResolverContract`, and uses it: an upstream is only trusted to return once its context is done |
| `TypeLookup` | one `Resolve` of a plain or DoH resolver | implements `ResolverContract` |
| `Dns` | the flags, `NewDns`, `ResolveHost`, the system resolver | composes calls of `ResolveHost` over one `DnsCache`; stands on what `chain` and `lookup` check for the resolvers below |
| `Request` | `ReadHttpRequest`, `Tidy`, ports, loop check, `ReadTLSMessage` | its outcomes are those `Connection` takes |
| `Connection` | one `handle`, its handler and its pipe, with both peers | takes the resolver as an outcome |
| `Lifecycle` | `run`, `Start`, the system proxy, over several starts of the program | counts connections |
| `AddrSelect` | `SortByRFC6724`, `defaultSrcAddrs` | `TypeLookup` uses its result as a rank |
| `MC*` | instances for TLC | |
| `*Proofs` | theorems about `DnsCache`, `ChainResolver`, `TypeLookup`, `Dns`, `Connection`, `Lifecycle`, `AddrSelect`, `Request` | each extends its module; `DnsProofs` builds on `DnsCacheProofs` |

### DnsCache

A call's `pc` names the next piece of `Resolve` to run.  The steps are cut where
another goroutine can interfere: at the lock, at the clock read before it
(`Begin`), at the inner lookup, and inside the second critical section, because
waiters do not take the lock: `Publish` fills `p`, `CloseDone` closes the
channel and removes `p` from `pending`, `Store` writes the entry, `Evict` trims
the table and unlocks.  `mu` is therefore a variable only for that section; the
first one is atomic.  `src`, `savedAt` and an entry's field `by` are history:
which lookup an answer came from, and when it was stored.  `LookupReturn` may
give any answer; a context error only if the lookup's context is done, which
`context.WithoutCancel` rules out (`LookupCtxDone`).

### Dns

The command line is a record of the flags that matter for names: servers as
typed (perhaps with blanks around them), fallbacks, DoH, patterns, IPv4 only.
`Chain` is the list of resolvers `NewDns` builds from it; an answer carries who
gave it and the family of its first address.  A call of `ResolveHost` is a
literal, a lookup through the cache (the actions of `DnsCache`, unchanged) or a
lookup by the system.  The chain is not unfolded: `ChainReturns` gives any answer
one of its members can give.  The runs `chain` and `lookup` show, without time,
that the chain returns once its tries' contexts are done; that this is by
`ChainDeadline` is an assumption here, taken from the `context.WithTimeout` that
`chain.go` puts on each try.  What a member can give is up to the server:
`parseAddrsFromMsg` takes the A and the AAAA records of any reply, so only the
servers of `Conforming` are held to the types that were asked for (`Replies`).
Time is the point here, so a goroutine's own steps take
none: `Pass` lets the clock move only when every call waits for an upstream, a
timer or another call.  `Budget` is `totalBudget`, `PerTry` the chain's deadline,
in the code's ratio of two to one.  `Runnable` spells out when a step of a call
is enabled, so that `Pass` can be reasoned about.

### Request

A header block is a sequence of line texts and line ends; a line counts one unit
of size.  `ReadLine` reads a line and checks the limit; `Parse` is
`http.ReadRequest` (any request of the given set), the path that
`ReadHttpRequest` rebuilds and `Tidy`.  `Tidy` is given by places: `Kept` are the
places of the pieces that `strings.Split` makes at CRLF and the loop writes, and
`Pick` takes what is at them, in order.  A port is
absent, empty or a text with a value, written as `strconv.Itoa` would or not,
since the loop check compares texts.  An address is a loopback one, one of an
interface, which the check sees only if the interfaces can be listed, or another
(0.0.0.0, which the kernel takes for this host, is another to the check).  `Route` is the loop check, the handlers'
port and the dial; `ReadTLSMessage` the record length in 16 bits, with the panic
that an overflow would be.

### ChainResolver

`gpc` is where each upstream's goroutine is, `out` the buffered channel, `iter`
the iterations of the receive loop.  `CctxDone` and `TctxDone` are the derived
contexts.  The chain of a behaviour is any subset of the upstreams, the empty
one included.

### TypeLookup

An address is its rank in the order `sortAddrs` produces.  The records a server
holds are fixed at the start; `AskUdp` gets a complete reply, an error, or a
truncated reply, after which `AskTcp` asks again; `AskDoh` is the one request of
the DoH resolver.  `Collect`, `Drained` and `CtxEnded` are the outcomes of the
select in `processResults`.  As in Go, a receiver that finds several cases ready
when it comes to the select may take any, and one that finds none is parked
(`Park`) and commits to the first case that gets ready (`Wake`); `sel` keeps the
two apart.  A plain reply with a failing rcode is an empty reply, as in the code; for
DoH it is an error.

### Connection

Bytes are numbered units: unit 1 of the client is its request, the next
`helloLen` are its client hello.  A TCP connection is two queues with a FIN
flag.  `FillBuffer` is a read by the `bufio.Reader`, which may take more than
the request; `ReadHello` is `io.ReadFull`, across as many reads as it takes.
`CopyRead`, `CopyWrite`, `CopyEnds`, `CopyTimesOut` are `copyWithTimeout`,
`HalfClose` what `pipe` does after it, `EndPipe` the close after `wg.Wait`.
`Abandon` stands for the `Close` calls on every early exit of `handle` and of the
two handlers (`proxy.go:113-148`, `http.go:33-56`, `https.go:61-111`): each exit
closes exactly the connections that are open by then, one after the other.
A write blocks while the peer's queue holds `SockBuf` units; the one exception
is the handler's own write of the request or the hello, which is small.  Both
peers may send, read, end or reset at any time.  Left out: that closing a socket
with unread data makes the kernel send a reset instead of a FIN, and that the
process may end under a connection.

### Lifecycle

`pc` is where `run` is, `spc` where `Start` is.  A signal before `Notify` kills
the process; after it, it is queued.  `SetOsProxy` and `UnsetOsProxy` ask for the
default network and then run one command per proxy type, each of which may fail
(`OsProxyFails`).  The default network may change at any time.  Connections hold
descriptors; with all `FdLimit` taken, `Accept` fails with an error that is
temporary and no timeout (`EMFILE`).  `Restart` starts the program again, with
other flags perhaps, on the settings the last run left; `mishaps` is the history
of what kept a run from cleaning up.

### AddrSelect

An address is the kind of prefix it is in and its first 16 bits (the code
compares 64).  A destination comes with its route: the source address, the
interface that has it, if it can still be found, and the flags `/proc` lists for
it; `defaultSrcAddr` makes the `srcInfo` of it, on Linux and elsewhere.  `Less` is a chain of `Decide`, one per rule, in the code's order.
The sort is the insertion sort that `sort.Stable` applies to blocks of 20; longer
lists are merged by the library, which is not modelled.

## 3. What the runs check

| run | shows |
|---|---|
| `cache_safety` | `SingleFlight`, `AnswerFresh`, `CancelIsolation`, `CacheBounded` for three calls on two keys with a table of one entry |
| `stack` | `BypassAsConfigured`: hosts get addresses from the resolvers the command line gives them, through the cache too; `FamilyRespected`: with `-dns-ipv4-only` the one way to an IPv6 address is a chosen server that sends AAAA records unasked, and neither the system resolver nor the cache opens another; `WithinBudget`: no call outlasts `totalBudget` although a leader does not watch its context; `ImplementsResolver` for the cached path; `CancelFreesWaiter`: a coalesced call obeys its own context although the lookup never returns |
| `chain` | `NoAnswerMissed`, `NoResultLost` with up to three upstreams; `ImplementsResolver` although each upstream may hang until its deadline; `LosersStop`, without a per-try deadline too, where only the deferred `cancel` ends them |
| `lookup` | `NothingLost`, `BestFirst`, `CloseIsLast`, `ImplementsResolver` over all pairs of small record lists |
| `request` | `RequestFaithful`: what `Tidy` sends is the client's request; `RecordIntact`: the 16-bit length never wraps; `TypeOK` has the header limit |
| `connection` | `StreamIntact`, `NoTruncation`, `HelloFragmented`, `SocketsReleased` for both handlers; `ConnectionEnds` for peers that end their streams; `IdlePipeEnds` for silent ones, with `-timeout` |
| `lifecycle` | `ProxyRestored`, over two starts: settings stay on only after a mishap, and a run that cleans up heals what an earlier one left on its network; `CleanExitWasAsked`; `ShutdownCompletes` |
| `addrselect` | `Aligned`, `FullySorted`, `Stability`; `ReachableFirst`: the one address that is dialed has a route if any has |

Four runs show that the code does not do what a document or a test says
(`findings` in `PROJECT.json`):

* `lookup_silence`: a lookup whose query failed may end as `(nil, nil)`, where
  `general_test.go:31-33` expects an error.  The context ends before the receiver
  has come to its select, the worker takes the `ctx.Done` branch of its own and
  drops the error, the closer closes the channel, and the receiver, which finds
  the channel and `ctx.Done` both ready, takes the channel.  This needs a context
  that is done on entry or a receiver that is delayed; the test does not meet it,
  since its receiver is parked when the deadline comes, and a parked receiver
  returns the context's error.
* `lifecycle_transient`: the changelog says that transient accept errors are
  retried; only timeouts are.
* `connection_stale`: `TR_DPI.md` says that `-timeout` recycles stale
  connections; the time before the pipe has no deadline.
* `connection_hosts`: the README says that all HTTP requests are served; the
  second one of a kept-alive connection goes to the first one's host.

### Bounds

* Cache: three calls are a leader, a waiter and a caller that comes while the
  leader publishes; two keys and a capacity of one make eviction of live
  entries happen; `MaxTime = 3` with TTLs 2 and 1 lets both kinds of entry
  expire and be looked up again.  The theorems lift all of these.
* Chain: three upstreams are a winner, a loser in flight and one that has sent.
* Lookup: two types, which is what `NewDns` asks for; lists of up to two records.
  `lookup_silence` has the one type the test asks for.
* Stack: two calls are a leader and one that joins it or finds its entry; two
  names, one of which a pattern selects, and a literal; three command lines (the
  defaults; a pattern with a repeated server, IPv4 only; an empty chain).  Of the
  two servers of the second one, one conforms and has addresses of both families,
  the other sends an IPv6 address unasked.  Time
  goes to 3, past the budget of a call that starts at 0 or 1.
* Request: up to two header lines in every mix of line ends; a proxy on port
  443, so that a missing port can be its own; record lengths around 0, the limit
  and the wrap at 65531.
* Connection: four client units are a request, a hello of one or three and what
  follows a short one; one server unit; windows 0 (the two-part split), 2 (with a
  remainder) and 3 (as long as the hello).  Queues of two units let the
  `bufio.Reader` read ahead and writes block.  What a kind of connection does not
  look at (the window of a plain one, say) is fixed in `Configs`.
* Lifecycle: two descriptors, two networks, two starts; the backoff is not bounded, it
  saturates at one second.
* AddrSelect: lists of two and three suffice for transitivity and stability of
  neighbours; the candidates make every rule decide for some pair.

Calls and keys are interchangeable and declared symmetric in the safety
run of the cache only.  No run switches deadlock checking off: each module has a stuttering
action `Finished` that is possible only when everything has really ended.

### Fairness

Weak fairness on goroutine steps: Go's scheduler runs every runnable goroutine,
and its mutex does not starve a waiter.  Beyond that:

* `Dns.DnsFairSpec` says nothing of the upstreams and the clock, which need not
  move; `ImplementsResolver` asks for a return only if lookups return, which
  `ChainResolver` is shown to do when it has a per-try deadline, as it has.
* `ChainResolver.FairSpec` lets timers fire, and lets an upstream return only
  when its context is done; `TypeLookup` is shown to do so, since
  `processResults` watches the context.
* `TypeLookup.FairSpec` lets an exchange end: the clients have timeouts of 2, 3
  and 5 seconds.
* `Connection.FairSpec` lets the peers read what they are sent, and timers fire;
  they may stay silent, except where `ConnectionEnds` assumes that each ends its
  stream.  A peer that stops reading blocks a write that has no deadline; nothing
  is claimed for it.
* `Lifecycle.FairSpec` lets `networksetup`, `Listen` and `Sleep` return; nobody
  needs to connect.

## 4. What is proved

Each theorem says `Spec => []P` for a property `P` that a run checks, or is half
of a refinement; it holds for every value of the constants that satisfies the
`ASSUME`s of the module.

| module | theorems (property) |
|---|---|
| `DnsCacheProofs` | `TypeCorrect` (`TypeOK`), `LookupsCoalesce` (`SingleFlight`), `AnswersAreFresh` (`AnswerFresh`), `CancelsAreIsolated` (`CancelIsolation`), `CacheIsBounded` (`CacheBounded`), `CallsAreResolverCalls` |
| `ChainResolverProofs` | `TypeCorrect`, `NoAnswerIsMissed` (`NoAnswerMissed`), `NoResultIsLost` (`NoResultLost`), `ChainIsResolver` |
| `TypeLookupProofs` | `TypeCorrect`, `CloseComesLast` (`CloseIsLast`), `NothingIsLost` (`NothingLost`), `BestIsFirst` (`BestFirst`), `LookupIsResolver` |
| `DnsProofs` | `CacheIsInside`, `StackKeepsCache`, `BypassIsAsConfigured` (`BypassAsConfigured`), `FamilyIsRespected` (`FamilyRespected`), `WaitsAreWithinBudget` (`WithinBudget`) |
| `ConnectionProofs` | `TypeCorrect`, `StreamsAreIntact` (`StreamIntact`), `NothingIsTruncated` (`NoTruncation`), `HelloIsFragmented` (`HelloFragmented`), `SocketsAreReleased` (`SocketsReleased`) |
| `LifecycleProofs` | `TypeCorrect`, `ExitZeroIsClean` (`CleanExitWasAsked`), `ProxyIsRestored` (`ProxyRestored`) |
| `AddrSelectProofs` | `TypeCorrect`, `PairsStayTogether` (`Aligned`), `SortedAsAWhole` (`FullySorted`), `SortIsStable` (`Stability`), `ReachableIsFirst` (`ReachableFirst`) |
| `RequestProofs` | `TypeCorrect`, `RequestIsFaithful` (`RequestFaithful`), `RecordIsIntact` (`RecordIntact`) |

Most assumptions only give the constants their types and keep `None` apart from
real values.  The ones that say more:

* `DnsCache.KeysFinite`, `ChainResolver.UpstreamsFinite`,
  `TypeLookup.QTypesFinite`: cardinalities are meant to count.
* `Dns.TriesFitBudget`: a try is no longer than the budget, as the 1.5 and 3
  seconds of `dns.go` are.  With a longer one `WithinBudget` would be false.
* `Dns.UpstreamsConform` only says that the servers of `Conforming` are upstreams;
  the set may be empty, and then `FamilyRespected` is about the system resolver.
* `Dns.LiteralsAreHosts`: an address given as a host is no name to be looked up.
* `Connection.HelloFits`: the client sends at least its request and its hello;
  a client that ends earlier is in the model, by ending its stream.

### The arguments

`DnsCache`.  None of the invariants but the first is inductive.  The argument is
built in layers, each proved with the ones before it:

* `TypeInv` adds to `TypeOK` that a call past `Begin` has a key and a clock
  value, that a leader past its lookup has an outcome, and that a waiter has a
  leader: without it the other invariants would look up `None` in a function.
* `FlightInv`: the lock is held exactly by a call in the second critical section
  (`LockOK`), and `pending` names, for each key, exactly the call that is busy
  with its lookup and has not closed its channel (`PendingOK`, `StoringOK`).
  `SingleFlight` follows: between `CloseDone` and the release of the lock
  `pending` no longer protects the key, but the lock does.
* `AnswerInv`: an entry carries the outcome of its lookup and expires one TTL
  after it was stored (`EntryOK`); a waiter's lookup is of its own key, and it
  began before that lookup was stored (`WaitOK`); a returned call satisfies
  `AnswerFresh` (`CallInv`).  No outcome but a waiter's own is a context error,
  since the lookup's context is never done.
* `SizeInv`: the table fits unless some call is between its insertion and
  `evictLocked`; by `LockOK` that call holds the lock.  `Evictions` always fit, by
  the theorems on the cardinality of finite sets (`EvictionsFit`).

`ChainResolver`.  `ChainInv` names a set `R` of the upstreams whose results the
loop has taken: `iter` of them, none an answer, the errors among them in `errs`,
none still in the channel, and, until somebody gives up, the channel holding all
the other finished ones without repetition.  `NoResultLost` is then a count of
two disjoint finite sets, `NoAnswerMissed` the case of `R` being all.

`TypeLookup`.  `LookupInv` has the same shape: the set `C` of the types received
accounts for `addrs` and `errs`; with the channel closed (hence `AllDone`) and
empty, `C` is every type.  `BestFirst` needs that any list has a sorting
permutation (`OrdersExist`), by induction on its length.

`Dns`.  `CacheIsInside` is the composition: a step of the stack is a step of the
cache or leaves it alone, so that all of the cache's theorems and inductive
invariants hold below `ResolveHost`.  `DnsInv` adds that a host is classified
once and by the patterns, and that the outcome of a lookup comes from a resolver
of `Chain`, which `ChainIsNamed` shows to be the servers the command line names,
once each (by induction over the fold that is `addPlain`), and never the system
resolver (`NamedIsNotSystem`); `Wanted` follows the family of an answer from there
through the cache.  `WithinBudget` is
inductive with these: a leader's lookup ends one try after it began, a waiter
has its own deadline, and time stands still while a step is due.

`Connection`.  `Run(a, b)` is the units from `a + 1` to `b`.  `UpInv` and
`DownInv` say, for each stage of `handle`, that the units a peer sent are cut
into consecutive runs: delivered, in the writes to be made, in the copy buffer,
in the `bufio.Reader`, in the stream.  Each action moves one cut; `StreamIntact`
is the first run, and with `EndInv` (a direction that ended by itself left
nothing behind) `NoTruncation` is that the others are empty.  `ChunkInv` bounds
the pieces `splitInChunks` makes, and `StageInv` ties the sockets and the
goroutines to the stage.

`Lifecycle`.  `NoMishapInv`: without a mishap the settings that are on are those
of the default network, and only between `SetOsProxy` and `UnsetOsProxy` of the
present run; `UnsetInv` follows `UnsetOsProxy` through its list; `PlaceInv` ties
both to where `run` is.  `AskedInv` does the same for the exit code.

`AddrSelect`.  `Better` is the order the rules of `Less` amount to, and is shown
to be a strict weak order (transitive, and so is its tie), rule 9 and its
restriction to IPv6 included.  `SortInv` is the loop invariant of the insertion
sort: the elements below are in order but for the one on its way down, and a
permutation, the same for the four slices, says where each came from, which
gives alignment and stability.

`Request`.  `StageInv`: what is dialed has the handler's port, and a record that was taken went through `ValidLen`, below which
the 16-bit sum does not wrap (`LengthFits`).  `BlockInv`: what is being read is a
row of texts, each with its line end (`Lined`), then such a row and a blank line
(`Ended`), and once a request was found `raw` is `Tidy` of what was sent; so
`RequestFaithful` is a fact about `Tidy` of any `Ended` block.  `Lists(e, P, m)`
says that `e` is the increasing list of the places `P`: every set of places has
one (`Listable`), `Pick` follows it (`PickIs`), and a set with one has `m` members
(`Listed`).  `TidyKeepsOrder` composes the list of the places a server reads with
the list of the places kept, and finds in the client's block the line each header
came from, whatever the line ends are; that the server finds an end needs that a
piece is kept up to its CRLF (`KeptToEnd`).  `TidyDropsOnly`, for CRLF, shows that
the pieces are the lines, so that the block Tidy writes is `Ended` again and is
read to its last token (`Reading`).

Induction over data is done with sets: the naturals are well-founded, so a set of
them that is not empty has a least member (`Least`), and a set that holds 0 and
every successor of its members holds all (`Inductive`).

### Only model-checked

* Liveness: `CancelFreesWaiter`, `LosersStop`, `ConnectionEnds`, `IdlePipeEnds`,
  `ShutdownCompletes`, and of each `ImplementsResolver` the part that says that a
  call returns.  Fairness and `ENABLED` are beyond the prover.
* The four properties that are violated.

## 5. Plan

Every invariant that a passing run checks is proved.  What is left to model is several
connections that share the descriptors, with `ResolveHost` in the place of its
outcome.

## 6. Not modelled

* The HTTP and TLS transport of DoH, the dial of its bootstrap address (with
  `-doh-bootstrap-ip ""` the DoH server itself is found by the system resolver),
  and the packing of DNS messages: they move bytes, and their timeouts are the
  end of an exchange in `TypeLookup`.
* The syntax of flags and patterns, and of `/proc/net/if_inet6`: sequential
  parsing, done by libraries for the most part.  The help text of `-window-size`
  says that without it the hello is sent in two parts (`util/args.go:57-61`); the
  default is 5, and two parts need `-window-size 0`.
* The exit of the `flag` package for `-h` and for flags it does not know, before
  anything is started.
* Merging in `sort.Stable` beyond 20 addresses.
* The memory of a header line that never ends (`packet/http.go:67`).
* What becomes of a request for the proxy itself that the loop check lets through
  (without a port on a proxy at 80 or 443, with a port written as 0443, for
  0.0.0.0, or with interfaces that cannot be listed): the check is in `Route`, but
  the connection that the proxy then makes to itself is not followed.
* Logging, version and banner: output only.
* Panics, except the one an overflow in `ReadTLSMessage` would be: `handle`
  recovers its own, the goroutines it starts do not.
