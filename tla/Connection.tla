----------------------------- MODULE Connection -----------------------------
(***************************************************************************)
(* One accepted connection from Proxy.handle to its end (proxy/proxy.go,   *)
(* proxy/handler/http.go and https.go): the request is read, the host      *)
(* resolved and dialed, the client hello forwarded in chunks, and then two *)
(* goroutines copy bytes between client and server until both directions   *)
(* have ended.  The client and the server are the environment.             *)
(*                                                                         *)
(* Bytes are abstracted to numbered units.  The client's unit 1 is its     *)
(* request; after a CONNECT the next helloLen units are its client hello.  *)
(* A TCP connection is two streams; a stream is the queue of the units     *)
(* under way and its FIN.  The proxy holds lConn ("l") to the client and   *)
(* rConn ("r") to the server.                                              *)
(***************************************************************************)
EXTENDS Integers, SequencesExt

CONSTANTS Modes,        \* subset of {"http", "connect"}
          ClientUnits,  \* bound: units a client sends
          ServerUnits,  \* bound: units a server sends
          HelloLens,    \* lengths a client hello may have
          WindowSizes,  \* values of -window-size
          Timeouts,     \* subset of BOOLEAN: whether -timeout is positive
          Hosts,        \* hosts that requests may name
          SockBuf       \* bound: units a stream holds before writes block

ASSUME ModesKnown   == Modes \subseteq {"http", "connect"}
ASSUME UnitsAreNats == ClientUnits \in Nat /\ ServerUnits \in Nat
ASSUME HelloFits    == \A h \in HelloLens : h \in Nat \ {0} /\ h < ClientUnits
ASSUME WindowsInt   == WindowSizes \subseteq Int
ASSUME TimeoutsBool == Timeouts \subseteq BOOLEAN
ASSUME SockBufPos   == SockBuf \in Nat \ {0}

VARIABLES
  conf,       \* what is fixed for this connection, see Configs
  pc,         \* where handle is
  br,         \* units buffered in the bufio.Reader of handle
  pend,       \* writes the handler has to make before it pipes
  open,       \* the connections the proxy has open
  cp,         \* per direction: where its copyWithTimeout goroutine is
  buf,        \* per direction: units read and not written yet
  str,        \* the four streams
  rst,        \* the connections that were reset by the peer
  sent,       \* per peer: how many units it has sent
  got,        \* per peer: the units it has received
  timedOut,   \* history: directions ended by a read deadline
  helloWrites \* history: sizes of the writes that carried the client hello

handleVars == <<pc, br, pend, open>>
copyVars   == <<cp, buf>>
peerVars   == <<rst, sent, got>>
histVars   == <<timedOut, helloWrites>>
vars == <<conf, handleVars, copyVars, str, peerVars, histVars>>

-----------------------------------------------------------------------------
Ok200      == 0       \* "200 Connection Established"
BadGateway == -1      \* "502 Bad Gateway"

(* A request and how the proxy is set up: exploit is whether the host matched
   a pattern, window and timeout come from the command line, hostOf names the
   host of each unit a plain-HTTP client sends as a request.  What a kind of
   connection does not look at is fixed. *)
Configs ==
  {c \in [mode : Modes, exploit : BOOLEAN, helloLen : HelloLens,
          window : WindowSizes, timeout : Timeouts,
          hostOf : [1..ClientUnits -> Hosts]] :
     /\ c.mode = "http" => ~c.exploit /\ c.helloLen = Min(HelloLens)
     /\ ~c.exploit => c.window = Min(WindowSizes)}

Peers      == {"client", "server"}
Directions == {"up", "down"}

(* Each peer's connection, the stream it writes and the stream it reads; the
   stream each direction copies from and to. *)
Conn(p) == IF p = "client" THEN "l" ELSE "r"
Out(p)  == IF p = "client" THEN "c2p" ELSE "s2p"
In(p)   == IF p = "client" THEN "p2c" ELSE "p2s"

Source(d) == IF d = "up" THEN "client" ELSE "server"
Target(d) == IF d = "up" THEN "server" ELSE "client"
From(d)   == Out(Source(d))
To(d)     == In(Target(d))

Put(s, units) == [str EXCEPT ![s].q = @ \o units]
Fin(s)        == [str EXCEPT ![s].fin = TRUE]
AtEof(s)      == str[s].q = <<>> /\ str[s].fin

(* A read of a stream returns its first n units and leaves the others. *)
First(s, n)  == SubSeq(str[s].q, 1, n)
Rest(s, n)   == [str EXCEPT ![s].q = SubSeq(@, n + 1, Len(@))]

(* Mutant of splitInChunks: chunks are one unit too long. *)
splitInLongerChunks(raw, size) ==
  LET n == IF size < 0 THEN 1 ELSE size + 1
  IN  [i \in 1..((Len(raw) + n - 1) \div n) |->
         SubSeq(raw, (i - 1) * n + 1, Min({i * n, Len(raw)}))]

(* splitInChunks: the sequence of chunks. *)
splitInChunks(raw, size) ==
  IF size <= 0
  THEN CASE Len(raw) = 0 -> <<>>
         [] Len(raw) = 1 -> <<raw>>
         [] OTHER        -> <<SubSeq(raw, 1, 1), SubSeq(raw, 2, Len(raw))>>
  ELSE [i \in 1..((Len(raw) + size - 1) \div size) |->
          SubSeq(raw, (i - 1) * size + 1, Min({i * size, Len(raw)}))]

Init ==
  /\ conf \in Configs
  /\ pc = "readRequest"
  /\ br = <<>> /\ pend = <<>>
  /\ open = {"l"}
  /\ cp = [d \in Directions |-> "none"]
  /\ buf = [d \in Directions |-> <<>>]
  /\ str = [s \in {"c2p", "p2c", "s2p", "p2s"} |-> [q |-> <<>>, fin |-> FALSE]]
  /\ rst = {}
  /\ sent = [p \in Peers |-> 0]
  /\ got = [p \in Peers |-> <<>>]
  /\ timedOut = {}
  /\ helloWrites = <<>>

-----------------------------------------------------------------------------
(* Close() of every open connection: its peer sees the end of the stream. *)
Closed(st) ==
  [s \in DOMAIN st |->
     [st[s] EXCEPT !.fin = @ \/ \E p \in Peers : s = In(p) /\ Conn(p) \in open]]

(* An early exit of handle or of a handler, all of which close what is open. *)
Abandon(st) ==
  /\ pc' = "ended"
  /\ open' = {}
  /\ str' = Closed(st)
  /\ UNCHANGED <<conf, br, pend, copyVars, peerVars, histVars>>

(* A read of the client's side through br. *)
FillBuffer ==
  /\ pc \in {"readRequest", "readHello"}
  /\ br = <<>>
  /\ \E n \in 1..Len(str["c2p"].q) :
       br' = First("c2p", n) /\ str' = Rest("c2p", n)
  /\ UNCHANGED <<conf, pc, pend, open, copyVars, peerVars, histVars>>

ReadFails == br = <<>> /\ (AtEof("c2p") \/ "l" \in rst)

(* handle: a request that cannot be read, is malformed or has an unsupported
   method closes the connection, ... *)
RejectRequest ==
  /\ pc = "readRequest"
  /\ ReadFails \/ br # <<>>
  /\ Abandon(str)

(* ... any other is consumed, and what came with it stays in the buffer. *)
AcceptRequest ==
  /\ pc = "readRequest"
  /\ br # <<>>
  /\ br' = Tail(br)
  /\ pc' = "resolve"
  /\ UNCHANGED <<conf, pend, open, copyVars, str, peerVars, histVars>>

(* ResolveHost fails: 502, whose write error is ignored, and close. *)
ResolveFails ==
  /\ pc = "resolve"
  /\ Abandon(IF "l" \in rst THEN str ELSE Put("p2c", <<BadGateway>>))

(* The request loops back to the proxy, its port is invalid, or the dial
   fails: close. *)
RefuseOrDialFails ==
  /\ pc = "resolve"
  /\ Abandon(str)

(* dialTCP succeeds: HttpHandler forwards the request, HttpsHandler first
   answers the CONNECT. *)
Dial ==
  /\ pc = "resolve"
  /\ open' = open \cup {"r"}
  /\ IF conf.mode = "http"
     THEN pc' = "forward" /\ pend' = << <<1>> >>
     ELSE pc' = "write200" /\ UNCHANGED pend
  /\ UNCHANGED <<conf, br, copyVars, str, peerVars, histVars>>

Write200 ==
  /\ pc = "write200"
  /\ "l" \notin rst
  /\ str' = Put("p2c", <<Ok200>>)
  /\ pc' = "readHello"
  /\ UNCHANGED <<conf, br, pend, open, copyVars, peerVars, histVars>>

(* ReadTLSMessage: io.ReadFull collects the record across reads, in pend; then
   the handler splits it if the host matched. *)
ReadHello ==
  /\ pc = "readHello"
  /\ br # <<>>
  /\ LET sofar == FlattenSeq(pend)
         n     == Min({Len(br), conf.helloLen - Len(sofar)})
         raw   == sofar \o SubSeq(br, 1, n)
     IN  /\ br' = SubSeq(br, n + 1, Len(br))
         /\ IF Len(raw) < conf.helloLen
            THEN pend' = <<raw>> /\ UNCHANGED pc
            ELSE /\ pend' = IF conf.exploit THEN splitInChunks(raw, conf.window)
                                            ELSE <<raw>>
                 /\ pc' = "forward"
  /\ UNCHANGED <<conf, open, copyVars, str, peerVars, histVars>>

(* Mutant of HandshakeFails: only lConn is closed. *)
HandshakeFailsLeaky ==
  /\ \/ pc = "write200" /\ "l" \in rst
     \/ pc = "readHello" /\ (ReadFails \/ br # <<>>)
  /\ pc' = "ended"
  /\ open' = open \ {"l"}
  /\ str' = Fin("p2c")
  /\ UNCHANGED <<conf, br, pend, copyVars, peerVars, histVars>>

(* The client is gone before its hello, or what came is not one: close both. *)
HandshakeFails ==
  /\ \/ pc = "write200" /\ "l" \in rst
     \/ pc = "readHello" /\ (ReadFails \/ br # <<>>)
  /\ Abandon(str)

(* rConn.Write of the request or of the next chunk of the hello ... *)
ForwardWrite ==
  /\ pc = "forward" /\ pend # <<>>
  /\ "r" \notin rst
  /\ str' = Put("p2s", Head(pend))
  /\ pend' = Tail(pend)
  /\ helloWrites' = IF conf.mode = "http" THEN helloWrites
                    ELSE Append(helloWrites, Len(Head(pend)))
  /\ UNCHANGED <<conf, pc, br, open, copyVars, peerVars, timedOut>>

ForwardFails ==
  /\ pc = "forward" /\ pend # <<>>
  /\ "r" \in rst
  /\ Abandon(str)

(* ... and pipe starts its two goroutines. *)
StartPipe ==
  /\ pc = "forward" /\ pend = <<>>
  /\ pc' = "pipe"
  /\ cp' = [d \in Directions |-> "read"]
  /\ UNCHANGED <<conf, br, pend, open, buf, str, peerVars, histVars>>

-----------------------------------------------------------------------------
(* Mutant of Buffered: the pipe reads lConn itself, past the bufio.Reader. *)
BufferedNothing(d) == <<>>

(* The client's side is read through lReader, the bufio.Reader of handle. *)
Buffered(d) == IF d = "up" THEN br ELSE <<>>

(* copyWithTimeout: from.Read, which returns what is buffered first. *)
CopyRead(d) ==
  /\ cp[d] = "read"
  /\ IF Buffered(d) # <<>>
     THEN buf' = [buf EXCEPT ![d] = br] /\ br' = <<>> /\ UNCHANGED str
     ELSE /\ \E n \in 1..Len(str[From(d)].q) :
               /\ buf' = [buf EXCEPT ![d] = First(From(d), n)]
               /\ str' = Rest(From(d), n)
          /\ UNCHANGED br
  /\ cp' = [cp EXCEPT ![d] = "write"]
  /\ UNCHANGED <<conf, pc, pend, open, peerVars, histVars>>

(* Mutant of CopyWrite: the loop does not notice that the buffer is written. *)
CopyWriteSticks(d) ==
  /\ cp[d] = "write"
  /\ Conn(Target(d)) \notin rst
  /\ Len(str[To(d)].q) < SockBuf
  /\ str' = Put(To(d), <<Head(buf[d])>>)
  /\ buf' = [buf EXCEPT ![d] = Tail(@)]
  /\ UNCHANGED <<conf, handleVars, cp, peerVars, histVars>>

(* to.Write: it blocks while the stream is full, and has no deadline. *)
CopyWrite(d) ==
  /\ cp[d] = "write"
  /\ Conn(Target(d)) \notin rst
  /\ Len(str[To(d)].q) < SockBuf
  /\ str' = Put(To(d), <<Head(buf[d])>>)
  /\ buf' = [buf EXCEPT ![d] = Tail(@)]
  /\ cp' = [cp EXCEPT ![d] = IF Len(buf[d]) = 1 THEN "read" ELSE "write"]
  /\ UNCHANGED <<conf, handleVars, peerVars, histVars>>

(* Mutant of CopyEnds: EOF is taken for an empty read. *)
CopyIgnoresEof(d) ==
  /\ \/ cp[d] = "read" /\ Buffered(d) = <<>> /\ Conn(Source(d)) \in rst
     \/ cp[d] = "write" /\ Conn(Target(d)) \in rst
  /\ cp' = [cp EXCEPT ![d] = "shut"]
  /\ UNCHANGED <<conf, handleVars, buf, str, peerVars, histVars>>

(* The loop ends with an error of Read, EOF included, or of Write ... *)
CopyEnds(d) ==
  /\ \/ /\ cp[d] = "read" /\ Buffered(d) = <<>>
        /\ AtEof(From(d)) \/ Conn(Source(d)) \in rst
     \/ cp[d] = "write" /\ Conn(Target(d)) \in rst
  /\ cp' = [cp EXCEPT ![d] = "shut"]
  /\ UNCHANGED <<conf, handleVars, buf, str, peerVars, histVars>>

(* Mutant of CopyTimesOut: the deadline is set on the client's side only. *)
CopyTimesOutUp(d) ==
  /\ conf.timeout /\ d = "up"
  /\ cp[d] = "read" /\ Buffered(d) = <<>> /\ str[From(d)].q = <<>>
  /\ cp' = [cp EXCEPT ![d] = "shut"]
  /\ timedOut' = timedOut \cup {d}
  /\ UNCHANGED <<conf, handleVars, buf, str, peerVars, helloWrites>>

(* ... or, with -timeout, when nothing arrived before the read deadline. *)
CopyTimesOut(d) ==
  /\ conf.timeout
  /\ cp[d] = "read" /\ Buffered(d) = <<>> /\ str[From(d)].q = <<>>
  /\ cp' = [cp EXCEPT ![d] = "shut"]
  /\ timedOut' = timedOut \cup {d}
  /\ UNCHANGED <<conf, handleVars, buf, str, peerVars, helloWrites>>

(* Mutant of HalfClose: the end of one direction ends both. *)
CloseBothWays(d) ==
  /\ cp[d] = "shut"
  /\ str' = Closed(str)
  /\ cp' = [e \in Directions |-> "exited"]
  /\ UNCHANGED <<conf, handleVars, buf, peerVars, histVars>>

(* pipe: to.CloseWrite(), from.CloseRead(), and the goroutine is done. *)
HalfClose(d) ==
  /\ cp[d] = "shut"
  /\ str' = Fin(To(d))
  /\ cp' = [cp EXCEPT ![d] = "exited"]
  /\ UNCHANGED <<conf, handleVars, buf, peerVars, histVars>>

(* wg.Wait(), then both connections are closed. *)
EndPipe ==
  /\ pc = "pipe"
  /\ \A d \in Directions : cp[d] = "exited"
  /\ Abandon(str)

-----------------------------------------------------------------------------
(* The peers: each may send, read, end its stream, or reset the connection. *)
Units(p) == IF p = "client" THEN ClientUnits ELSE ServerUnits

PeerSend(p) ==
  /\ Conn(p) \in open \ rst
  /\ ~str[Out(p)].fin
  /\ sent[p] < Units(p)
  /\ Len(str[Out(p)].q) < SockBuf
  /\ sent' = [sent EXCEPT ![p] = @ + 1]
  /\ str' = Put(Out(p), <<sent[p] + 1>>)
  /\ UNCHANGED <<conf, handleVars, copyVars, rst, got, histVars>>

PeerRead(p) ==
  /\ Conn(p) \notin rst
  /\ str[In(p)].q # <<>>
  /\ got' = [got EXCEPT ![p] = Append(@, Head(str[In(p)].q))]
  /\ str' = [str EXCEPT ![In(p)].q = Tail(@)]
  /\ UNCHANGED <<conf, handleVars, copyVars, rst, sent, histVars>>

PeerFin(p) ==
  /\ Conn(p) \in open \ rst
  /\ ~str[Out(p)].fin
  /\ str' = Fin(Out(p))
  /\ UNCHANGED <<conf, handleVars, copyVars, peerVars, histVars>>

PeerReset(p) ==
  /\ Conn(p) \in open \ rst
  /\ rst' = rst \cup {Conn(p)}
  /\ UNCHANGED <<conf, handleVars, copyVars, str, sent, got, histVars>>

-----------------------------------------------------------------------------
handle ==
  \/ FillBuffer \/ RejectRequest \/ AcceptRequest
  \/ ResolveFails \/ RefuseOrDialFails \/ Dial
  \/ Write200 \/ ReadHello \/ HandshakeFails
  \/ ForwardWrite \/ ForwardFails \/ StartPipe \/ EndPipe

copyWithTimeout(d) ==
  CopyRead(d) \/ CopyWrite(d) \/ CopyEnds(d) \/ CopyTimesOut(d) \/ HalfClose(d)

(* The connection is over, and what was under way has been read or lost. *)
Finished ==
  /\ pc = "ended"
  /\ \A p \in Peers : Conn(p) \in rst \/ str[In(p)].q = <<>>
  /\ UNCHANGED vars

Next ==
  \/ handle
  \/ \E d \in Directions : copyWithTimeout(d)
  \/ \E p \in Peers : PeerSend(p) \/ PeerRead(p) \/ PeerFin(p) \/ PeerReset(p)
  \/ Finished

Spec == Init /\ [][Next]_vars

(* The proxy's goroutines run, its timers fire, and the peers read what they
   are sent; they may stay silent. *)
FairSpec ==
  /\ Spec
  /\ WF_vars(handle)
  /\ \A d \in Directions : WF_vars(copyWithTimeout(d))
  /\ \A p \in Peers : WF_vars(PeerRead(p))

-----------------------------------------------------------------------------
TypeOK ==
  /\ conf \in Configs
  /\ pc \in {"readRequest", "resolve", "write200", "readHello", "forward",
             "pipe", "ended"}
  /\ br \in Seq(Nat) /\ pend \in Seq(Seq(Nat))
  /\ open \subseteq {"l", "r"} /\ rst \subseteq {"l", "r"}
  /\ cp \in [Directions -> {"none", "read", "write", "shut", "exited"}]
  /\ buf \in [Directions -> Seq(Nat)]
  /\ \A d \in Directions : cp[d] = "write" => buf[d] # <<>>
  /\ str \in [{"c2p", "p2c", "s2p", "p2s"} -> [q : Seq(Int), fin : BOOLEAN]]
  /\ sent["client"] \in 0..ClientUnits /\ sent["server"] \in 0..ServerUnits
  /\ got \in [Peers -> Seq(Int)]
  /\ timedOut \subseteq Directions
  /\ helloWrites \in Seq(Nat)

Upto(n) == [i \in 1..n |-> i]

(* What reached a peer or is on its way to it, and what it is meant to get: the
   server gets all the client sends, except the CONNECT itself; the client
   gets the answer to its CONNECT and all the server sends. *)
Delivered(p) == got[p] \o str[In(p)].q

Intended(p) ==
  CASE p = "server" /\ conf.mode = "http"    -> Upto(sent["client"])
    [] p = "server" /\ conf.mode = "connect" -> Tail(Upto(sent["client"]))
    [] p = "client" /\ conf.mode = "http"    -> Upto(sent["server"])
    [] p = "client" /\ conf.mode = "connect" -> <<Ok200>> \o Upto(sent["server"])

(* The bytes a peer receives are the bytes the other one sent, in order and
   without a gap, across the bufio read-ahead, the chunked client hello and
   the hand-over to the pipe. *)
StreamIntact ==
  \A p \in Peers :
    Delivered(p) # <<>> =>
      IsPrefix(Delivered(p), Intended(p)) \/ Delivered(p) = <<BadGateway>>

(* The comment on pipe: an EOF in one direction does not truncate what is in
   flight.  Unless a peer reset its connection or a deadline passed, a direction
   is shut only when its source has ended, and everything it sent went through. *)
NoTruncation ==
  \A d \in Directions :
    rst = {} /\ timedOut = {} /\ cp[d] = "exited" =>
      str[From(d)].fin /\ Delivered(Target(d)) = Intended(Target(d))

(* What the proxy is for: for a matching host no single write to the server
   carries the whole client hello, unless -window-size is at least its size. *)
HelloFragmented ==
  /\ conf.exploit /\ conf.helloLen > 1
  /\ conf.window < conf.helloLen
  => \A i \in DOMAIN helloWrites : helloWrites[i] < conf.helloLen

(* Every way out of handle closes both connections, so that both peers see the
   end of their streams, and leaves no copying goroutine behind. *)
SocketsReleased ==
  pc = "ended" =>
    /\ open = {}
    /\ str["p2c"].fin /\ (helloWrites # <<>> => str["p2s"].fin)
    /\ \A d \in Directions : cp[d] \in {"none", "exited"}

(* If each peer, once connected, ends its stream some day, the connection is
   torn down, whatever -timeout is. *)
ConnectionEnds == (\A p \in Peers : WF_vars(PeerFin(p))) => <>(pc = "ended")

(* With -timeout, a pipe whose peers fall silent is torn down. *)
IdlePipeEnds == pc = "pipe" /\ conf.timeout ~> pc = "ended"

(* _docs/TR_DPI.md: with -timeout, stale connections recycle. *)
StaleConnectionsRecycle == conf.timeout => <>(pc = "ended")

(* _docs/README_en.md: the proxy "still serves proxy connection for all HTTP
   requests": a plain-HTTP request reaches the host it names. *)
RequestsReachTheirHost ==
  conf.mode = "http" =>
    \A i \in DOMAIN got["server"] :
      conf.hostOf[got["server"][i]] = conf.hostOf[1]
=============================================================================
