------------------------------ MODULE Request ------------------------------
(***************************************************************************)
(* What the proxy makes of the text a client sends: ReadHttpRequest, Tidy  *)
(* and ReadTLSMessage (packet/), the loop check of Proxy.handle and the    *)
(* ports of the handlers.                                                  *)
(*                                                                         *)
(* A header block is a sequence of tokens: the texts of its lines and the  *)
(* line ends, CRLF or LF.  Every line counts as one unit of its size.      *)
(***************************************************************************)
EXTENDS Integers, Sequences, FiniteSetsExt

CONSTANTS Headers,        \* texts of header lines
          Requests,       \* what http.ReadRequest may make of a header block
          maxHeaderSize,  \* bound: 64 KB in the code
          Loopbacks,      \* addresses net.IP.IsLoopback knows: 127/8 and ::1
          LocalIps,       \* addresses of the interfaces
          RemoteIps,      \* all others, 0.0.0.0 with them
          V6Ips,
          OwnPort,        \* the port the proxy listens on
          RecordLens,     \* lengths in TLS record headers, 16 bits
          None

CR == "crlf"
LF == "lf"
Eols == {CR, LF}
Ips  == Loopbacks \cup LocalIps \cup RemoteIps

(* A port is not there, there but empty, or a text with a value, which is 0 if
   it is no number, and which strconv.Itoa writes that way or another. *)
PortText == [given : {"absent", "empty", "text"}, value : Nat, canonical : BOOLEAN]

ASSUME LinesAreText   == Headers \cap (Eols \cup {"start", "rewritten"}) = {}
ASSUME LimitIsNat     == maxHeaderSize \in Nat
ASSUME LensAre16Bits  == RecordLens \subseteq 0..(2^16 - 1)
ASSUME V6AreIps       == V6Ips \subseteq Ips
ASSUME RequestsAreOk  ==
  \A r \in Requests :
    /\ r.method \in STRING /\ r.port \in PortText
    /\ r.path \in {"", "plain", "escaped"} /\ r.query \in {"none", "empty", "text"}

VARIABLES
  pc,         \* where handle and its handler are
  raw,        \* headerBuf, later p.raw
  sentRaw,    \* history: the header block the client sent
  req,        \* the request in it
  uri,        \* p.path
  dst,        \* the address and the port that are dialed
  rec         \* the TLS record read: declared length, bytes taken

vars == <<pc, raw, sentRaw, req, uri, dst, rec>>

-----------------------------------------------------------------------------
(* The methods that are served; "BOGUS" stands for all others. *)
validMethod == {"GET", "CONNECT"}

IsEol(t) == t \in Eols
Lines(s) == Cardinality({p \in DOMAIN s : IsEol(s[p])})

(* The elements of s at the places of P, in their order. *)
Pick(s, P) ==
  LET Place(n) == CHOOSE p \in P : Cardinality({q \in P : q <= p}) = n
  IN  [n \in 1..Cardinality(P) |-> s[Place(n)]]

(* What is before the first CRLF CRLF, or everything. *)
HeadOf(s) ==
  LET ends == {p \in 1..(Len(s) - 1) : s[p] = CR /\ s[p + 1] = CR}
  IN  IF ends = {} THEN s ELSE SubSeq(s, 1, Min(ends) - 1)

(* The places of a head, with a CRLF after it, that are in a piece which
   strings.Split makes of the head, and Tidy writes as it is, with the CRLF
   after it: one that begins after a CRLF, and not with "Proxy-Connection". *)
Kept(h) ==
  {p \in DOMAIN h : \E b \in 2..p : /\ h[b - 1] = CR /\ h[b] # "Proxy-Connection"
                                    /\ \A c \in b..(p - 1) : h[c] # CR}

(* Mutant of Tidy: the lines are joined, not ended, by CRLF. *)
TidyUnterminated(s) ==
  LET h == HeadOf(s) \o <<CR>>
  IN  <<"rewritten", CR>> \o Pick(h, Kept(h))

(* The first piece is replaced by the new request line, pieces that begin with
   "Proxy-Connection" are dropped, and a CRLF ends it. *)
Tidy(s) ==
  LET h == HeadOf(s) \o <<CR>>
  IN  <<"rewritten", CR>> \o Pick(h, Kept(h)) \o <<CR>>

(* URL.Path holds the path with its escapes decoded; RawQuery is as it came,
   without a "?" that nothing follows. *)
Path(r) ==
  LET path  == IF r.path = "escaped" THEN "decoded" ELSE r.path
      query == IF r.query = "text" THEN "text" ELSE "none"
  IN  IF path = "" /\ query = "none" THEN [path |-> "/", query |-> "none"]
      ELSE [path |-> path, query |-> query]

(* SplitHostPort fails without a port and leaves an IPv6 address its brackets,
   so that ResolveHost does not see an address in it. *)
IsLiteral(r) == r.host \in Ips /\ ~(r.port.given = "absent" /\ r.host \in V6Ips)

(* The addresses ResolveHost may return; none for a bracketed address. *)
ResolveHost(r) ==
  IF IsLiteral(r) THEN {r.host} ELSE IF r.host \in Ips THEN {} ELSE Ips

(* Loopback addresses are recognised by themselves, the others by the list of
   the interfaces, if it could be had. *)
isLoopedRequest(ip, listed) ==
  ip \in Loopbacks \/ (listed /\ ip \in LocalIps)

(* pkt.Port() == strconv.Itoa(pxy.port) *)
SamePort(r) == r.port.given = "text" /\ r.port.canonical /\ r.port.value = OwnPort

(* The handlers' port, 0 when it is refused. *)
PortOf(r) ==
  IF r.port.given # "text" THEN IF r.method = "CONNECT" THEN 443 ELSE 80
  ELSE IF r.port.value <= 0 \/ r.port.value > 65535 THEN 0 ELSE r.port.value

TLSMaxPayloadLen == 16384
TLSHeaderLen     == 5

(* Mutant of ValidLen: the header is trusted. *)
AnyLen(len) == TRUE

ValidLen(len) == len <= TLSMaxPayloadLen

(* make([]byte, header.PayloadLen+TLSHeaderLen) adds two uint16. *)
RawLen(len) == (len + TLSHeaderLen) % 2^16

(* isHello: it says it is a handshake, and the byte after the header is 1 *)
IsClientHello(rawLen, isHello) == rawLen > TLSHeaderLen /\ isHello

-----------------------------------------------------------------------------
Init ==
  /\ pc = "readRequest"
  /\ raw = <<>> /\ sentRaw = <<>>
  /\ req = None /\ uri = None /\ dst = None /\ rec = None

Close == pc' = "closed"

(* Mutant of Fits: the line itself is not counted. *)
FitsBeforeLine == Lines(raw) <= maxHeaderSize

(* headerBuf.Len()+len(line) <= maxHeaderSize *)
Fits == Lines(raw) + 1 <= maxHeaderSize

(* ReadHttpRequest: one br.ReadString('\n'); a blank line is the last, ... *)
ReadLine ==
  /\ pc = "readRequest"
  /\ Fits
  /\ \E eol \in Eols :
       \/ /\ raw' = Append(raw, eol)
          /\ pc' = "parse"
       \/ /\ \E t \in IF raw = <<>> THEN {"start"} ELSE Headers :
               raw' = raw \o <<t, eol>>
          /\ UNCHANGED pc
  /\ sentRaw' = raw'
  /\ UNCHANGED <<req, uri, dst, rec>>

(* ... the client ends before it, or the headers are too large. *)
ReadLineFails ==
  /\ pc = "readRequest"
  /\ Close
  /\ UNCHANGED <<raw, sentRaw, req, uri, dst, rec>>

(* http.ReadRequest finds a request in it; Tidy rewrites it. *)
Parse ==
  /\ pc = "parse"
  /\ raw[1] = "start"
  /\ \E r \in Requests :
       /\ req' = r
       /\ uri' = Path(r)
       /\ pc' = IF r.method \in validMethod THEN "resolve" ELSE "closed"
  /\ raw' = Tidy(raw)
  /\ UNCHANGED <<sentRaw, dst, rec>>

(* It does not: no request line, or one that is malformed. *)
ParseFails ==
  /\ pc = "parse"
  /\ Close
  /\ UNCHANGED <<raw, sentRaw, req, uri, dst, rec>>

(* ResolveHost fails, which the client is told. *)
ResolveFails ==
  /\ pc = "resolve"
  /\ ~IsLiteral(req)
  /\ pc' = "badGateway"
  /\ UNCHANGED <<raw, sentRaw, req, uri, dst, rec>>

(* A request that loops, or whose port is none, is refused; any other is
   dialed, which may fail.  listed is whether net.InterfaceAddrs worked. *)
Route ==
  /\ pc = "resolve"
  /\ \E ip \in ResolveHost(req), listed \in BOOLEAN :
       IF (SamePort(req) /\ isLoopedRequest(ip, listed)) \/ PortOf(req) = 0
       THEN Close /\ UNCHANGED dst
       ELSE /\ dst' = [ip |-> ip, port |-> PortOf(req)]
            /\ \/ pc' = IF req.method = "CONNECT" THEN "readHello" ELSE "forwarded"
               \/ Close
  /\ UNCHANGED <<raw, sentRaw, req, uri, rec>>

(* A record that is not all of it sent, is no handshake or does not begin with
   a client hello ends the connection; so does a slice out of range, a panic
   that handle recovers from by closing the client's side only. *)
ReadTLSMessage ==
  /\ pc = "readHello"
  /\ \E len \in RecordLens, isHello \in BOOLEAN :
       IF ~ValidLen(len) THEN Close /\ UNCHANGED rec
       ELSE /\ rec' = [declared |-> len, raw |-> RawLen(len)]
            /\ pc' = IF RawLen(len) < TLSHeaderLen THEN "panicked"
                     ELSE IF IsClientHello(RawLen(len), isHello) THEN "forwarded"
                     ELSE "closed"
  /\ UNCHANGED <<raw, sentRaw, req, uri, dst>>

Finished == pc \in {"closed", "panicked", "badGateway", "forwarded"} /\ UNCHANGED vars

Next ==
  \/ ReadLine \/ ReadLineFails \/ Parse \/ ParseFails
  \/ ResolveFails \/ Route \/ ReadTLSMessage \/ Finished

Spec == Init /\ [][Next]_vars

-----------------------------------------------------------------------------
(* The shapes of the values; the header block stays within its limit. *)
TypeOK ==
  /\ pc \in {"readRequest", "parse", "resolve", "readHello", "badGateway",
             "closed", "panicked", "forwarded"}
  /\ raw \in Seq(Headers \cup Eols \cup {"start", "rewritten"})
  /\ Lines(sentRaw) <= maxHeaderSize
  /\ req \in Requests \cup {None}
  /\ dst # None => dst.ip \in Ips /\ dst.port > 0 /\ dst.port <= 65535

(* How a server reads a header block: lines end in CRLF or LF, the first blank
   one is the end of it. *)
BlankLines(s) == {p \in DOMAIN s : IsEol(s[p]) /\ (p = 1 \/ IsEol(s[p - 1]))}
Blank(s) == Min(BlankLines(s))
Understood(s) == Pick(s, {p \in 1..Blank(s) : ~IsEol(s[p])})

(* a is b without some of its elements. *)
Subsequence(a, b) ==
  \E f \in [DOMAIN a -> DOMAIN b] :
    /\ \A i, j \in DOMAIN a : i < j => f[i] < f[j]
    /\ \A i \in DOMAIN a : a[i] = b[f[i]]

(* The server gets the request the client made, and can tell where its headers
   end: the new request line names its path and query, no header is made up or
   moved, and when the lines end in CRLF, as they must, only Proxy-Connection
   is missing and nothing follows the blank line.  Left out are paths with
   escapes, which the code decodes, and URLs with a query but no path, of which
   it makes a request target without its slash. *)
RequestFaithful ==
  req # None =>
    LET theirs == Tail(Understood(sentRaw))
        ours   == Understood(raw)
    IN  /\ BlankLines(raw) # {}
        /\ Head(ours) = "rewritten"
        /\ req.path = "plain" => uri.path = "plain"
        /\ req.path = "" /\ req.query # "text" => uri.path = "/"
        /\ req.query = "text" => uri.query = "text"
        /\ Subsequence(Tail(ours), theirs)
        /\ (\A p \in DOMAIN sentRaw : sentRaw[p] # LF) =>
             /\ Tail(ours) = Pick(theirs, {p \in DOMAIN theirs : theirs[p] # "Proxy-Connection"})
             /\ Blank(raw) = Len(raw)

(* The record that is split and forwarded is the one its header declares, to
   the byte, although its length is computed in 16 bits: the sum never wraps,
   so no slice is out of range and no panic leaves the upstream side open. *)
RecordIntact ==
  /\ rec # None => rec.raw = rec.declared + TLSHeaderLen
  /\ pc # "panicked"
  /\ pc = "forwarded" /\ req.method = "CONNECT" => rec.declared > 0
=============================================================================
