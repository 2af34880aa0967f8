----------------------------- MODULE MCRequest -----------------------------
(* Request for TLC: every mix of line ends; hosts with every kind of port;
   every kind of path and query. *)
EXTENDS Request

NoPort == [given |-> "absent", value |-> 0, canonical |-> TRUE]
Port(n, canonical) == [given |-> "text", value |-> n, canonical |-> canonical]

Ports == {NoPort, [NoPort EXCEPT !.given = "empty"]}
           \cup {Port(n, TRUE) : n \in {0, 1, 443, 65535, 65536}}
           \cup {Port(n, FALSE) : n \in {0, 443}}

Base == [method |-> "GET", host |-> "name", port |-> NoPort, path |-> "plain",
         query |-> "none"]

MCRequests ==
  [method : {"GET", "CONNECT"}, host : Ips \cup {"name"}, port : Ports,
   path : {"plain"}, query : {"none"}]
  \cup {[Base EXCEPT !.path = p, !.query = q] :
          p \in {"", "plain", "escaped"}, q \in {"none", "empty", "text"}}
  \cup {[Base EXCEPT !.method = "BOGUS"]}
=============================================================================
