-------------------------------- MODULE MCDns --------------------------------
(* Dns for TLC: three hosts, three ways to start the proxy. *)
EXTENDS Dns

CONSTANTS blocked, literal

T(a) == [addr |-> a, padded |-> FALSE]
P(a) == [addr |-> a, padded |-> TRUE]

MCServers == {"1.1.1.1", "8.8.8.8", "9.9.9.9"}

\* The defaults; a pattern, a repeated server and IPv4 only; an empty chain.
\* Of the servers one sends an AAAA record to those who ask for A only.
MCCommandLines ==
  {[dnsAddr |-> T("1.1.1.1"), dnsFallback |-> <<>>, enableDoh |-> TRUE,
    dohUrl |-> "url", patterns |-> <<>>, dnsIPv4Only |-> FALSE],
   [dnsAddr |-> T("1.1.1.1"), dnsFallback |-> <<P("1.1.1.1"), P(Blank), T("8.8.8.8")>>,
    enableDoh |-> TRUE, dohUrl |-> Blank, patterns |-> <<{literal}, {blocked}>>,
    dnsIPv4Only |-> TRUE],
   [dnsAddr |-> T(Blank), dnsFallback |-> <<P(Blank)>>, enableDoh |-> FALSE,
    dohUrl |-> "url", patterns |-> <<{blocked}>>, dnsIPv4Only |-> TRUE]}

MCConforming == {"1.1.1.1", "9.9.9.9", Doh}

MCFrom == [one4 |-> "1.1.1.1", one6 |-> "1.1.1.1", eight6 |-> "8.8.8.8",
           doh6 |-> Doh, sys4 |-> System, sys6 |-> System]
MCFamily == [one4 |-> 4, one6 |-> 6, eight6 |-> 6, doh6 |-> 6, sys4 |-> 4, sys6 |-> 6]
=============================================================================
