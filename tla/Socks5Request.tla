---------------------------- MODULE Socks5Request ----------------------------
(***************************************************************************)
(* buildConnectRequest of cmd/tproxyfwd: the bytes of a SOCKS5 CONNECT to  *)
(* a domain, against what a proxy makes of them (RFC 1928, section 3).     *)
(*                                                                         *)
(* A host is the sequence of its bytes.  The proxy of this module reads    *)
(* the length of the name from one byte, as all proxies do.                *)
(***************************************************************************)
EXTENDS Integers, Sequences

CONSTANTS Hosts, Ports   \* the hosts and ports that are tried

VARIABLES host, port
vars == <<host, port>>

Byte(n) == n % 256
Refused == <<>>          \* the error

\* An empty host, one longer than a byte can say, or a port out of range.
Bad(h, p) == Len(h) = 0 \/ Len(h) > 255 \/ p <= 0 \/ p > 65535

\* Mutated form of BuildConnectRequest: a length of two bytes.
BuildWithLongLength(h, p) ==
    IF Bad(h, p)
      THEN Refused
      ELSE <<5, 1, 0, 3, Len(h) \div 256, Byte(Len(h))>> \o h \o <<p \div 256, Byte(p)>>

\* The length and both bytes of the port are a byte(...) of Go.
BuildConnectRequest(h, p) ==
    IF Bad(h, p)
      THEN Refused
      ELSE <<5, 1, 0, 3, Byte(Len(h))>> \o h \o <<p \div 256, Byte(p)>>

\* What a proxy reads: the target, and what is left on the stream after it.
Target(req) ==
    LET size == req[5] IN
    [host |-> SubSeq(req, 6, 5 + size),
     port |-> req[6 + size] * 256 + req[7 + size],
     rest |-> SubSeq(req, 8 + size, Len(req))]

Init == host \in Hosts /\ port \in Ports
Next == host' \in Hosts /\ port' \in Ports
Spec == Init /\ [][Next]_vars

\* A proxy that reads the request connects to the very host and port, and
\* finds nothing of the request in the stream it then relays.
ProxyReadsTarget ==
    LET req == BuildConnectRequest(host, port) IN
    req # Refused =>
        /\ \A i \in 1..Len(req) : req[i] \in 0..255
        /\ Target(req) = [host |-> host, port |-> port, rest |-> <<>>]

==============================================================================
