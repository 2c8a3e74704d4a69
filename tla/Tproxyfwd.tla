------------------------------ MODULE Tproxyfwd ------------------------------
(***************************************************************************)
(* One connection of cmd/tproxyfwd: the original destination, the dial of  *)
(* the SOCKS5 proxy, the exchange of socks5Connect, and the relay.         *)
(*                                                                         *)
(* The proxy's stream (direction "down") is counted in bytes, from the     *)
(* first byte of its answer to the greeting: what matters is that the      *)
(* exchange takes the proxy's answers off the stream and nothing else.     *)
(***************************************************************************)
EXTENDS Relay

CONSTANTS
    Names,   \* lengths of the domain names a proxy may report as bound
    Beyond   \* bound: bytes that follow the proxy's answers

VARIABLES
    pc,      \* where handle is
    reply,   \* the proxy's answer to the CONNECT: its address type and code
    domain   \* the length of the domain name in it

socksVars == <<pc, reply, domain>>
vars == <<relayVars, socksVars>>

Types == {1, 3, 4, 9}    \* IPv4, domain, IPv6 and one that does not exist

TypeOK ==
    /\ RelayTypeOK
    /\ pc \in {"dial", "greet", "method", "request", "head", "address", "name",
               "start", "refused", "relay", "returned"}
    /\ reply \in [atyp : Types, code : {0, 5}]
    /\ domain \in Names

Init ==
    /\ RelayInit
    /\ pc = "dial"
    /\ reply \in [atyp : Types, code : {0, 5}]
    /\ domain \in Names

\* What the proxy sends before the target's first byte (RFC 1928): two bytes
\* for the method, then version, code, zero, type, address and port.
AddressSize == CASE reply.atyp = 1 -> 4
                 [] reply.atyp = 4 -> 16
                 [] reply.atyp = 3 -> 1 + domain
                 [] OTHER -> 0
ExchangeSize == 2 + 4 + AddressSize + 2

\* The proxy answers the greeting after it, and the request after it.
ProxyMaySend ==
    \/ pc \in {"method", "request"} /\ sent["down"] < 2
    \/ /\ pc \in {"head", "address", "name", "start", "refused", "relay"}
       /\ sent["down"] < ExchangeSize + Beyond

Return == pc' = "returned" /\ Close
         /\ UNCHANGED <<sent, ended, taken, buf, wrote, room, copier>>
Go(where) == pc' = where /\ UNCHANGED relayVars

\* originalDst and the dial of the proxy.
Dial ==
    /\ pc = "dial"
    /\ Go("greet") \/ Return
    /\ UNCHANGED <<reply, domain>>

\* The greeting and the request are written.
Write(from, to) ==
    /\ pc = from
    /\ Fits("up")
    /\ pc' = to
    /\ UNCHANGED <<sent, ended, taken, buf, wrote, fin, copier, over, reply, domain>>

\* Mutated form of ReadFull: the end of the stream is not noticed.
ReadFullWaits(from, n, to) ==
    /\ pc = from
    /\ sent["down"] >= taken["down"] + n
    /\ taken' = [taken EXCEPT !["down"] = @ + n]
    /\ pc' = to
    /\ UNCHANGED <<sent, ended, buf, wrote, room, fin, copier, over, reply, domain>>

\* io.ReadFull of n bytes: they are all there, or the stream ends before.
ReadFull(from, n, to) ==
    /\ pc = from
    /\ \/ /\ sent["down"] >= taken["down"] + n
          /\ taken' = [taken EXCEPT !["down"] = @ + n]
          /\ pc' = to
          /\ UNCHANGED <<sent, ended, buf, wrote, room, fin, copier, over>>
       \/ /\ sent["down"] < taken["down"] + n /\ ended["down"]
          /\ Return
    /\ UNCHANGED <<reply, domain>>

\* The proxy agrees to no authentication, or wants another method.
ReadMethod == ReadFull("method", 2, "request") \/ ReadFull("method", 2, "refused")

\* A code other than zero ends the connection, and so does an unknown type.
ReadHead ==
    ReadFull("head", 4, IF reply.code # 0 \/ reply.atyp \notin {1, 3, 4}
                          THEN "refused" ELSE "address")

\* Mutated form of ReadAddress: the port is not drained after a name.
ReadAddressNoPort ==
    \/ reply.atyp = 1 /\ ReadFull("address", 4 + 2, "start")
    \/ reply.atyp = 4 /\ ReadFull("address", 16 + 2, "start")
    \/ reply.atyp = 3 /\ ReadFull("address", 1, "name")
    \/ ReadFull("name", domain, "start")

\* The bound address is drained, whatever its form.
ReadAddress ==
    \/ reply.atyp = 1 /\ ReadFull("address", 4 + 2, "start")
    \/ reply.atyp = 4 /\ ReadFull("address", 16 + 2, "start")
    \/ reply.atyp = 3 /\ ReadFull("address", 1, "name")
    \/ ReadFull("name", domain + 2, "start")

Refused ==
    /\ pc = "refused"
    /\ Return
    /\ UNCHANGED <<reply, domain>>

Start ==
    /\ pc = "start"
    /\ pc' = "relay"
    /\ StartCopiers
    /\ UNCHANGED <<sent, ended, taken, buf, wrote, room, fin, over, reply, domain>>

\* A write or a read of the exchange fails.
SocketFails ==
    /\ pc \in {"greet", "method", "request", "head", "address", "name"}
    /\ Return
    /\ UNCHANGED <<reply, domain>>

handleStep ==
    \/ Dial
    \/ Write("greet", "method")
    \/ ReadMethod
    \/ Write("request", "head")
    \/ ReadHead \/ ReadAddress \/ Refused \/ Start

Next ==
    \/ peer("up") /\ UNCHANGED socksVars
    \/ ProxyMaySend /\ PeerSends("down") /\ UNCHANGED socksVars
    \/ pc # "dial" /\ PeerEnds("down") /\ UNCHANGED socksVars
    \/ relayEvent /\ UNCHANGED socksVars
    \/ copyStep /\ UNCHANGED socksVars
    \/ handleStep
    \/ SocketFails

Spec == Init /\ [][Next]_vars

\* The goroutines run, and the dial comes to an end.  Nothing makes the proxy
\* or the client read, send or end.
FairSpec == Spec /\ WF_vars(handleStep) /\ WF_vars(copyStep /\ UNCHANGED socksVars)

------------------------------------------------------------------------------
(* Properties.                                                             *)

\* The exchange with the proxy takes off the stream exactly what belongs to
\* it: the client receives the target's bytes from the first one on, and the
\* target the client's.
Framing == Gapless("up", 0) /\ Gapless("down", ExchangeSize)

\* When the closing of both sockets cuts one of the streams it leaves the other
\* whole: the client's from its first byte, the proxy's after its answers.
OneStreamArrives == OneArrives([up |-> 0, down |-> ExchangeSize])

\* When the proxy ends its stream the handler returns, whatever it was doing,
\* unless it is held in a write to a peer that does not read: no deadline
\* would end that.
ReturnsAfterProxy ==
    (\A d \in Directions : KeepsReading(d)) => (ended["down"] ~> over)

==============================================================================
