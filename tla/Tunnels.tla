------------------------------- MODULE Tunnels -------------------------------
(***************************************************************************)
(* The two programs built on Relay, and the request that one of them       *)
(* makes: a behaviour is a connection of one of them, or the requests for  *)
(* some targets, and the variables of the others keep their first values.  *)
(***************************************************************************)
EXTENDS Integers, Sequences

CONSTANTS
    TapSends,   \* how much each side of hello-tap sends
    FwdSends,   \* how many bytes each side of tproxyfwd sends
    Names,      \* lengths of the domain names a proxy reports
    Beyond,     \* how many bytes follow the answers of a proxy
    Hosts,      \* the hosts that tproxyfwd asks its proxy for
    Ports       \* and the ports

ASSUME TunnelsAssumption ==
    /\ TapSends \in [{"up", "down"} -> Nat] /\ FwdSends \in [{"up", "down"} -> Nat]
    /\ Names \subseteq Nat
    /\ Hosts \subseteq Seq(0..255)
    /\ Ports \subseteq Int

VARIABLES
    program,
    sent, ended, taken, buf, wrote, room, fin, copier, over,   \* Relay
    pc,                                                  \* of either handle
    kind, upstream, hello, deadline, records,            \* HelloTap
    reply, domain,                                       \* Tproxyfwd
    host, port                                           \* Socks5Request

relayVars == <<sent, ended, taken, buf, wrote, room, fin, copier, over>>
tapOnly == <<kind, upstream, hello, deadline, records>>
fwdOnly == <<reply, domain>>
request == <<host, port>>
vars == <<program, relayVars, pc, tapOnly, fwdOnly, request>>

Tap == INSTANCE HelloTap WITH MaxSend <- TapSends, HalfClose <- FALSE
Fwd == INSTANCE Tproxyfwd WITH MaxSend <- FwdSends, HalfClose <- TRUE
Req == INSTANCE Socks5Request

\* The types of the program that runs.
TypeOK ==
    \/ program = "hello-tap" /\ Tap!TypeOK
    \/ program = "tproxyfwd" /\ Fwd!TypeOK
    \/ program = "request" /\ host \in Hosts /\ port \in Ports

TapInit ==
    /\ program = "hello-tap" /\ Tap!Init
    /\ reply = [atyp |-> 1, code |-> 0] /\ domain = 0
    /\ host = <<>> /\ port = 0
FwdInit ==
    /\ program = "tproxyfwd" /\ Fwd!Init
    /\ kind = "other" /\ upstream = FALSE /\ hello = <<>> /\ deadline = FALSE /\ records = 0
    /\ host = <<>> /\ port = 0
ReqInit ==
    /\ program = "request" /\ Req!Init
    /\ kind = "other" /\ upstream = FALSE /\ hello = <<>> /\ deadline = FALSE /\ records = 0
    /\ reply = [atyp |-> 1, code |-> 0] /\ domain = 0 /\ pc = "done"
    /\ Fwd!RelayInit

Init == TapInit \/ FwdInit \/ ReqInit

TapNext == program = "hello-tap" /\ Tap!Next /\ UNCHANGED <<program, fwdOnly, request>>
FwdNext == program = "tproxyfwd" /\ Fwd!Next /\ UNCHANGED <<program, tapOnly, request>>
ReqNext ==
    program = "request" /\ Req!Next /\ UNCHANGED <<program, relayVars, pc, tapOnly, fwdOnly>>
Next == TapNext \/ FwdNext \/ ReqNext

Spec == Init /\ [][Next]_vars

\* The goroutines run, and dials come to an end: the fairness of the programs.
\* A write to a peer that does not read is not enabled, and no fairness is asked
\* of the peers.
FairSpec ==
    /\ Spec
    /\ WF_vars(program = "hello-tap" /\ Tap!handleStep /\ UNCHANGED <<program, fwdOnly, request>>)
    /\ WF_vars(program = "hello-tap" /\ Tap!copyStep
               /\ UNCHANGED <<program, pc, tapOnly, fwdOnly, request>>)
    /\ WF_vars(program = "tproxyfwd" /\ Fwd!handleStep /\ UNCHANGED <<program, tapOnly, request>>)
    /\ WF_vars(program = "tproxyfwd" /\ Fwd!copyStep
               /\ UNCHANGED <<program, pc, tapOnly, fwdOnly, request>>)

------------------------------------------------------------------------------
\* hello-tap forwards a ClientHello it read from its first byte (main.go:158-165).
HelloIsForwarded == program = "hello-tap" => Tap!HelloIsForwarded

\* tproxyfwd takes the bytes of the SOCKS5 exchange off the proxy's stream,
\* and no others (main.go:173-217).
Framing == program = "tproxyfwd" => Fwd!Framing

\* Both programs close both sockets when the first copier is done
\* (tproxyfwd main.go:113-117, hello-tap main.go:158-167): if no socket failed,
\* one of the two streams has reached the other side whole.
OneStreamArrives ==
    /\ program = "hello-tap" => Tap!OneStreamArrives
    /\ program = "tproxyfwd" => Fwd!OneStreamArrives

\* A proxy that reads the CONNECT request of tproxyfwd finds its host and port
\* and nothing else (main.go:132-156).
ProxyReadsTarget == program = "request" => Req!ProxyReadsTarget

\* The handler of hello-tap returns when its client ends its stream, if no peer
\* leaves a write of it waiting for ever (main.go:87-167).
ReturnsAfterClient == program = "hello-tap" => Tap!ReturnsAfterClient

\* The handler of tproxyfwd returns when its proxy ends its stream, if no peer
\* leaves a write of it waiting for ever (main.go:88-118, 169-217).
ReturnsAfterProxy == program = "tproxyfwd" => Fwd!ReturnsAfterProxy

\* What hello-tap's documentation says (main.go:2): the traffic is forwarded
\* untouched.
Untouched == program = "hello-tap" => Tap!Untouched

==============================================================================
