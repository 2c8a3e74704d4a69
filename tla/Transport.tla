------------------------------ MODULE Transport ------------------------------
(***************************************************************************)
(* The clients that New makes (mimic/client.go): the roundTripper that     *)
(* tries HTTP/2 and falls back to HTTP/1.1 per host, the dial with the     *)
(* profile's ClientHello, and the store of session tickets that all        *)
(* clients of the process share (mimic/resumption.go).                     *)
(*                                                                         *)
(* There is one client for each name of a ClientHello.  The two transports *)
(* under it are not part of the repository: of each only the connections   *)
(* it keeps and the exchange of one request are modelled.  The store's LRU *)
(* is taken to evict any ticket when it is full.                           *)
(***************************************************************************)
EXTENDS Naturals, FiniteSets

CONSTANTS
    Calls,       \* the callers of RoundTrip
    Names,       \* the tls_client_hello names the clients were made with
    Hosts,       \* the https servers
    MaxTickets   \* what the shared store holds: 64

\* The names newUConn resolves to a spec of the repository or of HelloChrome_Auto.
KnownNames == {"chrome_auto", "android_149", "chrome_152", "chrome_152_psk", "chrome_155",
               "chrome_156", "yandex_browser", "node_24", "max_app", "max_app_psk"}

ASSUME TransportAssumption == Names \subseteq KnownNames /\ MaxTickets \in Nat \ {0}

VARIABLES
    speaksH2,  \* the servers that pick h2 when it is offered, at present
    h1Only,    \* roundTripper.h1Only of each client
    h2conns,   \* how many connections the h2 transport of a client keeps to a host
    h1idle,    \* how many idle ones the HTTP/1.1 transport keeps
    open,      \* how many sockets are open in all
    tickets,   \* the shared store: key -> ticket
    refused,   \* history: the hosts whose refusal a client has acted on
    pc,        \* where each call is
    client,    \* the name of the client it was made on
    host,      \* the host it is for
    alpn,      \* what the connection it uses negotiated
    offered,   \* the tickets its dial has offered: none or one
    sent,      \* how often its request was put on a connection
    settled    \* its host was known not to speak h2 when it began

connVars == <<h2conns, h1idle, open>>
reqVars == <<client, host, settled>>
callVars == <<pc, reqVars, alpn, offered, sent>>
vars == <<speaksH2, h1Only, connVars, tickets, refused, callVars>>

------------------------------------------------------------------------------
(* Names, hellos and scopes.                                               *)

\* The ClientHello that newUConn builds for a name.
HelloOf(n) == CASE n = "android_149" -> "chrome_auto"
                [] n = "chrome_155" -> "chrome_152"
                [] OTHER -> n

\* clientHelloIsHTTP1Only: no h2 in the hello's ALPN, or no ALPN at all.
HTTP1Only(n) == n \in {"node_24", "max_app", "max_app_psk"}

\* A hello with the managed pre_shared_key placeholder can carry a ticket, one
\* with a captured pre_shared_key cannot.
Resumes(n) == n \notin {"chrome_152_psk", "max_app_psk"}

\* Mutated form of resumptionScope: one scope for all.
OneScope(n) == "chrome_auto"

resumptionScope(n) == IF n = "android_149" THEN "chrome_auto" ELSE n

\* The key of scopedSessionCache, whose parts a NUL keeps apart.
TicketKey(n, h) == <<resumptionScope(n), h>>

\* What a ticket was negotiated under, and by whom it was issued.
Tickets == [hello : {HelloOf(n) : n \in Names}, host : Hosts]

TypeOK ==
    /\ speaksH2 \subseteq Hosts
    /\ h1Only \in [Names -> SUBSET Hosts]
    /\ h2conns \in [Names \X Hosts -> Nat]
    /\ h1idle \in [Names \X Hosts -> Nat]
    /\ open \in Nat
    /\ DOMAIN tickets \subseteq KnownNames \X Hosts
    /\ Cardinality(DOMAIN tickets) <= MaxTickets
    /\ \A k \in DOMAIN tickets : tickets[k] \in Tickets
    /\ refused \subseteq Names \X Hosts
    /\ pc \in [Calls -> {"idle", "route", "h2", "h2 hello", "no h2", "h2 sent",
                         "h1", "h1 hello", "h1 sent"}]
    /\ client \in [Calls -> Names]
    /\ host \in [Calls -> Hosts]
    /\ alpn \in [Calls -> {"none", "h2", "http/1.1"}]
    /\ offered \in [Calls -> SUBSET Tickets]
    /\ sent \in [Calls -> Nat]
    /\ settled \in [Calls -> BOOLEAN]

Init ==
    /\ speaksH2 \in SUBSET Hosts
    /\ h1Only = [n \in Names |-> {}]
    /\ h2conns = [p \in Names \X Hosts |-> 0]
    /\ h1idle = [p \in Names \X Hosts |-> 0]
    /\ open = 0
    /\ tickets = [k \in {} |-> 0]
    /\ refused = {}
    /\ pc = [c \in Calls |-> "idle"]
    /\ client \in [Calls -> Names]
    /\ host \in [Calls -> Hosts]
    /\ alpn = [c \in Calls |-> "none"]
    /\ offered = [c \in Calls |-> {}]
    /\ sent = [c \in Calls |-> 0]
    /\ settled = [c \in Calls |-> FALSE]

At(c) == <<client[c], host[c]>>
Add(f, p) == [f EXCEPT ![p] = @ + 1]
Sub(f, p) == [f EXCEPT ![p] = @ - 1]
Go(c, where) == pc' = [pc EXCEPT ![c] = where]

------------------------------------------------------------------------------
(* The servers.                                                            *)

\* Another server answers under the name, or its set-up changes.
ServerChanges ==
    /\ \E h \in Hosts : speaksH2' = (speaksH2 \ {h}) \cup ({h} \ speaksH2)
    /\ UNCHANGED <<h1Only, connVars, tickets, refused, callVars>>

\* An idle connection is closed, by the server or for its age.
IdleCloses(p) ==
    /\ \/ h1idle[p] > 0 /\ h1idle' = Sub(h1idle, p) /\ UNCHANGED h2conns
       \/ h2conns[p] > 0 /\ h2conns' = Sub(h2conns, p) /\ UNCHANGED h1idle
    /\ open' = open - 1
    /\ UNCHANGED <<speaksH2, h1Only, tickets, refused, callVars>>

------------------------------------------------------------------------------
(* RoundTrip.                                                              *)

Call(c, n, h) ==
    /\ pc[c] = "idle"
    /\ client' = [client EXCEPT ![c] = n]
    /\ host' = [host EXCEPT ![c] = h]
    /\ settled' = [settled EXCEPT ![c] = <<n, h>> \in refused]
    /\ sent' = [sent EXCEPT ![c] = 0]
    /\ Go(c, "route")
    /\ UNCHANGED <<speaksH2, h1Only, connVars, tickets, refused, alpn, offered>>

\* forceH1, and h1Only read under its lock.
Route(c) ==
    /\ pc[c] = "route"
    /\ Go(c, IF HTTP1Only(client[c]) \/ host[c] \in h1Only[client[c]] THEN "h1" ELSE "h2")
    /\ UNCHANGED <<speaksH2, h1Only, connVars, tickets, refused, reqVars, alpn, offered, sent>>

\* Mutated form of FallBack: the host is not remembered.
FallBackForgets(c) ==
    /\ pc[c] = "no h2"
    /\ refused' = refused \cup {At(c)}
    /\ Go(c, "h1")
    /\ UNCHANGED <<speaksH2, h1Only, connVars, tickets, reqVars, alpn, offered, sent>>

\* errNoH2: the host is marked, and the request goes to the other transport.
FallBack(c) ==
    /\ pc[c] = "no h2"
    /\ h1Only' = [h1Only EXCEPT ![client[c]] = @ \cup {host[c]}]
    /\ refused' = refused \cup {At(c)}
    /\ Go(c, "h1")
    /\ UNCHANGED <<speaksH2, connVars, tickets, reqVars, alpn, offered, sent>>

\* A transport has a connection it can use.
Reuse(c) ==
    /\ \/ /\ pc[c] = "h2" /\ h2conns[At(c)] > 0
          /\ Go(c, "h2 sent")
          /\ alpn' = [alpn EXCEPT ![c] = "h2"]
          /\ UNCHANGED h1idle
       \/ /\ pc[c] = "h1" /\ h1idle[At(c)] > 0
          /\ h1idle' = Sub(h1idle, At(c))
          /\ Go(c, "h1 sent")
          /\ alpn' = [alpn EXCEPT ![c] = "http/1.1"]
    /\ sent' = Add(sent, c)
    /\ UNCHANGED <<speaksH2, h1Only, h2conns, open, tickets, refused, reqVars, offered>>

------------------------------------------------------------------------------
(* dialProfileTLS, whose first argument for the h2 transport is requireH2. *)

\* The socket is open, through the proxy if there is one, and the hello goes
\* out with a ticket if the store has one; or the dial or the CONNECT fails,
\* which leaves nothing open.
DialStart(c) ==
    /\ pc[c] \in {"h2", "h1"}
    /\ LET key == TicketKey(client[c], host[c]) IN
       \/ /\ open' = open + 1
          /\ Go(c, IF pc[c] = "h2" THEN "h2 hello" ELSE "h1 hello")
          /\ offered' = [offered EXCEPT ![c] =
                           IF Resumes(client[c]) /\ key \in DOMAIN tickets THEN {tickets[key]} ELSE {}]
       \/ Go(c, "idle") /\ UNCHANGED <<open, offered>>
    /\ UNCHANGED <<speaksH2, h1Only, h2conns, h1idle, tickets, refused, reqVars, alpn, sent>>

\* The handshake fails, the socket is closed, and uTLS drops the ticket it
\* had offered.
HandshakeFails(c) ==
    /\ pc[c] \in {"h2 hello", "h1 hello"}
    /\ open' = open - 1
    /\ LET key == TicketKey(client[c], host[c]) IN
       tickets' = [k \in DOMAIN tickets \ (IF offered[c] = {} THEN {} ELSE {key}) |-> tickets[k]]
    /\ Go(c, "idle")
    /\ offered' = [offered EXCEPT ![c] = {}]
    /\ UNCHANGED <<speaksH2, h1Only, h2conns, h1idle, refused, reqVars, alpn, sent>>

Negotiated(c) ==
    IF host[c] \in speaksH2 /\ ~HTTP1Only(client[c]) THEN "h2" ELSE "http/1.1"

\* Mutated form of NotH2: the connection that will not be used stays open.
NotH2StaysOpen(c) ==
    /\ pc[c] = "h2 hello" /\ Negotiated(c) # "h2"
    /\ Go(c, "no h2")
    /\ offered' = [offered EXCEPT ![c] = {}]
    /\ UNCHANGED <<speaksH2, h1Only, connVars, tickets, refused, reqVars, alpn, sent>>

\* requireH2 and another protocol: the connection is closed.
NotH2(c) ==
    /\ pc[c] = "h2 hello" /\ Negotiated(c) # "h2"
    /\ open' = open - 1
    /\ Go(c, "no h2")
    /\ offered' = [offered EXCEPT ![c] = {}]
    /\ UNCHANGED <<speaksH2, h1Only, h2conns, h1idle, tickets, refused, reqVars, alpn, sent>>

\* The connection is the transport's, which writes the request on it.
Connected(c) ==
    /\ \/ /\ pc[c] = "h2 hello" /\ Negotiated(c) = "h2"
          /\ h2conns' = Add(h2conns, At(c))
          /\ Go(c, "h2 sent")
       \/ /\ pc[c] = "h1 hello"
          /\ Go(c, "h1 sent")
          /\ UNCHANGED h2conns
    /\ alpn' = [alpn EXCEPT ![c] = Negotiated(c)]
    /\ sent' = Add(sent, c)
    /\ offered' = [offered EXCEPT ![c] = {}]
    /\ UNCHANGED <<speaksH2, h1Only, h1idle, open, tickets, refused, reqVars>>

------------------------------------------------------------------------------
(* The exchange.                                                           *)

\* The server's ticket is read with its first bytes and stored, which may push
\* another one out.
StoreTicket(c) ==
    /\ pc[c] \in {"h2 sent", "h1 sent"}
    /\ LET key == TicketKey(client[c], host[c])
           others == DOMAIN tickets \ {key}
       IN  \E kept \in SUBSET others :
             /\ Cardinality(kept) =
                  (IF Cardinality(others) < MaxTickets THEN Cardinality(others) ELSE MaxTickets - 1)
             /\ tickets' = [k \in kept \cup {key} |->
                              IF k = key THEN [hello |-> HelloOf(client[c]), host |-> host[c]]
                                         ELSE tickets[k]]
    /\ UNCHANGED <<speaksH2, h1Only, connVars, refused, callVars>>

\* Mutated form of Answered: every failure of the h2 transport is tried again.
AnsweredRetries(c) ==
    /\ pc[c] = "h2 sent"
    /\ Go(c, "h1")
    /\ alpn' = [alpn EXCEPT ![c] = "none"]
    /\ UNCHANGED <<speaksH2, h1Only, connVars, tickets, refused, reqVars, offered, sent>>

\* The response has been read, or the exchange has failed: the connection is
\* kept or closed.  HTTP/1.1 on a connection that became h2 always fails.
Answered(c) ==
    /\ \/ /\ pc[c] = "h2 sent"
          /\ \/ UNCHANGED connVars
             \/ /\ h2conns[At(c)] > 0
                /\ h2conns' = Sub(h2conns, At(c)) /\ open' = open - 1
                /\ UNCHANGED h1idle
       \/ /\ pc[c] = "h1 sent"
          /\ UNCHANGED h2conns
          /\ \/ alpn[c] = "http/1.1" /\ h1idle' = Add(h1idle, At(c)) /\ UNCHANGED open
             \/ open' = open - 1 /\ UNCHANGED h1idle
    /\ Go(c, "idle")
    /\ alpn' = [alpn EXCEPT ![c] = "none"]
    /\ UNCHANGED <<speaksH2, h1Only, tickets, refused, reqVars, offered, sent>>

RoundTrip(c) ==
    \/ Route(c) \/ Reuse(c) \/ FallBack(c)
    \/ DialStart(c) \/ HandshakeFails(c) \/ NotH2(c) \/ Connected(c)
    \/ StoreTicket(c) \/ Answered(c)

Next ==
    \/ ServerChanges
    \/ \E p \in Names \X Hosts : IdleCloses(p)
    \/ \E c \in Calls : RoundTrip(c) \/ \E n \in Names, h \in Hosts : Call(c, n, h)

Spec == Init /\ [][Next]_vars

------------------------------------------------------------------------------
(* Properties.                                                             *)

\* A request is put on one connection: the second try of RoundTrip
\* (client.go:271-274) only ever follows a dial, never an exchange.
SentOnce == \A c \in Calls : sent[c] <= 1

\* Once a client has fallen back for a host, no later call of that client puts
\* a hello on the wire that only h2 would satisfy (client.go:250-252).
NoSecondProbe == \A c \in Calls : settled[c] => pc[c] \notin {"h2", "h2 hello", "no h2"}

\* A ticket is only offered to the host that issued it and under the very
\* ClientHello it was negotiated under (client.go:350-353, resumption.go:24-34).
TicketsStayInScope ==
    \A c \in Calls : \A t \in offered[c] :
        t.hello = HelloOf(client[c]) /\ t.host = host[c]

\* The connections that a transport keeps, the i-th to the host h of the client
\* n being <<<<n, h>>, i>>, and the calls that hold one for themselves.
Kept(f) == UNION {{p} \X (1..f[p]) : p \in DOMAIN f}
InHand == {c \in Calls : pc[c] \in {"h2 hello", "h1 hello", "h1 sent"}}

\* No socket is lost: every open one is kept by a transport or serves a call.
NoLeak ==
    open = Cardinality(Kept(h2conns)) + Cardinality(Kept(h1idle)) + Cardinality(InHand)

------------------------------------------------------------------------------
(* What the documentation says, which the code does not do.                *)

\* client.go:176-179, "fall back to HTTP/1.1 per host when a server does not
\* offer h2": HTTP/1.1 is for connections that did not become h2.
SpeaksAsNegotiated == \A c \in Calls : pc[c] = "h1 sent" => alpn[c] # "h2"

\* resumption.go:36-38, "Profiles that resolve to the same ClientHello share a
\* scope".
SameHelloSameScope ==
    \A m, n \in Names : HelloOf(m) = HelloOf(n) => resumptionScope(m) = resumptionScope(n)

==============================================================================
