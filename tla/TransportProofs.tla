--------------------------- MODULE TransportProofs ---------------------------
(***************************************************************************)
(* What is proved of the transport, for any number of calls, profiles and  *)
(* hosts and any size of the ticket store: a request is put on one         *)
(* connection, a host that refused h2 is not probed again, a ticket stays  *)
(* with its host and its ClientHello, and every open socket has an owner.  *)
(***************************************************************************)
EXTENDS Transport, TLAPS, FiniteSetTheorems

\* A request has been written exactly when its call is past the writing.
Written(c) == IF pc[c] \in {"h2 sent", "h1 sent"} THEN sent[c] = 1
              ELSE pc[c] # "idle" => sent[c] = 0

CallInv ==
    /\ DOMAIN pc = Calls /\ DOMAIN sent = Calls
    /\ \A c \in Calls : Written(c) /\ sent[c] \in {0, 1}

LEMMA CallInvStep == CallInv /\ [Next]_vars => CallInv'
<1> SUFFICES ASSUME CallInv, [Next]_vars
             PROVE  CallInv'
  OBVIOUS
<1>1. UNCHANGED <<pc, sent>> => CallInv'
  BY DEF CallInv, Written
<1>2. ASSUME NEW c \in Calls, NEW where, Go(c, where), UNCHANGED sent,
             where \notin {"h2 sent", "h1 sent"},
             pc[c] \notin {"idle", "h2 sent", "h1 sent"} \/ where = "idle"
      PROVE  CallInv'
  BY <1>2 DEF CallInv, Written, Go
<1>3. ASSUME NEW c \in Calls, NEW where, Go(c, where), sent' = Add(sent, c),
             where \in {"h2 sent", "h1 sent"},
             pc[c] \notin {"idle", "h2 sent", "h1 sent"}
      PROVE  CallInv'
  <2>1. sent[c] = 0
    BY <1>3 DEF CallInv, Written
  <2>2. sent'[c] = 1 /\ pc'[c] = where
    <3>1. sent' = [sent EXCEPT ![c] = sent[c] + 1]
      BY <1>3 DEF Add
    <3>2. sent'[c] = sent[c] + 1
      BY <3>1 DEF CallInv
    <3>3. sent'[c] = 1
      BY <2>1, <3>2
    <3>4. pc'[c] = where
      BY <1>3 DEF CallInv, Go
    <3> QED BY <3>3, <3>4
  <2>3. \A d \in Calls : d # c => sent'[d] = sent[d] /\ pc'[d] = pc[d]
    BY <1>3 DEF CallInv, Go, Add
  <2>4. DOMAIN sent' = Calls /\ DOMAIN pc' = Calls
    BY <1>3 DEF CallInv, Go, Add
  <2> QED BY <1>3, <2>2, <2>3, <2>4 DEF CallInv, Written
<1>4. ASSUME ServerChanges
      PROVE  CallInv'
  BY <1>1, <1>4 DEF ServerChanges, callVars
<1>5. ASSUME NEW p \in Names \X Hosts, IdleCloses(p)
      PROVE  CallInv'
  BY <1>1, <1>5 DEF IdleCloses, callVars
<1>6. ASSUME NEW c \in Calls, NEW n \in Names, NEW h \in Hosts, Call(c, n, h)
      PROVE  CallInv'
  <2>1. sent' = [sent EXCEPT ![c] = 0] /\ pc' = [pc EXCEPT ![c] = "route"]
    BY <1>6 DEF Call, Go
  <2> QED BY <2>1 DEF CallInv, Written
<1>7. ASSUME NEW c \in Calls, RoundTrip(c)
      PROVE  CallInv'
  <2>1. CASE Route(c)
    BY <1>2, <2>1 DEF Route
  <2>2. CASE Reuse(c)
    BY <1>3, <2>2 DEF Reuse
  <2>3. CASE FallBack(c)
    BY <1>2, <2>3 DEF FallBack
  <2>4. CASE DialStart(c)
    BY <1>2, <2>4 DEF DialStart
  <2>5. CASE HandshakeFails(c)
    BY <1>2, <2>5 DEF HandshakeFails
  <2>6. CASE NotH2(c)
    BY <1>2, <2>6 DEF NotH2
  <2>7. CASE Connected(c)
    BY <1>3, <2>7 DEF Connected
  <2>8. CASE StoreTicket(c)
    BY <1>1, <2>8 DEF StoreTicket, callVars
  <2>9. CASE Answered(c)
    BY <1>2, <2>9 DEF Answered
  <2> QED BY <1>7, <2>1, <2>2, <2>3, <2>4, <2>5, <2>6, <2>7, <2>8, <2>9 DEF RoundTrip
<1>8. ASSUME UNCHANGED vars
      PROVE  CallInv'
  BY <1>1, <1>8 DEF vars, callVars
<1> QED BY <1>4, <1>5, <1>6, <1>7, <1>8 DEF Next

LEMMA CallInvInit == Init => CallInv
BY DEF Init, CallInv, Written

\* RoundTrip hands a request to the second transport only when the first one
\* has not written it (client.go:270-275).
THEOREM RequestSentOnce == Spec => []SentOnce
<1>1. Init => CallInv
  BY CallInvInit
<1>2. CallInv => SentOnce
  BY DEF CallInv, SentOnce
<1> QED BY <1>1, <1>2, CallInvStep, PTL DEF Spec

------------------------------------------------------------------------------
\* A host a client has fallen back for is in its h1Only, and a call that began
\* after that is on its way to HTTP/1.1.
RouteInv ==
    /\ DOMAIN pc = Calls /\ DOMAIN client = Calls /\ DOMAIN host = Calls
    /\ DOMAIN settled = Calls
    /\ DOMAIN h1Only = Names /\ client \in [Calls -> Names]
    /\ \A p \in refused : p[2] \in h1Only[p[1]]
    /\ \A c \in Calls : settled[c] => At(c) \in refused
    /\ NoSecondProbe

LEMMA RouteInvStep == RouteInv /\ [Next]_vars => RouteInv'
<1> SUFFICES ASSUME RouteInv, [Next]_vars
             PROVE  RouteInv'
  OBVIOUS
<1>1. UNCHANGED <<pc, client, host, settled, h1Only, refused>> => RouteInv'
  BY DEF RouteInv, NoSecondProbe, At
<1>2. ASSUME NEW c \in Calls, NEW where, Go(c, where),
             UNCHANGED <<client, host, settled, h1Only, refused>>,
             where \notin {"h2", "h2 hello", "no h2"} \/ ~settled[c]
      PROVE  RouteInv'
  BY <1>2 DEF RouteInv, NoSecondProbe, At, Go
<1>3. ASSUME ServerChanges
      PROVE  RouteInv'
  BY <1>1, <1>3 DEF ServerChanges, callVars, reqVars
<1>4. ASSUME NEW p \in Names \X Hosts, IdleCloses(p)
      PROVE  RouteInv'
  BY <1>1, <1>4 DEF IdleCloses, callVars, reqVars
<1>5. ASSUME NEW c \in Calls, NEW n \in Names, NEW h \in Hosts, Call(c, n, h)
      PROVE  RouteInv'
  <2>1. /\ client' = [client EXCEPT ![c] = n]
        /\ host' = [host EXCEPT ![c] = h]
        /\ settled' = [settled EXCEPT ![c] = <<n, h>> \in refused]
        /\ pc' = [pc EXCEPT ![c] = "route"]
        /\ h1Only' = h1Only /\ refused' = refused
    BY <1>5 DEF Call, Go
  <2>2. ASSUME NEW d \in Calls, settled'[d]
        PROVE  <<client'[d], host'[d]>> \in refused /\ pc'[d] \notin {"h2", "h2 hello", "no h2"}
    <3>1. CASE d = c
      BY <2>1, <2>2, <3>1 DEF RouteInv
    <3>2. CASE d # c
      BY <2>1, <2>2, <3>2 DEF RouteInv, NoSecondProbe, At
    <3> QED BY <3>1, <3>2
  <2> QED BY <2>1, <2>2 DEF RouteInv, NoSecondProbe, At
<1>6. ASSUME NEW c \in Calls, RoundTrip(c)
      PROVE  RouteInv'
  <2>1. CASE Route(c)
    <3>1. settled[c] => host[c] \in h1Only[client[c]]
      <4>1. settled[c] => <<client[c], host[c]>> \in refused
        BY DEF RouteInv, At
      <4> QED BY <4>1 DEF RouteInv
    <3>2. UNCHANGED <<client, host, settled, h1Only, refused>>
      BY <2>1 DEF Route, reqVars
    <3> QED BY <1>2, <2>1, <3>1, <3>2 DEF Route
  <2>2. CASE Reuse(c)
    BY <1>2, <2>2 DEF Reuse, reqVars
  <2>3. CASE FallBack(c)
    <3>1. /\ h1Only' = [h1Only EXCEPT ![client[c]] = @ \cup {host[c]}]
          /\ refused' = refused \cup {<<client[c], host[c]>>}
          /\ pc' = [pc EXCEPT ![c] = "h1"]
          /\ client' = client /\ host' = host /\ settled' = settled
      BY <2>3 DEF FallBack, reqVars, Go, At
    <3>2. \A n \in Names : h1Only[n] \subseteq h1Only'[n]
      BY <3>1 DEF RouteInv
    <3>3. client[c] \in Names /\ host[c] \in h1Only'[client[c]]
      BY <3>1 DEF RouteInv
    <3>4. \A p \in refused : p[1] \in DOMAIN h1Only \/ p[2] \in h1Only[p[1]]
      BY DEF RouteInv
    <3>5. \A p \in refused : p[2] \in h1Only'[p[1]]
      BY <3>1 DEF RouteInv
    <3>6. \A p \in refused' : p[2] \in h1Only'[p[1]]
      BY <3>1, <3>3, <3>5
    <3>7. NoSecondProbe'
      BY <3>1 DEF RouteInv, NoSecondProbe
    <3>8. \A d \in Calls : settled'[d] => At(d)' \in refused'
      BY <3>1 DEF RouteInv, At
    <3> QED BY <3>1, <3>6, <3>7, <3>8 DEF RouteInv
  <2>4. CASE DialStart(c)
    BY <1>2, <2>4 DEF DialStart, reqVars, RouteInv, NoSecondProbe
  <2>5. CASE HandshakeFails(c)
    BY <1>2, <2>5 DEF HandshakeFails, reqVars
  <2>6. CASE NotH2(c)
    BY <1>2, <2>6 DEF NotH2, reqVars, RouteInv, NoSecondProbe
  <2>7. CASE Connected(c)
    BY <1>2, <2>7 DEF Connected, reqVars
  <2>8. CASE StoreTicket(c)
    BY <1>1, <2>8 DEF StoreTicket, callVars, reqVars
  <2>9. CASE Answered(c)
    BY <1>2, <2>9 DEF Answered, reqVars
  <2> QED BY <1>6, <2>1, <2>2, <2>3, <2>4, <2>5, <2>6, <2>7, <2>8, <2>9 DEF RoundTrip
<1>7. ASSUME UNCHANGED vars
      PROVE  RouteInv'
  BY <1>1, <1>7 DEF vars, callVars, reqVars
<1> QED BY <1>3, <1>4, <1>5, <1>6, <1>7 DEF Next

\* A client probes a host for h2 until it has been refused once
\* (client.go:250-252, 267-269).
THEOREM NeverProbedAgain == Spec => []NoSecondProbe
<1>1. Init => RouteInv
  BY DEF Init, RouteInv, NoSecondProbe
<1>2. RouteInv => NoSecondProbe
  BY DEF RouteInv
<1> QED BY <1>1, <1>2, RouteInvStep, PTL DEF Spec

------------------------------------------------------------------------------
\* Names that share a scope have the same ClientHello.
LEMMA OneHelloPerScope ==
    ASSUME NEW m, NEW n, resumptionScope(m) = resumptionScope(n)
    PROVE  HelloOf(m) = HelloOf(n)
BY DEF resumptionScope, HelloOf

\* A ticket lies under the key of those who may offer it, and a ticket that is
\* being offered is one of theirs.
Keyed(store) ==
    \A n \in Names, h \in Hosts : TicketKey(n, h) \in DOMAIN store =>
        /\ store[TicketKey(n, h)].hello = HelloOf(n)
        /\ store[TicketKey(n, h)].host = h

StoreInv ==
    /\ client \in [Calls -> Names] /\ host \in [Calls -> Hosts]
    /\ DOMAIN offered = Calls /\ DOMAIN pc = Calls
    /\ Keyed(tickets)
    /\ \A c \in Calls : pc[c] \notin {"h2 hello", "h1 hello"} => offered[c] = {}
    /\ TicketsStayInScope

LEMMA StoreInvStep == StoreInv /\ [Next]_vars => StoreInv'
<1> SUFFICES ASSUME StoreInv, [Next]_vars
             PROVE  StoreInv'
  OBVIOUS
<1>1. UNCHANGED <<client, host, offered, pc, tickets>> => StoreInv'
  BY DEF StoreInv, TicketsStayInScope
<1>2. ASSUME NEW c \in Calls, NEW where, Go(c, where), UNCHANGED <<client, host, tickets>>,
             \/ offered' = [offered EXCEPT ![c] = {}]
             \/ UNCHANGED offered /\ pc[c] \notin {"h2 hello", "h1 hello"}
      PROVE  StoreInv'
  BY <1>2 DEF StoreInv, TicketsStayInScope, Go
<1>3. ASSUME ServerChanges
      PROVE  StoreInv'
  BY <1>1, <1>3 DEF ServerChanges, callVars, reqVars
<1>4. ASSUME NEW p \in Names \X Hosts, IdleCloses(p)
      PROVE  StoreInv'
  BY <1>1, <1>4 DEF IdleCloses, callVars, reqVars
<1>5. ASSUME NEW c \in Calls, NEW n \in Names, NEW h \in Hosts, Call(c, n, h)
      PROVE  StoreInv'
  <2>1. /\ client' = [client EXCEPT ![c] = n] /\ host' = [host EXCEPT ![c] = h]
        /\ pc' = [pc EXCEPT ![c] = "route"] /\ offered' = offered /\ tickets' = tickets
        /\ pc[c] = "idle"
    BY <1>5 DEF Call, Go
  <2>2. offered[c] = {}
    BY <2>1 DEF StoreInv
  <2> QED BY <2>1, <2>2 DEF StoreInv, TicketsStayInScope
<1>6. ASSUME NEW c \in Calls, RoundTrip(c)
      PROVE  StoreInv'
  <2>1. CASE Route(c)
    BY <1>2, <2>1 DEF Route, reqVars
  <2>2. CASE Reuse(c)
    BY <1>2, <2>2 DEF Reuse, reqVars
  <2>3. CASE FallBack(c)
    BY <1>2, <2>3 DEF FallBack, reqVars
  <2>4. CASE DialStart(c)
    <3> DEFINE key == TicketKey(client[c], host[c])
               new == IF Resumes(client[c]) /\ key \in DOMAIN tickets THEN {tickets[key]} ELSE {}
    <3>1. /\ pc[c] \in {"h2", "h1"}
          /\ client' = client /\ host' = host /\ tickets' = tickets
      BY <2>4 DEF DialStart, reqVars
    <3>2. CASE Go(c, "idle") /\ UNCHANGED offered
      BY <1>2, <3>1, <3>2
    <3>3. CASE /\ offered' = [offered EXCEPT ![c] = new]
               /\ Go(c, IF pc[c] = "h2" THEN "h2 hello" ELSE "h1 hello")
      <4>1. \A t \in new : t.hello = HelloOf(client[c]) /\ t.host = host[c]
        <5>1. client[c] \in Names /\ host[c] \in Hosts
          BY DEF StoreInv
        <5>2. key \in DOMAIN tickets =>
                tickets[key].hello = HelloOf(client[c]) /\ tickets[key].host = host[c]
          BY <5>1 DEF StoreInv, Keyed
        <5> QED BY <5>2
      <4> HIDE DEF new
      <4>2. offered'[c] = new /\ pc'[c] \in {"h2 hello", "h1 hello"}
        BY <3>3 DEF StoreInv, Go
      <4>3. \A d \in Calls : d # c => offered'[d] = offered[d] /\ pc'[d] = pc[d]
        BY <3>3 DEF StoreInv, Go
      <4>4. DOMAIN offered' = Calls /\ DOMAIN pc' = Calls
        BY <3>3 DEF StoreInv, Go
      <4>5. TicketsStayInScope'
        BY <3>1, <4>1, <4>2, <4>3 DEF StoreInv, TicketsStayInScope
      <4> QED BY <3>1, <4>2, <4>3, <4>4, <4>5 DEF StoreInv
    <3> QED BY <2>4, <3>2, <3>3 DEF DialStart
  <2>5. CASE HandshakeFails(c)
    <3>1. /\ DOMAIN tickets' \subseteq DOMAIN tickets
          /\ \A k \in DOMAIN tickets' : tickets'[k] = tickets[k]
      BY <2>5 DEF HandshakeFails
    <3>2. /\ client' = client /\ host' = host
          /\ pc' = [pc EXCEPT ![c] = "idle"] /\ offered' = [offered EXCEPT ![c] = {}]
      BY <2>5 DEF HandshakeFails, reqVars, Go
    <3>3. Keyed(tickets')
      <4> SUFFICES ASSUME NEW n \in Names, NEW h \in Hosts, TicketKey(n, h) \in DOMAIN tickets'
                   PROVE  /\ tickets'[TicketKey(n, h)].hello = HelloOf(n)
                          /\ tickets'[TicketKey(n, h)].host = h
        BY DEF Keyed
      <4>1. /\ TicketKey(n, h) \in DOMAIN tickets
            /\ tickets'[TicketKey(n, h)] = tickets[TicketKey(n, h)]
        BY <3>1
      <4> QED BY <4>1 DEF StoreInv, Keyed
    <3>4. TicketsStayInScope'
      BY <3>2 DEF StoreInv, TicketsStayInScope
    <3> QED BY <3>2, <3>3, <3>4 DEF StoreInv
  <2>6. CASE NotH2(c)
    BY <1>2, <2>6 DEF NotH2, reqVars
  <2>7. CASE Connected(c)
    BY <1>2, <2>7 DEF Connected, reqVars
  <2>8. CASE StoreTicket(c)
    <3> DEFINE key == TicketKey(client[c], host[c])
               t == [hello |-> HelloOf(client[c]), host |-> host[c]]
    <3>1. /\ client' = client /\ host' = host /\ offered' = offered /\ pc' = pc
      BY <2>8 DEF StoreTicket, callVars, reqVars
    <3>2. \A k \in DOMAIN tickets' :
            \/ k = key /\ tickets'[k] = t
            \/ k \in DOMAIN tickets /\ tickets'[k] = tickets[k]
      BY <2>8 DEF StoreTicket
    <3>3. ASSUME NEW n \in Names, NEW h \in Hosts, TicketKey(n, h) = key
          PROVE  t.hello = HelloOf(n) /\ t.host = h
      <4>1. resumptionScope(n) = resumptionScope(client[c]) /\ h = host[c]
        BY <3>3 DEF TicketKey
      <4> QED BY <4>1, OneHelloPerScope
    <3> HIDE DEF key, t
    <3>4. ASSUME NEW n \in Names, NEW h \in Hosts, TicketKey(n, h) \in DOMAIN tickets'
          PROVE  /\ tickets'[TicketKey(n, h)].hello = HelloOf(n)
                 /\ tickets'[TicketKey(n, h)].host = h
      <4>1. CASE TicketKey(n, h) = key /\ tickets'[TicketKey(n, h)] = t
        BY <3>3, <4>1
      <4>2. CASE /\ TicketKey(n, h) \in DOMAIN tickets
                 /\ tickets'[TicketKey(n, h)] = tickets[TicketKey(n, h)]
        BY <4>2 DEF StoreInv, Keyed
      <4> QED BY <3>2, <3>4, <4>1, <4>2
    <3>5. TicketsStayInScope'
      BY <3>1 DEF StoreInv, TicketsStayInScope
    <3> QED BY <3>1, <3>4, <3>5 DEF StoreInv, Keyed
  <2>9. CASE Answered(c)
    BY <1>2, <2>9 DEF Answered, reqVars
  <2> QED BY <1>6, <2>1, <2>2, <2>3, <2>4, <2>5, <2>6, <2>7, <2>8, <2>9 DEF RoundTrip
<1>7. ASSUME UNCHANGED vars
      PROVE  StoreInv'
  BY <1>1, <1>7 DEF vars, callVars, reqVars
<1> QED BY <1>3, <1>4, <1>5, <1>6, <1>7 DEF Next

LEMMA StoreInvInit == Init => StoreInv
BY DEF Init, StoreInv, Keyed, TicketsStayInScope

\* A ticket never leaves its identity: it is offered under the ClientHello it
\* was negotiated under, to the host that issued it (resumption.go:24-34).
THEOREM TicketsKept == Spec => []TicketsStayInScope
<1>1. Init => StoreInv
  BY StoreInvInit
<1>2. StoreInv => TicketsStayInScope
  BY DEF StoreInv
<1> QED BY <1>1, <1>2, StoreInvStep, PTL DEF Spec

------------------------------------------------------------------------------
(* The sockets.                                                            *)

Places == Names \X Hosts

\* One more connection to a place is one more in all, and one less likewise.
LEMMA KeptAdd ==
    ASSUME NEW f \in [Places -> Nat], NEW p \in Places, IsFiniteSet(Kept(f))
    PROVE  /\ Add(f, p) \in [Places -> Nat]
           /\ IsFiniteSet(Kept(Add(f, p)))
           /\ Cardinality(Kept(Add(f, p))) = Cardinality(Kept(f)) + 1
<1> DEFINE g == Add(f, p)
           x == <<p, f[p] + 1>>
<1>1. g \in [Places -> Nat] /\ g[p] = f[p] + 1 /\ \A q \in Places \ {p} : g[q] = f[q]
  BY DEF Add
<1>2. \A q, i : <<q, i>> \in Kept(g) <=> q \in Places /\ i \in 1..g[q]
  BY <1>1 DEF Kept
<1>3. \A q, i : <<q, i>> \in Kept(f) <=> q \in Places /\ i \in 1..f[q]
  BY DEF Kept
<1>4. 1..g[p] = (1..f[p]) \cup {f[p] + 1} /\ f[p] + 1 \notin 1..f[p]
  BY <1>1
<1>5. x \notin Kept(f)
  BY <1>3, <1>4
<1>6. \A q, i : <<q, i>> \in Kept(g) <=> <<q, i>> \in Kept(f) \cup {x}
  BY <1>1, <1>2, <1>3, <1>4
<1>7. Kept(g) = Kept(f) \cup {x}
  <2>1. \A e \in Kept(g) : \E q, i : e = <<q, i>>
    BY DEF Kept
  <2>2. \A e \in Kept(f) \cup {x} : \E q, i : e = <<q, i>>
    BY DEF Kept
  <2> QED BY <1>6, <2>1, <2>2
<1> QED BY <1>1, <1>5, <1>7, FS_AddElement

LEMMA KeptSub ==
    ASSUME NEW f \in [Places -> Nat], NEW p \in Places, IsFiniteSet(Kept(f)), f[p] > 0
    PROVE  /\ Sub(f, p) \in [Places -> Nat]
           /\ IsFiniteSet(Kept(Sub(f, p)))
           /\ Cardinality(Kept(Sub(f, p))) = Cardinality(Kept(f)) - 1
<1> DEFINE g == Sub(f, p)
           x == <<p, f[p]>>
<1>1. g \in [Places -> Nat] /\ g[p] = f[p] - 1 /\ \A q \in Places \ {p} : g[q] = f[q]
  BY DEF Sub
<1>2. \A q, i : <<q, i>> \in Kept(g) <=> q \in Places /\ i \in 1..g[q]
  BY <1>1 DEF Kept
<1>3. \A q, i : <<q, i>> \in Kept(f) <=> q \in Places /\ i \in 1..f[q]
  BY DEF Kept
<1>4. 1..g[p] = (1..f[p]) \ {f[p]} /\ f[p] \in 1..f[p]
  BY <1>1
<1>5. x \in Kept(f)
  BY <1>3, <1>4
<1>6. \A q, i : <<q, i>> \in Kept(g) <=> <<q, i>> \in Kept(f) \ {x}
  BY <1>1, <1>2, <1>3, <1>4
<1>7. Kept(g) = Kept(f) \ {x}
  <2>1. \A e \in Kept(g) : \E q, i : e = <<q, i>>
    BY DEF Kept
  <2>2. \A e \in Kept(f) : \E q, i : e = <<q, i>>
    BY DEF Kept
  <2> QED BY <1>6, <2>1, <2>2
<1> QED BY <1>1, <1>5, <1>7, FS_RemoveElement

LeakInv ==
    /\ h2conns \in [Places -> Nat] /\ IsFiniteSet(Kept(h2conns))
    /\ h1idle \in [Places -> Nat] /\ IsFiniteSet(Kept(h1idle))
    /\ DOMAIN pc = Calls /\ IsFiniteSet(InHand)
    /\ client \in [Calls -> Names] /\ host \in [Calls -> Hosts]
    /\ NoLeak

\* Where a call holds a socket for itself.
Holding == {"h2 hello", "h1 hello", "h1 sent"}

\* A call that goes somewhere takes a socket in hand, lets go of it, or neither.
LEMMA InHandGo ==
    ASSUME DOMAIN pc = Calls, IsFiniteSet(InHand), NEW c \in Calls, NEW where, Go(c, where)
    PROVE  /\ DOMAIN pc' = Calls
           /\ IsFiniteSet(InHand')
           /\ where \in Holding /\ pc[c] \notin Holding =>
                 Cardinality(InHand') = Cardinality(InHand) + 1
           /\ where \notin Holding /\ pc[c] \in Holding =>
                 Cardinality(InHand') = Cardinality(InHand) - 1
           /\ (where \in Holding <=> pc[c] \in Holding) =>
                 Cardinality(InHand') = Cardinality(InHand)
<1>1. DOMAIN pc' = Calls /\ pc'[c] = where /\ \A d \in Calls \ {c} : pc'[d] = pc[d]
  BY DEF Go
<1>2. \A d : d \in InHand <=> d \in Calls /\ pc[d] \in Holding
  BY DEF InHand, Holding
<1>3. \A d : d \in InHand' <=> d \in Calls /\ pc'[d] \in Holding
  BY DEF InHand, Holding
<1>4. CASE where \in Holding
  <2>1. InHand' = InHand \cup {c}
    BY <1>1, <1>2, <1>3, <1>4
  <2>2. /\ IsFiniteSet(InHand')
        /\ Cardinality(InHand') = IF c \in InHand THEN Cardinality(InHand) ELSE Cardinality(InHand) + 1
    BY <2>1, FS_AddElement
  <2> QED BY <1>1, <1>2, <1>4, <2>2
<1>5. CASE where \notin Holding
  <2>1. InHand' = InHand \ {c}
    BY <1>1, <1>2, <1>3, <1>5
  <2>2. /\ IsFiniteSet(InHand')
        /\ Cardinality(InHand') = IF c \in InHand THEN Cardinality(InHand) - 1 ELSE Cardinality(InHand)
    BY <2>1, FS_RemoveElement
  <2> QED BY <1>1, <1>2, <1>5, <2>2
<1> QED BY <1>4, <1>5

LEMMA LeakInvStep ==
    ASSUME LeakInv, [Next]_vars
    PROVE  LeakInv'
<1> USE DEF connVars, callVars, reqVars
<1>1. /\ Cardinality(Kept(h2conns)) \in Nat
      /\ Cardinality(Kept(h1idle)) \in Nat
      /\ Cardinality(InHand) \in Nat
      /\ open = Cardinality(Kept(h2conns)) + Cardinality(Kept(h1idle)) + Cardinality(InHand)
  BY FS_CardinalityType DEF LeakInv, NoLeak
<1>2. \A c \in Calls : At(c) \in Places
  BY DEF LeakInv, At, Places
<1>3. ASSUME UNCHANGED <<connVars, pc, client, host>>
      PROVE  LeakInv'
  BY <1>3 DEF LeakInv, NoLeak, InHand
<1>4. ASSUME /\ h2conns' \in [Places -> Nat] /\ IsFiniteSet(Kept(h2conns'))
             /\ h1idle' \in [Places -> Nat] /\ IsFiniteSet(Kept(h1idle'))
             /\ DOMAIN pc' = Calls /\ IsFiniteSet(InHand')
             /\ UNCHANGED <<client, host>>
             /\ open' = Cardinality(Kept(h2conns')) + Cardinality(Kept(h1idle'))
                          + Cardinality(InHand')
      PROVE  LeakInv'
  BY <1>4 DEF LeakInv, NoLeak
\* The dial and the exchange of one call, by what becomes of its socket.
<1>5. ASSUME NEW c \in Calls, NEW where, Go(c, where), UNCHANGED <<h2conns, h1idle, client, host>>,
             \/ (where \in Holding <=> pc[c] \in Holding) /\ open' = open
             \/ where \in Holding /\ pc[c] \notin Holding /\ open' = open + 1
             \/ where \notin Holding /\ pc[c] \in Holding /\ open' = open - 1
      PROVE  LeakInv'
  <2>1. /\ DOMAIN pc' = Calls
        /\ IsFiniteSet(InHand')
        /\ where \in Holding /\ pc[c] \notin Holding => Cardinality(InHand') = Cardinality(InHand) + 1
        /\ where \notin Holding /\ pc[c] \in Holding => Cardinality(InHand') = Cardinality(InHand) - 1
        /\ (where \in Holding <=> pc[c] \in Holding) => Cardinality(InHand') = Cardinality(InHand)
    BY <1>5, InHandGo DEF LeakInv
  <2>2. open' = Cardinality(Kept(h2conns)) + Cardinality(Kept(h1idle)) + Cardinality(InHand')
    BY <1>1, <1>5, <2>1
  <2> QED BY <1>5, <2>1, <2>2 DEF LeakInv, NoLeak
<1>6. ASSUME ServerChanges \/ UNCHANGED vars
      PROVE  LeakInv'
  BY <1>3, <1>6 DEF ServerChanges, vars
<1>7. ASSUME NEW p \in Names \X Hosts, IdleCloses(p)
      PROVE  LeakInv'
  <2>1. CASE h1idle[p] > 0 /\ h1idle' = Sub(h1idle, p) /\ UNCHANGED h2conns
    <3>1. /\ h1idle' \in [Places -> Nat] /\ IsFiniteSet(Kept(h1idle'))
          /\ Cardinality(Kept(h1idle')) = Cardinality(Kept(h1idle)) - 1
      BY <2>1, KeptSub DEF LeakInv, Places
    <3>2. open' = open - 1 /\ UNCHANGED <<pc, client, host>>
      BY <1>7 DEF IdleCloses
    <3>3. InHand' = InHand
      BY <3>2 DEF InHand
    <3>4. /\ Cardinality(Kept(h1idle')) = Cardinality(Kept(h1idle)) - 1
          /\ Cardinality(InHand') = Cardinality(InHand)
          /\ h2conns' = h2conns /\ open' = open - 1
      BY <2>1, <3>1, <3>2, <3>3
    <3>5. open' = Cardinality(Kept(h2conns')) + Cardinality(Kept(h1idle')) + Cardinality(InHand')
      BY <1>1, <3>4
    <3> QED BY <1>4, <2>1, <3>1, <3>2, <3>3, <3>5 DEF LeakInv
  <2>2. CASE h2conns[p] > 0 /\ h2conns' = Sub(h2conns, p) /\ UNCHANGED h1idle
    <3>1. /\ h2conns' \in [Places -> Nat] /\ IsFiniteSet(Kept(h2conns'))
          /\ Cardinality(Kept(h2conns')) = Cardinality(Kept(h2conns)) - 1
      BY <2>2, KeptSub DEF LeakInv, Places
    <3>2. open' = open - 1 /\ UNCHANGED <<pc, client, host>>
      BY <1>7 DEF IdleCloses
    <3>3. InHand' = InHand
      BY <3>2 DEF InHand
    <3>4. /\ Cardinality(Kept(h2conns')) = Cardinality(Kept(h2conns)) - 1
          /\ Cardinality(InHand') = Cardinality(InHand)
          /\ h1idle' = h1idle /\ open' = open - 1
      BY <2>2, <3>1, <3>2, <3>3
    <3>5. open' = Cardinality(Kept(h2conns')) + Cardinality(Kept(h1idle')) + Cardinality(InHand')
      BY <1>1, <3>4
    <3> QED BY <1>4, <2>2, <3>1, <3>2, <3>3, <3>5 DEF LeakInv
  <2> QED BY <1>7, <2>1, <2>2 DEF IdleCloses
<1>8. ASSUME NEW c \in Calls, NEW n \in Names, NEW h \in Hosts, Call(c, n, h)
      PROVE  LeakInv'
  <2>1. pc[c] \notin Holding /\ "route" \notin Holding /\ Go(c, "route") /\ UNCHANGED connVars
    BY <1>8 DEF Call, Holding
  <2>2. client' \in [Calls -> Names] /\ host' \in [Calls -> Hosts]
    BY <1>8 DEF Call, LeakInv
  <2>3. /\ DOMAIN pc' = Calls /\ IsFiniteSet(InHand')
        /\ Cardinality(InHand') = Cardinality(InHand)
    BY <2>1, InHandGo DEF LeakInv
  <2> QED BY <2>1, <2>2, <2>3 DEF LeakInv, NoLeak
<1>9. ASSUME NEW c \in Calls, RoundTrip(c)
      PROVE  LeakInv'
  <2>1. CASE Route(c)
    <3>1. PICK where \in {"h1", "h2"} : Go(c, where)
      BY <2>1 DEF Route
    <3> QED BY <1>5, <2>1, <3>1 DEF Route, Holding
  <2>2. CASE FallBack(c) \/ DialStart(c) \/ HandshakeFails(c) \/ NotH2(c)
    BY <1>5, <2>2 DEF FallBack, DialStart, HandshakeFails, NotH2, Holding
  <2>3. CASE StoreTicket(c)
    BY <1>3, <2>3 DEF StoreTicket
  <2>4. CASE Reuse(c)
    <3>1. CASE pc[c] = "h2"
      BY <1>5, <2>4, <3>1 DEF Reuse, Holding
    <3>2. CASE pc[c] = "h1"
      <4>1. /\ h1idle[At(c)] > 0 /\ h1idle' = Sub(h1idle, At(c)) /\ Go(c, "h1 sent")
            /\ UNCHANGED <<h2conns, open, client, host>>
        BY <2>4, <3>2 DEF Reuse
      <4>2. /\ h1idle' \in [Places -> Nat] /\ IsFiniteSet(Kept(h1idle'))
            /\ Cardinality(Kept(h1idle')) = Cardinality(Kept(h1idle)) - 1
        BY <1>2, <4>1, KeptSub DEF LeakInv
      <4>3. pc[c] \notin Holding /\ "h1 sent" \in Holding
        BY <3>2 DEF Holding
      <4>4. /\ DOMAIN pc' = Calls /\ IsFiniteSet(InHand')
            /\ Cardinality(InHand') = Cardinality(InHand) + 1
        BY <4>1, <4>3, InHandGo DEF LeakInv
      <4>5. /\ Cardinality(Kept(h1idle')) = Cardinality(Kept(h1idle)) - 1
            /\ Cardinality(InHand') = Cardinality(InHand) + 1
            /\ h2conns' = h2conns /\ open' = open
        BY <4>1, <4>2, <4>4
      <4>6. open' = Cardinality(Kept(h2conns')) + Cardinality(Kept(h1idle')) + Cardinality(InHand')
        BY <1>1, <4>5
      <4> QED BY <1>4, <4>1, <4>2, <4>4, <4>6 DEF LeakInv
    <3> QED BY <2>4, <3>1, <3>2 DEF Reuse
  <2>5. CASE Connected(c)
    <3>1. CASE pc[c] = "h1 hello"
      BY <1>5, <2>5, <3>1 DEF Connected, Holding
    <3>2. CASE pc[c] = "h2 hello"
      <4>1. /\ h2conns' = Add(h2conns, At(c)) /\ Go(c, "h2 sent")
            /\ UNCHANGED <<h1idle, open, client, host>>
        BY <2>5, <3>2 DEF Connected
      <4>2. /\ h2conns' \in [Places -> Nat] /\ IsFiniteSet(Kept(h2conns'))
            /\ Cardinality(Kept(h2conns')) = Cardinality(Kept(h2conns)) + 1
        BY <1>2, <4>1, KeptAdd DEF LeakInv
      <4>3. pc[c] \in Holding /\ "h2 sent" \notin Holding
        BY <3>2 DEF Holding
      <4>4. /\ DOMAIN pc' = Calls /\ IsFiniteSet(InHand')
            /\ Cardinality(InHand') = Cardinality(InHand) - 1
        BY <4>1, <4>3, InHandGo DEF LeakInv
      <4>5. /\ Cardinality(Kept(h2conns')) = Cardinality(Kept(h2conns)) + 1
            /\ Cardinality(InHand') = Cardinality(InHand) - 1
            /\ h1idle' = h1idle /\ open' = open
        BY <4>1, <4>2, <4>4
      <4>6. open' = Cardinality(Kept(h2conns')) + Cardinality(Kept(h1idle')) + Cardinality(InHand')
        BY <1>1, <4>5
      <4> QED BY <1>4, <4>1, <4>2, <4>4, <4>6 DEF LeakInv
    <3> QED BY <2>5, <3>1, <3>2 DEF Connected
  <2>6. CASE Answered(c)
    <3>1. Go(c, "idle") /\ "idle" \notin Holding /\ UNCHANGED <<client, host>>
      BY <2>6 DEF Answered, Holding
    <3>2. CASE pc[c] = "h2 sent" /\ UNCHANGED connVars
      BY <1>5, <3>1, <3>2 DEF Holding
    <3>3. CASE /\ pc[c] = "h2 sent" /\ h2conns[At(c)] > 0 /\ h2conns' = Sub(h2conns, At(c))
               /\ open' = open - 1 /\ UNCHANGED h1idle
      <4>1. /\ h2conns' \in [Places -> Nat] /\ IsFiniteSet(Kept(h2conns'))
            /\ Cardinality(Kept(h2conns')) = Cardinality(Kept(h2conns)) - 1
        BY <1>2, <3>3, KeptSub DEF LeakInv
      <4>2. pc[c] \notin Holding
        BY <3>3 DEF Holding
      <4>3. /\ DOMAIN pc' = Calls /\ IsFiniteSet(InHand')
            /\ Cardinality(InHand') = Cardinality(InHand)
        BY <3>1, <4>2, InHandGo DEF LeakInv
      <4>5. /\ Cardinality(Kept(h2conns')) = Cardinality(Kept(h2conns)) - 1
            /\ Cardinality(InHand') = Cardinality(InHand)
            /\ h1idle' = h1idle /\ open' = open - 1
        BY <3>1, <3>3, <4>1, <4>3
      <4>6. open' = Cardinality(Kept(h2conns')) + Cardinality(Kept(h1idle')) + Cardinality(InHand')
        BY <1>1, <4>5
      <4> QED BY <1>4, <3>1, <3>3, <4>1, <4>3, <4>6 DEF LeakInv
    <3>4. CASE pc[c] = "h1 sent" /\ UNCHANGED <<h2conns, h1idle>> /\ open' = open - 1
      BY <1>5, <3>1, <3>4 DEF Holding
    <3>5. CASE pc[c] = "h1 sent" /\ h1idle' = Add(h1idle, At(c)) /\ UNCHANGED <<h2conns, open>>
      <4>1. /\ h1idle' \in [Places -> Nat] /\ IsFiniteSet(Kept(h1idle'))
            /\ Cardinality(Kept(h1idle')) = Cardinality(Kept(h1idle)) + 1
        BY <1>2, <3>5, KeptAdd DEF LeakInv
      <4>2. pc[c] \in Holding
        BY <3>5 DEF Holding
      <4>3. /\ DOMAIN pc' = Calls /\ IsFiniteSet(InHand')
            /\ Cardinality(InHand') = Cardinality(InHand) - 1
        BY <3>1, <4>2, InHandGo DEF LeakInv
      <4>5. /\ Cardinality(Kept(h1idle')) = Cardinality(Kept(h1idle)) + 1
            /\ Cardinality(InHand') = Cardinality(InHand) - 1
            /\ h2conns' = h2conns /\ open' = open
        BY <3>1, <3>5, <4>1, <4>3
      <4>6. open' = Cardinality(Kept(h2conns')) + Cardinality(Kept(h1idle')) + Cardinality(InHand')
        BY <1>1, <4>5
      <4> QED BY <1>4, <3>1, <3>5, <4>1, <4>3, <4>6 DEF LeakInv
    <3> QED BY <2>6, <3>2, <3>3, <3>4, <3>5 DEF Answered
  <2> QED BY <1>9, <2>1, <2>2, <2>3, <2>4, <2>5, <2>6 DEF RoundTrip
<1> QED BY <1>6, <1>7, <1>8, <1>9 DEF Next

LEMMA LeakInvInit == Init => LeakInv
<1> SUFFICES ASSUME Init PROVE LeakInv
  OBVIOUS
<1>1. \A f : f = [p \in Places |-> 0] => Kept(f) = {}
  <2> SUFFICES ASSUME NEW f, f = [p \in Places |-> 0], NEW p \in DOMAIN f
               PROVE  {p} \X (1..f[p]) = {}
    BY DEF Kept
  <2>1. f[p] = 0 /\ 1..0 = {}
    OBVIOUS
  <2> QED BY <2>1
<1>2. Kept(h2conns) = {} /\ Kept(h1idle) = {} /\ InHand = {}
  BY <1>1 DEF Init, InHand, Places
<1> QED BY <1>2, FS_EmptySet DEF Init, LeakInv, NoLeak, Places

\* No return of the dial, no fall-back and no failed exchange leaves a socket
\* that neither a transport nor a call has: for any number of calls and hosts.
THEOREM SocketsAccounted == Spec => []NoLeak
<1>1. Init => LeakInv
  BY LeakInvInit
<1>2. LeakInv => NoLeak
  BY DEF LeakInv
<1> QED BY <1>1, <1>2, LeakInvStep, PTL DEF Spec

------------------------------------------------------------------------------
\* The store holds no more than it may, whatever is evicted, and only tickets
\* that some client was given by some host.
HeldInv ==
    /\ IsFiniteSet(DOMAIN tickets) /\ Cardinality(DOMAIN tickets) <= MaxTickets
    /\ DOMAIN tickets \subseteq KnownNames \X Hosts
    /\ \A k \in DOMAIN tickets : tickets[k] \in Tickets

\* A client's key names a scope, and its ticket is one of the tickets.
LEMMA KeyTypes ==
    ASSUME NEW n \in Names, NEW h \in Hosts
    PROVE  /\ TicketKey(n, h) \in KnownNames \X Hosts
           /\ [hello |-> HelloOf(n), host |-> h] \in Tickets
<1>1. resumptionScope(n) \in KnownNames
  BY TransportAssumption DEF resumptionScope, KnownNames
<1> QED BY <1>1 DEF TicketKey, Tickets

\* What is stored takes one place, and pushes another out where there is none.
LEMMA StoreIsBounded ==
    ASSUME HeldInv, StoreInv, NEW c \in Calls, StoreTicket(c)
    PROVE  HeldInv'
<1> DEFINE key == TicketKey(client[c], host[c])
           t == [hello |-> HelloOf(client[c]), host |-> host[c]]
           others == DOMAIN tickets \ {key}
<1>1. key \in KnownNames \X Hosts /\ t \in Tickets
  BY KeyTypes DEF StoreInv
<1>2. PICK kept \in SUBSET others :
        /\ Cardinality(kept) =
             (IF Cardinality(others) < MaxTickets THEN Cardinality(others) ELSE MaxTickets - 1)
        /\ tickets' = [k \in kept \cup {key} |-> IF k = key THEN t ELSE tickets[k]]
  BY DEF StoreTicket
<1> HIDE DEF key, t
<1>3. IsFiniteSet(others) /\ IsFiniteSet(kept) /\ key \notin kept
  BY <1>2, FS_Subset DEF HeldInv
<1>4. /\ IsFiniteSet(kept \cup {key})
      /\ Cardinality(kept \cup {key}) = Cardinality(kept) + 1
  BY <1>3, FS_AddElement
<1>5. Cardinality(others) \in Nat
  BY <1>3, FS_CardinalityType
<1>6. Cardinality(kept) + 1 <= MaxTickets
  BY <1>2, <1>5, TransportAssumption
<1>7. DOMAIN tickets' = kept \cup {key}
  BY <1>2
<1>8. \A k \in DOMAIN tickets' : tickets'[k] \in Tickets
  BY <1>1, <1>2, <1>7 DEF HeldInv
<1>9. DOMAIN tickets' \subseteq KnownNames \X Hosts
  BY <1>1, <1>7 DEF HeldInv
<1> QED BY <1>4, <1>6, <1>7, <1>8, <1>9 DEF HeldInv

LEMMA HeldInvStep == HeldInv /\ StoreInv /\ [Next]_vars => HeldInv'
<1> SUFFICES ASSUME HeldInv, StoreInv, [Next]_vars
             PROVE  HeldInv'
  OBVIOUS
<1>1. UNCHANGED tickets => HeldInv'
  BY DEF HeldInv
<1>2. ASSUME NEW c \in Calls, HandshakeFails(c)
      PROVE  HeldInv'
  <2>1. /\ DOMAIN tickets' \subseteq DOMAIN tickets
        /\ \A k \in DOMAIN tickets' : tickets'[k] = tickets[k]
    BY <1>2 DEF HandshakeFails
  <2>2. /\ IsFiniteSet(DOMAIN tickets')
        /\ Cardinality(DOMAIN tickets') <= Cardinality(DOMAIN tickets)
    BY <2>1, FS_Subset DEF HeldInv
  <2>3. Cardinality(DOMAIN tickets') \in Nat /\ Cardinality(DOMAIN tickets) \in Nat
    BY <2>2, FS_CardinalityType DEF HeldInv
  <2>4. Cardinality(DOMAIN tickets') <= MaxTickets
    BY <2>2, <2>3, TransportAssumption DEF HeldInv
  <2> QED BY <2>1, <2>2, <2>4 DEF HeldInv
<1>3. ASSUME NEW c \in Calls, RoundTrip(c)
      PROVE  HeldInv'
  BY <1>1, <1>2, <1>3, StoreIsBounded
     DEF RoundTrip, Route, Reuse, FallBack, DialStart, NotH2, Connected, Answered
<1>4. ASSUME \/ ServerChanges \/ UNCHANGED vars
             \/ \E p \in Names \X Hosts : IdleCloses(p)
             \/ \E c \in Calls, n \in Names, h \in Hosts : Call(c, n, h)
      PROVE  HeldInv'
  BY <1>1, <1>4 DEF ServerChanges, IdleCloses, Call, vars
<1> QED BY <1>3, <1>4 DEF Next

\* The types of what no other invariant speaks of.
CallTypes ==
    /\ speaksH2 \subseteq Hosts
    /\ h1Only \in [Names -> SUBSET Hosts]
    /\ refused \subseteq Names \X Hosts
    /\ pc \in [Calls -> {"idle", "route", "h2", "h2 hello", "no h2", "h2 sent",
                         "h1", "h1 hello", "h1 sent"}]
    /\ alpn \in [Calls -> {"none", "h2", "http/1.1"}]
    /\ offered \in [Calls -> SUBSET Tickets]
    /\ settled \in [Calls -> BOOLEAN]
    /\ sent \in [Calls -> {0, 1}]

LEMMA CallTypesStep == CallTypes /\ HeldInv /\ CallInv /\ StoreInv /\ [Next]_vars => CallTypes'
<1> SUFFICES ASSUME CallTypes, HeldInv, CallInv, StoreInv, [Next]_vars
             PROVE  CallTypes'
  OBVIOUS
<1> USE DEF connVars, callVars, reqVars
<1>1. sent' \in [Calls -> {0, 1}]
  <2>1. CallInv'
    BY CallInvStep
  <2>2. sent' = [c \in DOMAIN sent' |-> sent'[c]]
    BY DEF CallTypes, Next, vars, ServerChanges, IdleCloses, Call, RoundTrip, Route, Reuse,
           FallBack, DialStart, HandshakeFails, NotH2, Connected, StoreTicket, Answered, Add
  <2> QED BY <2>1, <2>2 DEF CallInv
<1>2. ASSUME UNCHANGED <<h1Only, refused, pc, alpn, offered, settled>>, speaksH2' \subseteq Hosts
      PROVE  CallTypes'
  BY <1>1, <1>2 DEF CallTypes
<1>3. ASSUME NEW c \in Calls, NEW n \in Names, NEW h \in Hosts, Call(c, n, h)
      PROVE  CallTypes'
  <2>1. (<<n, h>> \in refused) \in BOOLEAN
    OBVIOUS
  <2>2. settled' \in [Calls -> BOOLEAN]
    BY <1>3, <2>1 DEF Call, CallTypes
  <2>3. /\ UNCHANGED <<speaksH2, h1Only, refused, alpn, offered>>
        /\ pc' = [pc EXCEPT ![c] = "route"]
    BY <1>3 DEF Call, Go
  <2> QED BY <1>1, <2>2, <2>3 DEF CallTypes
<1>4. ASSUME NEW c \in Calls, RoundTrip(c)
      PROVE  CallTypes'
  <2>1. client[c] \in Names /\ host[c] \in Hosts
    BY DEF StoreInv
  <2>2. CASE Route(c) \/ StoreTicket(c)
    BY <1>1, <2>2 DEF Route, StoreTicket, Go, CallTypes
  <2>3. CASE FallBack(c)
    <3>1. h1Only[client[c]] \cup {host[c]} \in SUBSET Hosts
      BY <2>1 DEF CallTypes
    <3>2. h1Only' \in [Names -> SUBSET Hosts]
      BY <2>1, <2>3, <3>1 DEF FallBack, CallTypes
    <3>3. refused' \subseteq Names \X Hosts
      <4>1. refused' = refused \cup {<<client[c], host[c]>>}
        BY <2>3 DEF FallBack, At
      <4>2. <<client[c], host[c]>> \in Names \X Hosts
        BY <2>1
      <4> QED BY <4>1, <4>2 DEF CallTypes
    <3> QED BY <1>1, <2>3, <3>2, <3>3 DEF FallBack, Go, CallTypes
  <2>4. CASE Reuse(c) \/ Answered(c) \/ NotH2(c) \/ HandshakeFails(c)
    BY <1>1, <2>4 DEF Reuse, Answered, NotH2, HandshakeFails, Go, CallTypes
  <2>5. CASE Connected(c)
    BY <1>1, <2>5 DEF Connected, Negotiated, Go, CallTypes
  <2>6. CASE DialStart(c)
    <3> DEFINE key == TicketKey(client[c], host[c])
               new == IF Resumes(client[c]) /\ key \in DOMAIN tickets THEN {tickets[key]} ELSE {}
    <3>1. new \in SUBSET Tickets
      BY DEF HeldInv
    <3>2. UNCHANGED <<speaksH2, h1Only, refused, settled, alpn>>
      BY <2>6 DEF DialStart
    <3> HIDE DEF new
    <3>3. CASE Go(c, "idle") /\ UNCHANGED offered
      BY <1>1, <3>2, <3>3 DEF Go, CallTypes
    <3>4. CASE /\ offered' = [offered EXCEPT ![c] = new]
               /\ Go(c, IF pc[c] = "h2" THEN "h2 hello" ELSE "h1 hello")
      BY <1>1, <3>1, <3>2, <3>4 DEF Go, CallTypes
    <3> QED BY <2>6, <3>3, <3>4 DEF DialStart, new
  <2> QED BY <1>4, <2>2, <2>3, <2>4, <2>5, <2>6 DEF RoundTrip
<1>5. ASSUME \/ ServerChanges \/ UNCHANGED vars \/ \E p \in Names \X Hosts : IdleCloses(p)
      PROVE  CallTypes'
  BY <1>2, <1>5 DEF ServerChanges, IdleCloses, vars, CallTypes
<1> QED BY <1>3, <1>4, <1>5 DEF Next

\* Every variable of the transport keeps its type: in particular the store
\* never holds more tickets than its bound (resumption.go:18), the counts of
\* connections never fall below zero, and what a call offers is a ticket.
THEOREM TypesKept == Spec => []TypeOK
<1>1. Init => CallInv /\ StoreInv /\ LeakInv
  BY CallInvInit, StoreInvInit, LeakInvInit
<1>2. Init => HeldInv /\ CallTypes
  <2> SUFFICES ASSUME Init PROVE HeldInv /\ CallTypes
    OBVIOUS
  <2>1. DOMAIN tickets = {}
    BY DEF Init
  <2>2. HeldInv
    BY <2>1, FS_EmptySet, TransportAssumption DEF HeldInv
  <2> QED BY <2>2 DEF Init, CallTypes
<1>3. CallInv /\ StoreInv /\ LeakInv /\ HeldInv /\ CallTypes => TypeOK
  <2> SUFFICES ASSUME CallInv, StoreInv, LeakInv, HeldInv, CallTypes PROVE TypeOK
    OBVIOUS
  <2>1. open \in Nat
    BY FS_CardinalityType DEF LeakInv, NoLeak
  <2>2. /\ h2conns \in [Names \X Hosts -> Nat] /\ h1idle \in [Names \X Hosts -> Nat]
        /\ client \in [Calls -> Names] /\ host \in [Calls -> Hosts]
    BY DEF StoreInv, LeakInv, Places
  <2>3. sent \in [Calls -> Nat]
    <3>1. \A c \in Calls : sent[c] \in Nat
      BY DEF CallInv
    <3> QED BY <3>1 DEF CallTypes
  <2> QED BY <2>1, <2>2, <2>3 DEF HeldInv, CallTypes, TypeOK
<1>4. CallInv /\ StoreInv /\ LeakInv /\ HeldInv /\ CallTypes /\ [Next]_vars
        => CallInv' /\ StoreInv' /\ LeakInv' /\ HeldInv' /\ CallTypes'
  BY CallInvStep, StoreInvStep, LeakInvStep, HeldInvStep, CallTypesStep
<1> QED BY <1>1, <1>2, <1>3, <1>4, PTL DEF Spec

==============================================================================
