------------------------------- MODULE FpdFront -------------------------------
(***************************************************************************)
(* cmd/fpd: a goroutine takes the PROXY header and the ClientHello off a   *)
(* connection, lists what it found under the connection, and hands it to   *)
(* an HTTP server through a channel; a sniffer keeps what it sees of each  *)
(* client's packets; a report joins the two and is kept for /fp/recent.    *)
(*                                                                         *)
(* A client is its address, the port its packets carry on the wire (a      *)
(* hairpin NAT rewrites it), how it is connected and the records of its    *)
(* hello.  Packets are sniffed late, or dropped by the packet socket.  A   *)
(* tick is 15 minutes, the life of an entry; what was seen in the tick may *)
(* be as new as lookup's 30 seconds ask.  A torn read of an entry is one   *)
(* between two of its fields.                                              *)
(***************************************************************************)
EXTENDS FpdHello

CONSTANTS
    Conns,      \* the connections
    Handlers,   \* the goroutines that serve requests
    Clients,    \* what connects: [ip, port, wire, via, records]
    Size,       \* the length of a hello's body
    MaxRecent,  \* the reports that are kept: 50
    MaxFlows,   \* bound: entries the sniffer makes
    MaxTime     \* bound: ticks

Fresh == 0
Kept == 1
NoConn == 0

ASSUME FpdAssumption ==
    /\ NoConn \notin Conns /\ MaxRecent \in Nat \ {0} /\ MaxFlows \in Nat /\ MaxTime \in Nat
    /\ \A k \in Clients : k.ip \in Nat /\ k.port \in Nat /\ k.wire \in Nat

VARIABLES
    pc,      \* where a connection is
    client,  \* who is at its other end
    meta,    \* metaStore.m
    ctx,     \* what ConnContext put in the context of a connection's requests
    now,
    flows,   \* sniffer.flows: address -> the entry it points to
    info,    \* the entries made: whose packet was last, whose SYN, and when
    at,      \* where a handler is
    rep,     \* the report it builds
    found,   \* the entry it got from lookup, or 0
    recent   \* reportBuilder.recent

connVars == <<pc, client, meta, ctx>>
sniffVars == <<flows, info>>
reportVars == <<at, rep, found, recent>>
vars == <<connVars, now, sniffVars, reportVars>>

Address(c) == IF client[c].via = "direct" THEN <<client[c].ip, client[c].wire>>
              ELSE <<client[c].ip, client[c].port>>
Wire(c) == <<client[c].ip, client[c].wire>>
Replay(c) == readHelloRecords(client[c].records, Size)

Metas == [hello : Conns, addr : Nat \X Nat, local : BOOLEAN]
NoMeta == [hello |-> NoConn, addr |-> <<0, 0>>, local |-> FALSE]
NoFacts == [ttl |-> NoConn, syn |-> NoConn, exact |-> FALSE]
EmptyReport == [conn |-> NoConn, meta |-> NoMeta, facts |-> NoFacts, time |-> 0]

TypeOK ==
    /\ pc \in [Conns -> {"off", "front", "queued", "accepted", "serving", "up", "closed"}]
    /\ client \in [Conns -> Clients]
    /\ DOMAIN meta \subseteq Conns
    /\ \A c \in DOMAIN meta : meta[c] \in Metas
    /\ ctx \in [Conns -> Metas \cup {NoMeta}]
    /\ now \in 0..MaxTime
    /\ \A k \in DOMAIN flows : flows[k] \in DOMAIN info
    /\ Len(info) <= MaxFlows
    /\ at \in [Handlers -> {"idle", "lookup", "ttl", "syn", "built"}]
    /\ found \in [Handlers -> 0..MaxFlows]
    /\ Len(recent) <= MaxRecent

Init ==
    /\ pc = [c \in Conns |-> "off"]
    /\ client \in [Conns -> Clients]
    /\ meta = [c \in {} |-> NoMeta]
    /\ ctx = [c \in Conns |-> NoMeta]
    /\ now = 0
    /\ flows = [k \in {} |-> 0] /\ info = <<>>
    /\ at = [h \in Handlers |-> "idle"]
    /\ rep = [h \in Handlers |-> EmptyReport]
    /\ found = [h \in Handlers |-> 0]
    /\ recent = <<>>

\* m[k] = v, of a map.
Assigned(m, k, v) == [x \in DOMAIN m \cup {k} |-> IF x = k THEN v ELSE m[x]]

Go(c, from, to) == pc[c] = from /\ pc' = [pc EXCEPT ![c] = to]

Tick == now < MaxTime /\ now' = now + 1 /\ UNCHANGED <<connVars, sniffVars, reportVars>>

------------------------------------------------------------------------------
(* A connection, up to the HTTP server.                                    *)

Accept(c) == Go(c, "off", "front") /\ UNCHANGED <<client, meta, ctx, now, sniffVars, reportVars>>

\* handshakeFront fails: the stream ends, or does not hold a hello.
FrontFails(c) ==
    /\ Go(c, "front", "closed")
    /\ UNCHANGED <<client, meta, ctx, now, sniffVars, reportVars>>

\* Mutated form of Put: the connection is sent off first.
PutAfterSend(c) ==
    /\ \/ Go(c, "front", "queued") /\ UNCHANGED meta
       \/ /\ pc[c] \in {"accepted", "serving", "up", "closed"} /\ c \notin DOMAIN meta
          /\ meta' = Assigned(meta, c, [hello |-> c, addr |-> Address(c), local |-> FALSE])
          /\ UNCHANGED pc
    /\ UNCHANGED <<client, ctx, now, sniffVars, reportVars>>

\* The hello was read and parsed; with LOCAL there is no address.
Put(c) ==
    /\ Go(c, "front", "queued")
    /\ Replay(c) # NoHello
    /\ meta' = Assigned(meta, c,
                  IF client[c].via = "local" THEN [hello |-> c, addr |-> <<0, 0>>, local |-> TRUE]
                  ELSE [hello |-> c, addr |-> Address(c), local |-> FALSE])
    /\ UNCHANGED <<client, ctx, now, sniffVars, reportVars>>

\* ch <- tlsConn meets channelListener.Accept.
HandOver(c) ==
    /\ Go(c, "queued", "accepted")
    /\ UNCHANGED <<client, meta, ctx, now, sniffVars, reportVars>>

\* net/http asks for the context of the connection it has accepted.
ConnContext(c) ==
    /\ Go(c, "accepted", "serving")
    /\ ctx' = [ctx EXCEPT ![c] = IF c \in DOMAIN meta THEN meta[c] ELSE NoMeta]
    /\ UNCHANGED <<client, meta, now, sniffVars, reportVars>>

Handshake(c) ==
    /\ ServerReads(Replay(c))
    /\ Go(c, "serving", "up")
    /\ UNCHANGED <<client, meta, ctx, now, sniffVars, reportVars>>

\* The server closes a connection whose handshake failed or whose client has
\* gone: replayConn.Close.
Close(c) ==
    /\ Go(c, "serving", "closed") \/ Go(c, "up", "closed")
    /\ meta' = [d \in DOMAIN meta \ {c} |-> meta[d]]
    /\ UNCHANGED <<client, ctx, now, sniffVars, reportVars>>

------------------------------------------------------------------------------
(* The sniffer.                                                            *)

\* handle and record, for a packet of c.
Record(c, isSyn) ==
    /\ pc[c] # "off"
    /\ LET known == Wire(c) \in DOMAIN flows
           n == IF known THEN flows[Wire(c)] ELSE Len(info) + 1
           syn == IF isSyn THEN c ELSE IF known THEN info[n].syn ELSE NoConn
           entry == [ttl |-> c, syn |-> syn, last |-> now]
       IN /\ n <= MaxFlows
          /\ flows' = Assigned(flows, Wire(c), n)
          /\ info' = IF known THEN [info EXCEPT ![n] = entry] ELSE Append(info, entry)
    /\ UNCHANGED <<connVars, now, reportVars>>

\* Once a minute: entries not seen for 15 minutes go.
Purge ==
    /\ \E k \in DOMAIN flows : now - info[flows[k]].last > Kept
    /\ flows' = [k \in {q \in DOMAIN flows : now - info[flows[q]].last <= Kept} |-> flows[k]]
    /\ UNCHANGED <<connVars, now, info, reportVars>>

\* Mutated form of Near: entries of any address.
NearAnyone(a) == {flows[k] : k \in {q \in DOMAIN flows : now - info[flows[q]].last <= Fresh}}

\* The entries of the same IP seen within 30 seconds.
Near(a) == {flows[k] : k \in {q \in DOMAIN flows : q[1] = a[1]
                                                  /\ now - info[flows[q]].last <= Fresh}}

------------------------------------------------------------------------------
(* Reports.                                                                *)

\* A request for the page or an asset: build begins.
Request(h, c) ==
    /\ at[h] = "idle" /\ pc[c] = "up"
    /\ at' = [at EXCEPT ![h] = IF ctx[c].local THEN "built" ELSE "lookup"]
    /\ rep' = [rep EXCEPT ![h] = [conn |-> c, meta |-> ctx[c], facts |-> NoFacts, time |-> now]]
    /\ found' = [found EXCEPT ![h] = 0]
    /\ UNCHANGED <<connVars, now, sniffVars, recent>>

\* lookup, under the sniffer's lock: the address itself, or the newest near it.
Lookup(h) ==
    /\ at[h] = "lookup"
    /\ LET a == rep[h].meta.addr
           near == Near(a)
           exact == a \in DOMAIN flows
           best == IF exact THEN {flows[a]}
                   ELSE {n \in near : \A m \in near : info[m].last <= info[n].last}
       IN \/ /\ best = {}
             /\ at' = [at EXCEPT ![h] = "built"]
             /\ UNCHANGED <<rep, found>>
          \/ \E n \in best :
                /\ found' = [found EXCEPT ![h] = n]
                /\ rep' = [rep EXCEPT ![h].facts.exact = exact]
                /\ at' = [at EXCEPT ![h] = "ttl"]
    /\ UNCHANGED <<connVars, now, sniffVars, recent>>

\* The fields of the entry are read after the lock is gone.
ReadTTL(h) ==
    /\ at[h] = "ttl"
    /\ rep' = [rep EXCEPT ![h].facts.ttl = info[found[h]].ttl]
    /\ at' = [at EXCEPT ![h] = "syn"]
    /\ UNCHANGED <<connVars, now, sniffVars, found, recent>>

ReadSYN(h) ==
    /\ at[h] = "syn"
    /\ rep' = [rep EXCEPT ![h].facts.syn = info[found[h]].syn]
    /\ at' = [at EXCEPT ![h] = "built"]
    /\ UNCHANGED <<connVars, now, sniffVars, found, recent>>

Remember(h) ==
    /\ at[h] = "built"
    /\ recent' = SubSeq(<<rep[h]>> \o recent, 1, Min({Len(recent) + 1, MaxRecent}))
    /\ at' = [at EXCEPT ![h] = "idle"]
    /\ rep' = [rep EXCEPT ![h] = EmptyReport]
    /\ found' = [found EXCEPT ![h] = 0]
    /\ UNCHANGED <<connVars, now, sniffVars>>

Next ==
    \/ Tick \/ Purge
    \/ \E c \in Conns :
        \/ Accept(c) \/ FrontFails(c) \/ Put(c) \/ HandOver(c) \/ ConnContext(c)
        \/ Handshake(c) \/ Close(c)
        \/ Record(c, TRUE) \/ Record(c, FALSE)
    \/ \E h \in Handlers :
        \/ \E c \in Conns : Request(h, c)
        \/ Lookup(h) \/ ReadTTL(h) \/ ReadSYN(h) \/ Remember(h)

Spec == Init /\ [][Next]_vars

------------------------------------------------------------------------------
(* Properties.                                                             *)

\* The table of connections has no entry for one that is closed, and one for
\* each that the server was given: "without leaking closed conns".
NoMetaLeft == {c \in Conns : pc[c] \in {"queued", "accepted", "serving", "up"}} = DOMAIN meta

\* What a report says comes from the client it names: the hello and the
\* address of the connection it was asked on, and packets of that IP; of that
\* port too when it says so.
ReportIsOfItsClient ==
    \A i \in DOMAIN recent :
        LET r == recent[i]
            from(p, exact) == p # NoConn =>
                client[p].ip = r.meta.addr[1] /\ (exact => client[p].wire = r.meta.addr[2])
        IN /\ r.meta.hello = r.conn
           /\ r.meta.local \/ r.meta.addr = Address(r.conn)
           /\ from(r.facts.ttl, r.facts.exact) /\ from(r.facts.syn, r.facts.exact)

\* What the comment of readHelloRecords says (hello.go:38): a hello that spans
\* several records is served as well.
EveryHelloServed ==
    \A c \in Conns : pc[c] = "serving" => ServerReads(Replay(c))

\* What reportBuilder says (report.go:21): the newest report is first.
NewestFirst == \A i, j \in DOMAIN recent : i < j => recent[i].time >= recent[j].time

\* What a report says of a client whose port did not match (sniff.go:296): a
\* NAT rewrote it.
OnlyNatIsInexact ==
    \A i \in DOMAIN recent :
        recent[i].facts.ttl # NoConn /\ ~recent[i].facts.exact =>
            client[recent[i].conn].wire # client[recent[i].conn].port

\* The facts of a report are of one packet and its connection.
FactsOfOneConnection ==
    \A i \in DOMAIN recent : recent[i].facts.syn \in {NoConn, recent[i].facts.ttl}

==============================================================================
