------------------------------ MODULE StandsProofs ------------------------------
(***************************************************************************)
(* Theorems about the programs that look at their clients, for any clients,*)
(* connections, handlers, sockets and numbers of datagrams: fpd's table of *)
(* connections and its reports; the fingerprints of fpd and of the library,*)
(* for every hello; the hello that h3sniff puts together from fragments,   *)
(* lists and reports.  What a recursive walk over bytes computes is proved *)
(* from the least position where it would fail.                            *)
(***************************************************************************)
EXTENDS Stands, TLAPS, WellFoundedInduction

Mine(m, c) == m.hello = c /\ (m.local \/ m.addr = Address(c))

\* What is listed for a connection, and what its requests carry, is its own.
FrontInv ==
    /\ client \in [Conns -> Clients]
    /\ pc \in [Conns -> {"off", "front", "queued", "accepted", "serving", "up", "closed"}]
    /\ NoMetaLeft
    /\ \A c \in DOMAIN meta : meta[c] \in Metas /\ Mine(meta[c], c)
    /\ ctx \in [Conns -> Metas \cup {NoMeta}]
    /\ \A c \in Conns : pc[c] \in {"serving", "up"} => ctx[c] \in Metas /\ Mine(ctx[c], c)

Infos == [ttl : Conns, syn : Conns \cup {NoConn}, last : Nat]

\* All packets of an entry come from one address; while the entry is listed,
\* from the one it is listed under.
SniffInv ==
    /\ now \in Nat
    /\ info \in Seq(Infos)
    /\ \A n \in DOMAIN info : info[n].syn # NoConn => Wire(info[n].syn) = Wire(info[n].ttl)
    /\ \A k \in DOMAIN flows : flows[k] \in DOMAIN info /\ Wire(info[flows[k]].ttl) = k

------------------------------------------------------------------------------
(* Connections.                                                            *)

\* A step of no connection leaves the table alone.
LEMMA FrontStays == ASSUME FrontInv, UNCHANGED connVars PROVE FrontInv'
BY DEF FrontInv, connVars, NoMetaLeft, Metas, NoMeta, Mine, Address

\* What handshakeFront finds is typed, and of the connection.
LEMMA AddressTyped ==
    ASSUME FrontInv, NEW c \in Conns PROVE Address(c) \in Nat \X Nat
<1>1. client[c] \in Clients
    BY DEF FrontInv
<1> QED BY <1>1, FpdAssumption DEF Address

LEMMA PutKeeps == ASSUME FrontInv, NEW c \in Conns, Put(c) PROVE FrontInv'
<1>1. /\ pc[c] = "front" /\ pc' = [pc EXCEPT ![c] = "queued"]
      /\ UNCHANGED <<client, ctx>>
    BY DEF Put, Go
<1>2. PICK m \in Metas : Mine(m, c) /\ meta' = Assigned(meta, c, m)
  <2>1. CASE client[c].via = "local"
    <3>1. [hello |-> c, addr |-> <<0, 0>>, local |-> TRUE] \in Metas
        BY DEF Metas
    <3> QED BY <2>1, <3>1 DEF Put, Mine
  <2>2. CASE client[c].via # "local"
    <3>1. [hello |-> c, addr |-> Address(c), local |-> FALSE] \in Metas
        BY AddressTyped DEF Metas
    <3> QED BY <2>2, <3>1 DEF Put, Mine
  <2> QED BY <2>1, <2>2
<1>3. DOMAIN meta' = DOMAIN meta \cup {c} /\ meta'[c] = m
    BY <1>2 DEF Assigned
<1>4. \A d \in DOMAIN meta \ {c} : meta'[d] = meta[d]
    BY <1>2 DEF Assigned
<1>5. NoMetaLeft'
    BY <1>1, <1>3 DEF FrontInv, NoMetaLeft
<1>6. \A d \in DOMAIN meta' : meta'[d] \in Metas /\ Mine(meta[d], d)'
    BY <1>1, <1>2, <1>3, <1>4 DEF FrontInv, Mine, Address
<1>7. \A d \in Conns : pc'[d] \in {"serving", "up"} => ctx'[d] \in Metas /\ Mine(ctx[d], d)'
    BY <1>1 DEF FrontInv, Mine, Address
<1> QED BY <1>1, <1>5, <1>6, <1>7 DEF FrontInv, Metas

LEMMA CloseKeeps == ASSUME FrontInv, NEW c \in Conns, Close(c) PROVE FrontInv'
<1>1. /\ pc[c] \in {"serving", "up"} /\ pc' = [pc EXCEPT ![c] = "closed"]
      /\ UNCHANGED <<client, ctx>>
    BY DEF Close, Go
<1>2. DOMAIN meta' = DOMAIN meta \ {c} /\ \A d \in DOMAIN meta' : meta'[d] = meta[d]
    BY DEF Close
<1>3. NoMetaLeft'
    BY <1>1, <1>2 DEF FrontInv, NoMetaLeft
<1> QED BY <1>1, <1>2, <1>3 DEF FrontInv, Mine, Address, Metas

LEMMA ConnContextKeeps == ASSUME FrontInv, NEW c \in Conns, ConnContext(c) PROVE FrontInv'
<1>1. /\ pc[c] = "accepted" /\ pc' = [pc EXCEPT ![c] = "serving"]
      /\ UNCHANGED <<client, meta>>
    BY DEF ConnContext, Go
<1>2. c \in DOMAIN meta
    BY <1>1 DEF FrontInv, NoMetaLeft
<1>3. ctx' = [ctx EXCEPT ![c] = meta[c]] /\ meta[c] \in Metas /\ Mine(meta[c], c)
    BY <1>2 DEF ConnContext, FrontInv
<1>4. NoMetaLeft'
    BY <1>1 DEF FrontInv, NoMetaLeft
<1>5. \A d \in Conns : pc'[d] \in {"serving", "up"} => ctx'[d] \in Metas /\ Mine(ctx[d], d)'
    BY <1>1, <1>3 DEF FrontInv, Mine, Address
<1>6. \A d \in DOMAIN meta : Mine(meta[d], d)'
    BY <1>1 DEF FrontInv, Mine, Address
<1>7. ctx' \in [Conns -> Metas \cup {NoMeta}]
    BY <1>3 DEF FrontInv
<1> QED BY <1>1, <1>4, <1>5, <1>6, <1>7 DEF FrontInv, Metas, NoMeta

\* The steps that only move a connection on.
LEMMA MovesKeep ==
    ASSUME FrontInv, NEW c \in Conns,
           Accept(c) \/ FrontFails(c) \/ HandOver(c) \/ Handshake(c)
    PROVE  FrontInv'
<1>1. UNCHANGED <<client, meta, ctx>>
    BY DEF Accept, FrontFails, HandOver, Handshake
<1>2. \/ Go(c, "off", "front") \/ Go(c, "front", "closed")
      \/ Go(c, "queued", "accepted") \/ Go(c, "serving", "up")
    BY DEF Accept, FrontFails, HandOver, Handshake
<1>3. NoMetaLeft'
    BY <1>1, <1>2 DEF FrontInv, NoMetaLeft, Go
<1> QED BY <1>1, <1>2, <1>3 DEF FrontInv, Go, Mine, Address, Metas, NoMeta

LEMMA FrontNext == ASSUME FrontInv, [Next]_vars PROVE FrontInv'
<1>1. ASSUME NEW c \in Conns, Accept(c) \/ FrontFails(c) \/ HandOver(c) \/ Handshake(c)
      PROVE  FrontInv'
    BY <1>1, MovesKeep
<1>2. ASSUME NEW c \in Conns, Put(c) \/ Close(c) \/ ConnContext(c) PROVE FrontInv'
    BY <1>2, PutKeeps, CloseKeeps, ConnContextKeeps
<1>3. ASSUME NEW c \in Conns, NEW b \in BOOLEAN, Record(c, b) PROVE FrontInv'
    BY <1>3, FrontStays DEF Record
<1>4. ASSUME NEW h \in Handlers,
             (\E c \in Conns : Request(h, c)) \/ Lookup(h) \/ ReadTTL(h) \/ ReadSYN(h) \/ Remember(h)
      PROVE  FrontInv'
    BY <1>4, FrontStays DEF Request, Lookup, ReadTTL, ReadSYN, Remember
<1>5. CASE Tick \/ Purge
    BY <1>5, FrontStays DEF Tick, Purge
<1>6. CASE UNCHANGED vars
    BY <1>6, FrontStays DEF vars
<1> QED BY <1>1, <1>2, <1>3, <1>4, <1>5, <1>6 DEF Next

LEMMA FrontInit == ASSUME Init PROVE FrontInv
BY DEF Init, FrontInv, NoMetaLeft, NoMeta

------------------------------------------------------------------------------
(* The sniffer.                                                            *)

LEMMA ClientStays == ASSUME [Next]_vars PROVE client' = client
BY DEF Next, vars, connVars, Tick, Purge, Accept, FrontFails, Put, HandOver, ConnContext, Handshake,
       Close, Record, Request, Lookup, ReadTTL, ReadSYN, Remember

\* A packet makes an entry, or goes to the one of its address.
LEMMA RecordKeeps ==
    ASSUME FrontInv, SniffInv, NEW c \in Conns, NEW isSyn \in BOOLEAN, Record(c, isSyn)
    PROVE  /\ SniffInv'
           /\ DOMAIN info \subseteq DOMAIN info'
           /\ \A n \in DOMAIN info : Wire(info'[n].ttl) = Wire(info[n].ttl)
<1> DEFINE known == Wire(c) \in DOMAIN flows
           N == IF known THEN flows[Wire(c)] ELSE Len(info) + 1
           syn == IF isSyn THEN c ELSE IF known THEN info[N].syn ELSE NoConn
           entry == [ttl |-> c, syn |-> syn, last |-> now]
<1>1. /\ flows' = Assigned(flows, Wire(c), N)
      /\ info' = IF known THEN [info EXCEPT ![N] = entry] ELSE Append(info, entry)
      /\ UNCHANGED <<client, now>>
    BY DEF Record, connVars
<1>2. /\ info \in Seq(Infos) /\ now \in Nat
      /\ \A n \in DOMAIN info : info[n].syn # NoConn => Wire(info[n].syn) = Wire(info[n].ttl)
      /\ \A k \in DOMAIN flows : flows[k] \in DOMAIN info /\ Wire(info[flows[k]].ttl) = k
    BY DEF SniffInv
<1>3. known => N \in DOMAIN info /\ Wire(info[N].ttl) = Wire(c)
    BY <1>2
<1>4. syn \in Conns \cup {NoConn} /\ (syn # NoConn => Wire(syn) = Wire(c))
  <2>1. CASE isSyn
      BY <2>1
  <2>2. CASE ~isSyn /\ known
    <3>1. syn = info[N].syn /\ info[N] \in Infos
        BY <1>2, <1>3, <2>2
    <3> QED BY <1>2, <1>3, <2>2, <3>1 DEF Infos
  <2>3. CASE ~isSyn /\ ~known
      BY <2>3
  <2> QED BY <2>1, <2>2, <2>3
<1>5. entry \in Infos
    BY <1>2, <1>4 DEF Infos
<1> HIDE DEF syn, entry
<1>6. /\ info' \in Seq(Infos) /\ DOMAIN info \subseteq DOMAIN info' /\ N \in DOMAIN info'
      /\ info'[N] = entry
      /\ \A n \in DOMAIN info' : n # N => n \in DOMAIN info /\ info'[n] = info[n]
  <2>1. CASE known
    <3>1. info' = [info EXCEPT ![N] = entry] /\ N \in DOMAIN info
        BY <1>1, <1>3, <2>1
    <3> QED BY <1>2, <1>5, <3>1
  <2>2. CASE ~known
    <3>1. info' = Append(info, entry) /\ N = Len(info) + 1
        BY <1>1, <2>2
    <3> QED BY <1>2, <1>5, <3>1
  <2> QED BY <2>1, <2>2
<1>7. entry.ttl = c /\ entry.syn = syn
    BY DEF entry
<1>8. \A n \in DOMAIN info : Wire(info'[n].ttl) = Wire(info[n].ttl)
  <2> SUFFICES ASSUME NEW n \in DOMAIN info PROVE Wire(info'[n].ttl) = Wire(info[n].ttl)
      OBVIOUS
  <2>1. CASE n # N
      BY <1>6, <2>1
  <2>2. CASE n = N
    <3>1. known
      <4>1. CASE ~known
          BY <1>2, <2>2, <4>1
      <4> QED BY <4>1
    <3> QED BY <1>3, <1>6, <1>7, <2>2, <3>1
  <2> QED BY <2>1, <2>2
<1>9. \A n \in DOMAIN info' : info'[n].syn # NoConn => Wire(info'[n].syn) = Wire(info'[n].ttl)
    BY <1>2, <1>4, <1>6, <1>7
<1>10. DOMAIN flows' = DOMAIN flows \cup {Wire(c)} /\ flows'[Wire(c)] = N
       /\ \A k \in DOMAIN flows \ {Wire(c)} : flows'[k] = flows[k]
    BY <1>1 DEF Assigned
<1>11. \A k \in DOMAIN flows' : flows'[k] \in DOMAIN info' /\ Wire(info'[flows'[k]].ttl) = k
    BY <1>2, <1>6, <1>7, <1>8, <1>10
<1>12. \A p : Wire(p)' = Wire(p)
    BY <1>1 DEF Wire
<1>13. SniffInv'
    BY <1>1, <1>2, <1>6, <1>9, <1>11 DEF SniffInv, Wire
<1> QED BY <1>6, <1>8, <1>13

\* An entry keeps its address for good, also when it is listed no more.
EntriesStay ==
    /\ DOMAIN info \subseteq DOMAIN info'
    /\ \A n \in DOMAIN info : Wire(info'[n].ttl) = Wire(info[n].ttl)

LEMMA SniffNext ==
    ASSUME FrontInv, SniffInv, [Next]_vars PROVE SniffInv' /\ EntriesStay
<1>1. ASSUME NEW c \in Conns, NEW b \in BOOLEAN, Record(c, b) PROVE SniffInv' /\ EntriesStay
    BY <1>1, RecordKeeps DEF EntriesStay
<1>2. CASE UNCHANGED <<client, now, sniffVars>>
    BY <1>2 DEF SniffInv, EntriesStay, sniffVars, Wire, Infos
<1>3. CASE Tick
  <2>1. now' \in Nat /\ UNCHANGED <<client, sniffVars>>
      BY <1>3 DEF Tick, SniffInv, connVars
  <2> QED BY <2>1 DEF SniffInv, EntriesStay, sniffVars, Wire, Infos
<1>4. CASE Purge
  <2>1. /\ DOMAIN flows' \subseteq DOMAIN flows
        /\ \A k \in DOMAIN flows' : flows'[k] = flows[k]
        /\ UNCHANGED <<client, now, info>>
      BY <1>4 DEF Purge, connVars
  <2> QED BY <2>1 DEF SniffInv, EntriesStay, Wire, Infos
<1>5. ASSUME NEW c \in Conns,
             \/ Accept(c) \/ FrontFails(c) \/ Put(c) \/ HandOver(c) \/ ConnContext(c)
             \/ Handshake(c) \/ Close(c)
      PROVE  UNCHANGED <<client, now, sniffVars>>
    BY <1>5 DEF Accept, FrontFails, Put, HandOver, ConnContext, Handshake, Close
<1>6. ASSUME NEW h \in Handlers,
             (\E c \in Conns : Request(h, c)) \/ Lookup(h) \/ ReadTTL(h) \/ ReadSYN(h) \/ Remember(h)
      PROVE  UNCHANGED <<client, now, sniffVars>>
    BY <1>6 DEF Request, Lookup, ReadTTL, ReadSYN, Remember, connVars, sniffVars
<1>7. CASE UNCHANGED vars
    BY <1>2, <1>7 DEF vars, connVars
<1> QED BY <1>1, <1>2, <1>3, <1>4, <1>5, <1>6, <1>7 DEF Next

LEMMA SniffInit == ASSUME Init PROVE SniffInv
BY DEF Init, SniffInv

------------------------------------------------------------------------------
(* Reports.                                                                *)

Facts == [ttl : Conns \cup {NoConn}, syn : Conns \cup {NoConn}, exact : BOOLEAN]
FpdReports ==
    [conn : Conns \cup {NoConn}, meta : Metas \cup {NoMeta}, facts : Facts, time : Nat]

\* A packet from a is one of the report's client.
Fits(a, r) == a[1] = r.meta.addr[1] /\ (r.facts.exact => a = r.meta.addr)

Honest(r) ==
    /\ r \in FpdReports /\ r.conn \in Conns /\ r.meta \in Metas /\ Mine(r.meta, r.conn)
    /\ r.facts.ttl # NoConn => Fits(Wire(r.facts.ttl), r)
    /\ r.facts.syn # NoConn => Fits(Wire(r.facts.syn), r)

\* A report under way is honest, and the entry it reads, which others go on
\* writing to, has the address it was found for.
HandlerInv(h) ==
    /\ at[h] # "idle" => Honest(rep[h])
    /\ at[h] \in {"lookup", "ttl", "syn"} => ~rep[h].meta.local
    /\ at[h] = "lookup" => rep[h].facts = NoFacts
    /\ at[h] \in {"ttl", "syn"} =>
         found[h] \in DOMAIN info /\ Fits(Wire(info[found[h]].ttl), rep[h])

ReportInv ==
    /\ at \in [Handlers -> {"idle", "lookup", "ttl", "syn", "built"}]
    /\ rep \in [Handlers -> FpdReports]
    /\ found \in [Handlers -> Nat]
    /\ \A h \in Handlers : HandlerInv(h)
    /\ recent \in Seq(FpdReports)
    /\ \A i \in DOMAIN recent : Honest(recent[i])

LEMMA HonestStays == ASSUME client' = client, NEW r PROVE Honest(r)' <=> Honest(r)
BY DEF Honest, Mine, Fits, Wire, Address

\* What a handler that does nothing has stays right, whatever the others do.
LEMMA HandlerStays ==
    ASSUME client' = client, EntriesStay, NEW h \in Handlers, HandlerInv(h),
           at'[h] = at[h], rep'[h] = rep[h], found'[h] = found[h]
    PROVE  HandlerInv(h)'
<1>1. Honest(rep[h])' <=> Honest(rep[h])
    BY DEF Honest, Mine, Fits, Wire, Address
<1>2. \A n \in DOMAIN info : Wire(info[n].ttl)' = Wire(info[n].ttl)
    BY DEF EntriesStay, Wire
<1> QED BY <1>1, <1>2 DEF HandlerInv, EntriesStay, Fits

\* Where a handler is, its report and its entry.
Noted(where, r, n) ==
    /\ where # "idle" => Honest(r)
    /\ where \in {"lookup", "ttl", "syn"} => ~r.meta.local
    /\ where = "lookup" => r.facts = NoFacts
    /\ where \in {"ttl", "syn"} => n \in DOMAIN info /\ Fits(Wire(info[n].ttl), r)

\* A step of one handler; the list has reports of clients.
LEMMA OneHandler ==
    ASSUME ReportInv, client' = client, EntriesStay, NEW h \in Handlers,
           NEW where \in {"idle", "lookup", "ttl", "syn", "built"}, NEW r \in FpdReports, NEW n \in Nat,
           at' = [at EXCEPT ![h] = where], rep' = [rep EXCEPT ![h] = r],
           found' = [found EXCEPT ![h] = n], Noted(where, r, n),
           recent' \in Seq(FpdReports), \A i \in DOMAIN recent' : Honest(recent'[i])
    PROVE  ReportInv'
<1>1. /\ at' \in [Handlers -> {"idle", "lookup", "ttl", "syn", "built"}]
      /\ rep' \in [Handlers -> FpdReports] /\ found' \in [Handlers -> Nat]
    BY DEF ReportInv
<1>2. Honest(r)' <=> Honest(r)
    BY HonestStays
<1>3. at'[h] = where /\ rep'[h] = r /\ found'[h] = n
    BY DEF ReportInv
<1>4. n \in DOMAIN info => n \in DOMAIN info' /\ Wire(info[n].ttl)' = Wire(info[n].ttl)
    BY DEF EntriesStay, Wire
<1>5. Honest(rep[h])' <=> Honest(r)'
    BY <1>3 DEF Honest, Mine, Fits, Wire, Address
<1>6. HandlerInv(h)'
    BY <1>2, <1>3, <1>4, <1>5 DEF HandlerInv, Noted, Fits
<1>7. ASSUME NEW g \in Handlers PROVE HandlerInv(g)'
  <2>1. CASE g = h
      BY <1>6, <2>1
  <2>2. CASE g # h
    <3>1. at'[g] = at[g] /\ rep'[g] = rep[g] /\ found'[g] = found[g] /\ HandlerInv(g)
        BY <2>2 DEF ReportInv
    <3> QED BY <3>1, HandlerStays
  <2> QED BY <2>1, <2>2
<1>8. \A i \in DOMAIN recent' : Honest(recent[i])'
    BY DEF Honest, Mine, Fits, Wire, Address
<1> QED BY <1>1, <1>7, <1>8 DEF ReportInv, FpdReports, Facts, Metas, NoMeta

LEMMA RequestKeeps ==
    ASSUME FrontInv, SniffInv, ReportInv, EntriesStay, NEW h \in Handlers, NEW c \in Conns,
           Request(h, c)
    PROVE  ReportInv'
<1>1. PICK r : r = [conn |-> c, meta |-> ctx[c], facts |-> NoFacts, time |-> now]
    OBVIOUS
<1>2. PICK where : where = IF ctx[c].local THEN "built" ELSE "lookup"
    OBVIOUS
<1>3. /\ pc[c] = "up" /\ client' = client /\ recent' = recent
      /\ at' = [at EXCEPT ![h] = where] /\ rep' = [rep EXCEPT ![h] = r]
      /\ found' = [found EXCEPT ![h] = 0]
    BY <1>1, <1>2 DEF Request, connVars
<1>4. ctx[c] \in Metas /\ Mine(ctx[c], c)
    BY <1>3 DEF FrontInv
<1>5. NoFacts \in Facts /\ NoFacts.ttl = NoConn /\ NoFacts.syn = NoConn
    BY DEF NoFacts, Facts
<1>6. r \in FpdReports
    BY <1>1, <1>4, <1>5 DEF FpdReports, SniffInv
<1>7. Honest(r)
    BY <1>1, <1>4, <1>5, <1>6 DEF Honest
<1>8. Noted(where, r, 0)
    BY <1>1, <1>2, <1>7 DEF Noted
<1>9. recent' \in Seq(FpdReports) /\ \A i \in DOMAIN recent' : Honest(recent'[i])
    BY <1>3 DEF ReportInv
<1>10. where \in {"idle", "lookup", "ttl", "syn", "built"}
    BY <1>2
<1> QED BY <1>3, <1>6, <1>8, <1>9, <1>10, OneHandler

\* lookup: the entry is of the address it was asked for, or of the same IP.
LEMMA LookupKeeps ==
    ASSUME FrontInv, SniffInv, ReportInv, EntriesStay, NEW h \in Handlers, Lookup(h)
    PROVE  ReportInv'
<1> DEFINE a == rep[h].meta.addr
           near == Near(a)
           exact == a \in DOMAIN flows
           best == IF exact THEN {flows[a]}
                   ELSE {n \in near : \A m \in near : info[m].last <= info[n].last}
<1>1. /\ at[h] = "lookup" /\ client' = client /\ recent' = recent
      /\ Honest(rep[h]) /\ ~rep[h].meta.local /\ rep[h].facts = NoFacts
      /\ rep[h] \in FpdReports /\ found[h] \in Nat
    BY DEF Lookup, ReportInv, HandlerInv, connVars
<1>2. recent' \in Seq(FpdReports) /\ \A i \in DOMAIN recent' : Honest(recent'[i])
    BY <1>1 DEF ReportInv
<1>3. CASE at' = [at EXCEPT ![h] = "built"] /\ UNCHANGED <<rep, found>>
  <2>1. rep' = [rep EXCEPT ![h] = rep[h]] /\ found' = [found EXCEPT ![h] = found[h]]
      BY <1>3 DEF ReportInv
  <2>2. Noted("built", rep[h], found[h])
      BY <1>1 DEF Noted
  <2> QED BY <1>1, <1>2, <1>3, <2>1, <2>2, OneHandler
<1>4. ASSUME NEW n \in best,
             found' = [found EXCEPT ![h] = n], rep' = [rep EXCEPT ![h].facts.exact = exact],
             at' = [at EXCEPT ![h] = "ttl"]
      PROVE  ReportInv'
  <2>1. PICK r : r = [rep[h] EXCEPT !.facts.exact = exact]
      OBVIOUS
  <2>2. \E k \in DOMAIN flows : n = flows[k] /\ k[1] = a[1] /\ (exact => k = a)
    <3>1. CASE exact
        BY <3>1
    <3>2. CASE ~exact
        BY <3>2 DEF Near
    <3> QED BY <3>1, <3>2
  <2>3. n \in DOMAIN info /\ Wire(info[n].ttl)[1] = a[1] /\ (exact => Wire(info[n].ttl) = a)
      BY <2>2 DEF SniffInv
  <2>4. /\ r \in FpdReports /\ r.conn = rep[h].conn /\ r.meta = rep[h].meta
        /\ r.facts.ttl = NoConn /\ r.facts.syn = NoConn /\ r.facts.exact = exact
    <3>1. rep[h].facts \in Facts /\ exact \in BOOLEAN
        BY <1>1 DEF FpdReports
    <3>2. rep[h].facts.ttl = NoConn /\ rep[h].facts.syn = NoConn
        BY <1>1 DEF NoFacts
    <3> QED BY <1>1, <2>1, <3>1, <3>2 DEF FpdReports, Facts
  <2>5. rep' = [rep EXCEPT ![h] = r]
      BY <1>4, <2>1
  <2>6. n \in Nat
      BY <2>3 DEF SniffInv
  <2>7. Honest(r)
      BY <1>1, <2>4 DEF Honest
  <2>8. Fits(Wire(info[n].ttl), r)
      BY <2>3, <2>4 DEF Fits
  <2>9. Noted("ttl", r, n)
      BY <1>1, <2>3, <2>4, <2>7, <2>8 DEF Noted
  <2> QED BY <1>1, <1>2, <1>4, <2>4, <2>5, <2>6, <2>9, OneHandler
<1> QED BY <1>3, <1>4 DEF Lookup

\* The entry may have been written to since, by packets of the same address.
LEMMA ReadTTLKeeps ==
    ASSUME FrontInv, SniffInv, ReportInv, EntriesStay, NEW h \in Handlers, ReadTTL(h)
    PROVE  ReportInv'
<1>1. PICK r : r = [rep[h] EXCEPT !.facts.ttl = info[found[h]].ttl]
    OBVIOUS
<1>2. /\ client' = client /\ recent' = recent
      /\ Honest(rep[h]) /\ ~rep[h].meta.local /\ rep[h] \in FpdReports
      /\ found[h] \in DOMAIN info /\ Fits(Wire(info[found[h]].ttl), rep[h])
      /\ found[h] \in Nat /\ info[found[h]] \in Infos
    BY DEF ReadTTL, ReportInv, HandlerInv, connVars, SniffInv
<1>3. rep' = [rep EXCEPT ![h] = r] /\ found' = [found EXCEPT ![h] = found[h]]
      /\ at' = [at EXCEPT ![h] = "syn"]
    BY <1>1 DEF ReadTTL, ReportInv
<1>4. recent' \in Seq(FpdReports) /\ \A i \in DOMAIN recent' : Honest(recent'[i])
    BY <1>2 DEF ReportInv
<1>5. /\ r \in FpdReports /\ r.conn = rep[h].conn /\ r.meta = rep[h].meta
      /\ r.facts.ttl = info[found[h]].ttl
      /\ r.facts.syn = rep[h].facts.syn /\ r.facts.exact = rep[h].facts.exact
    BY <1>1, <1>2 DEF FpdReports, Facts, Infos
<1>6. Honest(r)
    BY <1>2, <1>5 DEF Honest, Fits
<1>7. Noted("syn", r, found[h])
    BY <1>2, <1>5, <1>6 DEF Noted, Fits
<1> QED BY <1>2, <1>3, <1>4, <1>5, <1>7, OneHandler

LEMMA ReadSYNKeeps ==
    ASSUME FrontInv, SniffInv, ReportInv, EntriesStay, NEW h \in Handlers, ReadSYN(h)
    PROVE  ReportInv'
<1>1. PICK r : r = [rep[h] EXCEPT !.facts.syn = info[found[h]].syn]
    OBVIOUS
<1>2. /\ client' = client /\ recent' = recent
      /\ Honest(rep[h]) /\ rep[h] \in FpdReports
      /\ found[h] \in DOMAIN info /\ Fits(Wire(info[found[h]].ttl), rep[h])
      /\ found[h] \in Nat /\ info[found[h]] \in Infos
      /\ info[found[h]].syn # NoConn => Wire(info[found[h]].syn) = Wire(info[found[h]].ttl)
    BY DEF ReadSYN, ReportInv, HandlerInv, connVars, SniffInv
<1>3. rep' = [rep EXCEPT ![h] = r] /\ found' = [found EXCEPT ![h] = found[h]]
      /\ at' = [at EXCEPT ![h] = "built"]
    BY <1>1 DEF ReadSYN, ReportInv
<1>4. recent' \in Seq(FpdReports) /\ \A i \in DOMAIN recent' : Honest(recent'[i])
    BY <1>2 DEF ReportInv
<1>5. /\ r \in FpdReports /\ r.conn = rep[h].conn /\ r.meta = rep[h].meta
      /\ r.facts.syn = info[found[h]].syn
      /\ r.facts.ttl = rep[h].facts.ttl /\ r.facts.exact = rep[h].facts.exact
    BY <1>1, <1>2 DEF FpdReports, Facts, Infos
<1>6. Honest(r)
    BY <1>2, <1>5 DEF Honest, Fits
<1>7. Noted("built", r, found[h])
    BY <1>6 DEF Noted
<1> QED BY <1>2, <1>3, <1>4, <1>5, <1>7, OneHandler

\* The list takes the report that was built, and drops the oldest at its limit.
LEMMA RememberKeeps ==
    ASSUME FrontInv, SniffInv, ReportInv, EntriesStay, NEW h \in Handlers, Remember(h)
    PROVE  ReportInv'
<1> DEFINE all == <<rep[h]>> \o recent
           m == Min({Len(recent) + 1, MaxRecent})
<1>1. /\ client' = client /\ recent' = SubSeq(all, 1, m)
      /\ at' = [at EXCEPT ![h] = "idle"] /\ rep' = [rep EXCEPT ![h] = EmptyReport]
      /\ found' = [found EXCEPT ![h] = 0]
      /\ Honest(rep[h]) /\ rep[h] \in FpdReports /\ recent \in Seq(FpdReports)
      /\ \A i \in DOMAIN recent : Honest(recent[i])
    BY DEF Remember, ReportInv, HandlerInv, connVars
<1>2. m \in 1..Len(recent) + 1
  <2>1. m = CHOOSE x \in {Len(recent) + 1, MaxRecent} :
              \A y \in {Len(recent) + 1, MaxRecent} : x <= y
      BY DEF Min
  <2>2. Len(recent) + 1 \in Nat \ {0} /\ MaxRecent \in Nat \ {0}
      BY <1>1, FpdAssumption
  <2>3. \E x \in {Len(recent) + 1, MaxRecent} :
            \A y \in {Len(recent) + 1, MaxRecent} : x <= y
      BY <2>2
  <2>4. m \in {Len(recent) + 1, MaxRecent} /\ m <= Len(recent) + 1
      BY <2>1, <2>3
  <2> QED BY <2>2, <2>4
<1> HIDE DEF m
<1>3. /\ all \in Seq(FpdReports) /\ Len(all) = Len(recent) + 1
      /\ \A i \in 1..Len(all) : Honest(all[i])
  <2>1. /\ all \in Seq(FpdReports) /\ Len(all) = Len(recent) + 1 /\ all[1] = rep[h]
        /\ \A i \in 2..Len(all) : i - 1 \in DOMAIN recent /\ all[i] = recent[i - 1]
      BY <1>1
  <2> HIDE DEF all
  <2>2. Honest(rep[h]) /\ rep[h] \in FpdReports
      BY <1>1
  <2>3. \A i \in DOMAIN recent : Honest(recent[i])
      BY <1>1
  <2>4. ASSUME NEW i \in 1..Len(all) PROVE Honest(all[i])
    <3>1. i = 1 \/ i \in 2..Len(all)
      OBVIOUS
    <3> QED BY <2>1, <2>2, <2>3, <3>1, Zenon
  <2> QED BY <2>1, <2>4, Zenon
<1> HIDE DEF all
<1>4. /\ recent' \in Seq(FpdReports) /\ DOMAIN recent' = 1..m
      /\ \A i \in 1..m : recent'[i] = all[i]
    BY <1>1, <1>2, <1>3
<1>5. \A i \in DOMAIN recent' : Honest(recent'[i])
  <2>1. \A i \in 1..m : i \in 1..Len(all) /\ recent'[i] = all[i]
      BY <1>2, <1>3, <1>4
  <2> QED BY <1>3, <1>4, <2>1
<1>6. EmptyReport \in FpdReports /\ Noted("idle", EmptyReport, 0)
    BY DEF EmptyReport, FpdReports, Facts, NoFacts, Noted
<1> QED BY <1>1, <1>4, <1>5, <1>6, OneHandler

LEMMA ReportNext ==
    ASSUME FrontInv, SniffInv, ReportInv, [Next]_vars PROVE ReportInv'
<1>1. EntriesStay
    BY SniffNext
<1>2. CASE UNCHANGED <<client, reportVars>>
  <2>1. client' = client /\ at' = at /\ rep' = rep /\ found' = found /\ recent' = recent
      BY <1>2 DEF reportVars
  <2>2. ASSUME NEW h \in Handlers PROVE HandlerInv(h)'
      BY <1>1, <2>1, HandlerStays DEF ReportInv
  <2>3. \A i \in DOMAIN recent : Honest(recent[i])' <=> Honest(recent[i])
      BY <2>1 DEF Honest, Mine, Fits, Wire, Address
  <2> QED BY <2>1, <2>2, <2>3 DEF ReportInv, FpdReports, Facts, Metas, NoMeta
<1>3. CASE Tick \/ Purge
    BY <1>2, <1>3 DEF Tick, Purge, connVars
<1>4. ASSUME NEW c \in Conns,
             \/ Accept(c) \/ FrontFails(c) \/ Put(c) \/ HandOver(c) \/ ConnContext(c)
             \/ Handshake(c) \/ Close(c) \/ Record(c, TRUE) \/ Record(c, FALSE)
      PROVE  ReportInv'
    BY <1>2, <1>4
    DEF Accept, FrontFails, Put, HandOver, ConnContext, Handshake, Close, Record, connVars
<1>5. ASSUME NEW h \in Handlers,
             (\E c \in Conns : Request(h, c)) \/ Lookup(h) \/ ReadTTL(h) \/ ReadSYN(h) \/ Remember(h)
      PROVE  ReportInv'
    BY <1>1, <1>5, RequestKeeps, LookupKeeps, ReadTTLKeeps, ReadSYNKeeps, RememberKeeps
<1>6. CASE UNCHANGED vars
    BY <1>2, <1>6 DEF vars, connVars
<1> QED BY <1>3, <1>4, <1>5, <1>6 DEF Next

LEMMA ReportInit == ASSUME Init PROVE ReportInv
BY DEF Init, ReportInv, HandlerInv, EmptyReport, FpdReports, Facts, NoFacts

LEMMA ReportSafe == ASSUME ReportInv PROVE ReportIsOfItsClient
<1> SUFFICES ASSUME NEW i \in DOMAIN recent, NEW r, r = recent[i]
             PROVE  /\ r.meta.hello = r.conn
                    /\ r.meta.local \/ r.meta.addr = Address(r.conn)
                    /\ \A p \in {r.facts.ttl, r.facts.syn} : p # NoConn =>
                         /\ client[p].ip = r.meta.addr[1]
                         /\ r.facts.exact => client[p].wire = r.meta.addr[2]
    BY DEF ReportIsOfItsClient
<1>1. Honest(r)
    BY DEF ReportInv
<1>2. r.meta.hello = r.conn /\ (r.meta.local \/ r.meta.addr = Address(r.conn))
    BY <1>1 DEF Honest, Mine
<1>3. \A p \in {r.facts.ttl, r.facts.syn} : p # NoConn => Fits(Wire(p), r)
    BY <1>1 DEF Honest
<1>4. \A p : Wire(p)[1] = client[p].ip /\ Wire(p)[2] = client[p].wire
    BY DEF Wire
<1> QED BY <1>2, <1>3, <1>4 DEF Fits

------------------------------------------------------------------------------
(* The fingerprints of a hello.                                             *)

\* A set of numbers has a least one.
LEMMA LeastOf == ASSUME NEW S \in SUBSET Nat, S # {} PROVE \E n \in S : \A m \in S : n <= m
<1>1. PICK n \in S : \A m \in S : <<m, n>> \notin OpToRel(<, Nat)
  BY WFMin, NatLessThanWellFounded, Zenon
<1>2. \A m \in S : ~(m < n)
  BY <1>1, Zenon DEF OpToRel
<1>3. \A m \in S : n <= m
  BY <1>2
<1> QED BY <1>3

LEMMA MinIs ==
    ASSUME NEW S \in SUBSET Nat, S # {}
    PROVE  Min(S) \in S /\ \A m \in S : Min(S) <= m
<1>1. \E n \in S : \A m \in S : n <= m
    BY LeastOf
<1>2. Min(S) = CHOOSE n \in S : \A m \in S : n <= m
    BY Zenon DEF Min
<1> QED BY <1>1, <1>2

LEMMA MaxIs ==
    ASSUME NEW n \in Nat, NEW S \in SUBSET (0..n), S # {}
    PROVE  Max(S) \in S /\ \A m \in S : m <= Max(S)
<1> DEFINE left == {n - m : m \in S}
<1>1. PICK l \in left : \A k \in left : l <= k
  <2>1. \A m \in S : n - m \in Nat
    OBVIOUS
  <2>2. left \in SUBSET Nat /\ left # {}
    BY <2>1
  <2> HIDE DEF left
  <2> QED BY <2>2, LeastOf
<1>2. PICK x \in S : l = n - x
    OBVIOUS
<1>3. \A m \in S : m <= x
  <2> SUFFICES ASSUME NEW m \in S PROVE m <= x
    OBVIOUS
  <2>1. n - m \in left
    OBVIOUS
  <2>2. l <= n - m
    BY <1>1, <2>1
  <2> QED BY <1>2, <2>2
<1>4. Max(S) = CHOOSE y \in S : \A m \in S : m <= y
    BY Zenon DEF Max
<1> QED BY <1>3, <1>4

HostFirst(names) ==
    names = <<>> \/ (1 \in DOMAIN names /\ names[1].type = 0 /\ DOMAIN names \subseteq Nat \ {0})

\* The elements of a list are those before its length.
IsRow(list) == Len(list) \in Nat /\ DOMAIN list = 1..Len(list)

LEMMA SameSublist == \A s, S : Lib!Sublist(s, S) = Sublist(s, S)
BY Zenon DEF Sublist, Lib!Sublist, Places, Lib!Places

LEMMA SameStrip == ASSUME NEW s PROVE stripGREASE(s) = Lib!stripGREASE(s)
<1>1. {i \in DOMAIN s : ~isGREASE(s[i])} = {i \in DOMAIN s : ~Lib!isGREASE(s[i])}
  BY Zenon DEF isGREASE, Lib!isGREASE
<1> QED BY <1>1, SameSublist, Zenon DEF stripGREASE, Lib!stripGREASE

LEMMA SameSize == \A S : Lib!Cardinality(S) = Cardinality(S)
BY Zenon DEF Cardinality, Lib!Cardinality

LEMMA SameSorted == \A s : Lib!Sorted(s) = Sorted(s)
BY SameSize, Zenon DEF Sorted, Lib!Sorted, ToSet, Lib!ToSet

\* What the library reads under an id is the list that fpd finds there.
LEMMA SameField == ASSUME NEW wire, NEW id PROVE Lib!ListOf(wire, id) = Field(wire, id).list
<1> DEFINE places == {i \in DOMAIN wire.exts : wire.exts[i].id = id}
<1>1. Lib!Max(places) = Max(places)
  BY Zenon DEF Max, Lib!Max
<1>2. Lib!ListOf(wire, id) = IF places = {} THEN <<>> ELSE wire.exts[Max(places)].data.list
  BY <1>1, Zenon DEF Lib!ListOf
<1>3. Field(wire, id) = IF places = {} THEN Absent ELSE wire.exts[Max(places)].data
  BY Zenon DEF Field
<1>4. Absent.list = <<>>
  BY DEF Absent
<1> HIDE DEF places
<1> QED BY <1>2, <1>3, <1>4

LEMMA SameName ==
    ASSUME NEW data, HostFirst(data.list)
    PROVE  parseSNI(data) = Lib!parseSNI(data.list)
<1> DEFINE names == data.list
<1>1. CASE names = <<>>
  BY <1>1 DEF parseSNI, Lib!parseSNI
<1>2. CASE 1 \in DOMAIN names /\ names[1].type = 0 /\ DOMAIN names \subseteq Nat \ {0}
  <2> DEFINE hosts == {i \in DOMAIN names : names[i].type = 0}
  <2>1. 1 \in hosts /\ hosts \subseteq Nat \ {0}
    BY <1>2
  <2>2. Min(hosts) = 1
    <3> HIDE DEF hosts
    <3> DEFINE m == Min(hosts)
    <3>1. m \in hosts /\ m <= 1
      BY <2>1, MinIs
    <3> HIDE DEF m
    <3>2. m \in Nat \ {0}
      BY <2>1, <3>1
    <3>3. m = 1
      BY <3>1, <3>2
    <3> QED BY <3>3 DEF m
  <2>3. names # <<>>
    BY <1>2
  <2>4. hosts # {}
    BY <2>1
  <2>5. parseSNI(data) = names[1].name
    BY <2>2, <2>4 DEF parseSNI
  <2> QED BY <2>3, <2>5 DEF Lib!parseSNI
<1> QED BY <1>1, <1>2 DEF HostFirst

\* The names up to the first empty one begin as the whole list does.
LEMMA FirstProtocol ==
    ASSUME NEW ext, NEW data, data = parseList(ext), data \in Seq(Seq(Nat))
    PROVE  /\ (data = <<>> \/ data[1] = <<>>) => parseALPN(ext) = <<>>
           /\ ~(data = <<>> \/ data[1] = <<>>) =>
                 parseALPN(ext) # <<>> /\ parseALPN(ext)[1] = data[1]
<1> DEFINE empty == {i \in DOMAIN data : data[i] = <<>>}
<1>1. CASE empty = {}
  <2>1. parseALPN(ext) = data
    BY <1>1 DEF parseALPN
  <2>2. data # <<>> => 1 \in DOMAIN data
    OBVIOUS
  <2> QED BY <1>1, <2>1, <2>2
<1>2. CASE empty # {}
  <2>1. empty \subseteq Nat \ {0} /\ data # <<>>
    BY <1>2
  <2>2. Min(empty) \in empty /\ \A i \in empty : Min(empty) <= i
    <3> HIDE DEF empty
    <3> QED BY <1>2, <2>1, MinIs
  <2> DEFINE m == Min(empty)
  <2>3. parseALPN(ext) = SubSeq(data, 1, m - 1)
    BY <1>2 DEF parseALPN
  <2>4. m \in DOMAIN data /\ m \in Nat \ {0} /\ data[m] = <<>>
    BY <2>1, <2>2
  <2>5. ASSUME data[1] = <<>> PROVE parseALPN(ext) = <<>>
    <3>1. 1 \in empty
      BY <2>1, <2>5
    <3>2. m = 1
      <4>1. m <= 1
        BY <2>2, <3>1
      <4> HIDE DEF m
      <4> QED BY <2>4, <4>1
    <3>3. parseALPN(ext) = SubSeq(data, 1, 0)
      <4> HIDE DEF m
      <4> QED BY <2>3, <3>2
    <3> HIDE DEF m, empty
    <3> QED BY <3>3
  <2>6. ASSUME data[1] # <<>> PROVE parseALPN(ext) # <<>> /\ parseALPN(ext)[1] = data[1]
    <3>1. m # 1 /\ m - 1 \in 1..Len(data)
      <4> HIDE DEF m
      <4> QED BY <2>4, <2>6, SMTT(40)
    <3> HIDE DEF m
    <3>2. Len(SubSeq(data, 1, m - 1)) = m - 1 /\ SubSeq(data, 1, m - 1)[1] = data[1]
      BY <3>1
    <3> QED BY <2>3, <3>1, <3>2
  <2> QED BY <2>1, <2>5, <2>6
<1> QED BY <1>1, <1>2

LEMMA NoNames == <<>> \in Seq(Seq(Nat))
OBVIOUS

LEMMA AboveOne == \A n \in Nat : n # 0 /\ n # 1 => n > 1
OBVIOUS

LEMMA SameToken ==
    ASSUME NEW ext, NEW s, NEW t, t.alpn = parseList(ext), t.alpn \in Seq(Seq(Nat)),
           s.alpn = parseALPN(ext)
    PROVE  ja4ALPNToken(s) = Lib!ja4ALPNToken(t)
<1>1. CASE t.alpn = <<>> \/ t.alpn[1] = <<>>
  <2>1. s.alpn = <<>>
    BY <1>1, FirstProtocol
  <2>2. ja4ALPNToken(s) = <<48, 48>>
    BY <2>1, Zenon DEF ja4ALPNToken
  <2>3. Lib!ja4ALPNToken(t) = <<48, 48>>
    BY <1>1, Zenon DEF Lib!ja4ALPNToken
  <2> QED BY <2>2, <2>3
<1>2. CASE ~(t.alpn = <<>> \/ t.alpn[1] = <<>>)
  <2>1. s.alpn # <<>> /\ s.alpn[1] = t.alpn[1]
    BY <1>2, FirstProtocol
  <2> DEFINE proto == t.alpn[1]
  <2>2. proto \in Seq(Nat) /\ proto # <<>>
    BY <1>2
  <2> HIDE DEF proto
  <2> DEFINE first == proto[1]
             last == proto[Len(proto)]
  <2>3. Len(proto) \in Nat \ {0} /\ first \in Nat /\ last \in Nat
    BY <2>2
  <2> DEFINE hex == <<IF first \div 16 < 10 THEN 48 + (first \div 16) ELSE 87 + (first \div 16),
                      IF last % 16 < 10 THEN 48 + (last % 16) ELSE 87 + (last % 16)>>
             letters == (48..57) \cup (65..90) \cup (97..122)
  <2>4. Lib!ja4ALPNToken(t) = IF Len(proto) = 1 \/ (first \in letters /\ last \in letters)
                                THEN <<first, last>> ELSE hex
    <3>1. Lib!ja4ALPNToken(t) =
            IF Len(proto) = 1 \/ (Lib!AlphaNumeric(first) /\ Lib!AlphaNumeric(last))
              THEN <<first, last>> ELSE <<Lib!HexDigit(first \div 16), Lib!HexDigit(last % 16)>>
      BY <1>2, Zenon DEF Lib!ja4ALPNToken, proto
    <3>2. \A b : Lib!AlphaNumeric(b) <=> b \in letters
      BY Zenon DEF Lib!AlphaNumeric
    <3>3. hex = <<Lib!HexDigit(first \div 16), Lib!HexDigit(last % 16)>>
      BY Zenon DEF Lib!HexDigit
    <3> HIDE DEF letters, hex
    <3> QED BY <3>1, <3>2, <3>3
  <2>5. ja4ALPNToken(s) =
          CASE s.alpn = <<>> \/ proto = <<>> -> <<48, 48>>
            [] s.alpn # <<>> /\ Len(proto) = 1 -> <<first, last>>
            [] s.alpn # <<>> /\ Len(proto) > 1 ->
                 IF ToSet(<<first, last>>) \subseteq letters THEN <<first, last>>
                 ELSE <<IF <<first, last>>[1] \div 16 < 10 THEN 48 + (<<first, last>>[1] \div 16)
                          ELSE 87 + (<<first, last>>[1] \div 16),
                        IF <<first, last>>[2] % 16 < 10 THEN 48 + (<<first, last>>[2] % 16)
                          ELSE 87 + (<<first, last>>[2] % 16)>>
    BY <2>1, ZenonT(40) DEF ja4ALPNToken, proto
  <2>6. <<first, last>>[1] = first /\ <<first, last>>[2] = last
    OBVIOUS
  <2>7. ToSet(<<first, last>>) \subseteq letters <=> first \in letters /\ last \in letters
    <3> HIDE DEF letters, first, last
    <3>1. ToSet(<<first, last>>) = {first, last}
      BY DEF ToSet
    <3> QED BY <3>1
  <2>8. ja4ALPNToken(s) =
          CASE s.alpn = <<>> \/ proto = <<>> -> <<48, 48>>
            [] s.alpn # <<>> /\ Len(proto) = 1 -> <<first, last>>
            [] s.alpn # <<>> /\ Len(proto) > 1 ->
                 IF first \in letters /\ last \in letters THEN <<first, last>> ELSE hex
    <3> HIDE DEF letters, first, last
    <3> QED BY <2>5, <2>6, <2>7, Zenon
  <2>9. CASE Len(proto) = 1
    <3>1. first = last
      BY <2>9
    <3> HIDE DEF letters, first, last, hex
    <3> QED BY <2>1, <2>2, <2>3, <2>4, <2>8, <2>9
  <2>10. CASE Len(proto) # 1
    <3>1. Len(proto) > 1
      <4> HIDE DEF letters, first, last, hex
      <4>1. proto \in Seq(Nat) /\ Len(proto) # 0 /\ Len(proto) # 1
        BY <2>2, <2>10
      <4>2. Len(proto) \in Nat
        BY <4>1
      <4> QED BY <4>1, <4>2, AboveOne, Zenon
    <3> HIDE DEF letters, first, last, hex
    <3> QED BY <2>1, <2>2, <2>4, <2>8, <2>10, <3>1
  <2> QED BY <2>9, <2>10
<1> QED BY <1>1, <1>2

LEMMA RowOfHosts ==
    ASSUME NEW list, IsRow(list), list # <<>> => list[1].type = 0
    PROVE  HostFirst(list)
<1>1. CASE list = <<>>
  BY <1>1 DEF HostFirst
<1>2. CASE list # <<>>
  <2>1. Len(list) # 0
    BY <1>2 DEF IsRow
  <2>2. 1 \in DOMAIN list /\ DOMAIN list \subseteq Nat \ {0}
    BY <2>1 DEF IsRow
  <2> QED BY <1>2, <2>2 DEF HostFirst
<1> QED BY <1>1, <1>2

\* Of a list of names, those within its length are one.
LEMMA NamesWithin ==
    ASSUME NEW data, data.list \in Seq(Seq(Nat)), data.len \in Nat
    PROVE  parseList(data) \in Seq(Seq(Nat))
<1> DEFINE list == data.list
           n == data.len
<1>1. list \in Seq(Seq(Nat)) /\ n \in Nat
  OBVIOUS
<1>2. parseList(data) = IF data.short THEN <<>> ELSE IF n < Len(list) THEN SubSeq(list, 1, n) ELSE list
  BY Zenon DEF parseList
<1> HIDE DEF list, n
<1>3. n < Len(list) => SubSeq(list, 1, n) \in Seq(Seq(Nat))
  BY <1>1
<1> QED BY <1>1, <1>2, <1>3, NoNames

\* What fpd computes of a hello is what the library computes of one in which it
\* reads the lists within their lengths.
LEMMA AlikeIs ==
    ASSUME NEW wire, Readable(wire), NEW read,
           read.version = wire.version, read.ciphers = wire.ciphers, read.exts = extIDs(wire),
           read.sni = Lib!parseSNI(Field(wire, 0).list),
           read.groups = parseList(Field(wire, 10)), read.pf = parseList(Field(wire, 11)),
           read.sigalgs = parseList(Field(wire, 13)), read.alpn = parseList(Field(wire, 16)),
           read.versions = parseList(Field(wire, 43))
    PROVE  Alike(parseClientHelloRecord(wire), read)
<1> DEFINE seen == parseClientHelloRecord(wire)
<1>2. /\ seen.version = wire.version /\ seen.ciphers = wire.ciphers /\ seen.ids = extIDs(wire)
      /\ seen.sni = parseSNI(Field(wire, 0)) /\ seen.groups = parseList(Field(wire, 10))
      /\ seen.pf = parseList(Field(wire, 11)) /\ seen.sigalgs = parseList(Field(wire, 13))
      /\ seen.alpn = parseALPN(Field(wire, 16)) /\ seen.versions = parseList(Field(wire, 43))
    BY Zenon DEF parseClientHelloRecord
<1>3. /\ read.version = wire.version /\ read.ciphers = wire.ciphers
      /\ read.sni = Lib!parseSNI(Field(wire, 0).list) /\ read.groups = parseList(Field(wire, 10))
      /\ read.pf = parseList(Field(wire, 11)) /\ read.sigalgs = parseList(Field(wire, 13))
      /\ read.alpn = parseList(Field(wire, 16)) /\ read.versions = parseList(Field(wire, 43))
    OBVIOUS
<1>4. seen.ids = read.exts
    BY <1>2
<1> DEFINE Having(id) == {i \in DOMAIN wire.exts : wire.exts[i].id = id}
<1>5. \A id \in Nat : Field(wire, id) # Absent =>
        \E i \in DOMAIN wire.exts : wire.exts[i].id = id /\ Field(wire, id) = wire.exts[i].data
  <2> SUFFICES ASSUME NEW id \in Nat, Field(wire, id) # Absent
               PROVE  \E i \in DOMAIN wire.exts :
                        wire.exts[i].id = id /\ Field(wire, id) = wire.exts[i].data
    OBVIOUS
  <2>1. Having(id) # {} /\ Field(wire, id) = wire.exts[Max(Having(id))].data
    BY Zenon DEF Field
  <2>2. Max(Having(id)) \in Having(id)
    <3>1. Having(id) \subseteq 0..Len(wire.exts) /\ Len(wire.exts) \in Nat
      BY DEF Readable
    <3> HIDE DEF Having
    <3> QED BY <2>1, <3>1, MaxIs
  <2> QED BY <2>1, <2>2
<1>6. HostFirst(Field(wire, 0).list)
  <2>1. CASE Field(wire, 0) = Absent
    BY <2>1 DEF Absent, HostFirst
  <2>2. CASE Field(wire, 0) # Absent
    <3>1. PICK i \in DOMAIN wire.exts :
            wire.exts[i].id = 0 /\ Field(wire, 0) = wire.exts[i].data
      BY <1>5, <2>2
    <3> DEFINE list == wire.exts[i].data.list
    <3>2. Len(list) \in Nat /\ DOMAIN list = 1..Len(list) /\ (list # <<>> => list[1].type = 0)
      BY <3>1 DEF Readable
    <3> HIDE DEF list
    <3>3. IsRow(list)
      BY <3>2 DEF IsRow
    <3>4. HostFirst(list)
      BY <3>2, <3>3, RowOfHosts
    <3> QED BY <3>1, <3>4 DEF list
  <2> QED BY <2>1, <2>2
<1>7. parseList(Field(wire, 16)) \in Seq(Seq(Nat))
  <2>1. CASE Field(wire, 16) = Absent
    BY <2>1, NoNames DEF Absent, parseList
  <2>2. CASE Field(wire, 16) # Absent
    <3>1. PICK i \in DOMAIN wire.exts :
            wire.exts[i].id = 16 /\ Field(wire, 16) = wire.exts[i].data
      BY <1>5, <2>2
    <3>2. Field(wire, 16).list \in Seq(Seq(Nat)) /\ Field(wire, 16).len \in Nat
      BY <3>1 DEF Readable
    <3> QED BY <3>2, NamesWithin
  <2> QED BY <2>1, <2>2
<1> HIDE DEF seen
<1>8. Lib!parseSNI(Field(wire, 0).list) = parseSNI(Field(wire, 0))
    BY <1>6, SameName
<1>9. ja4ALPNToken(seen) = Lib!ja4ALPNToken(read)
    BY <1>2, <1>3, <1>7, SameToken
<1>10. ja4VersionToken(seen) = Lib!ja4VersionToken(read)
  <2>1. tlsVersionTokens = Lib!tlsVersionTokens
    BY DEF tlsVersionTokens, Lib!tlsVersionTokens
  <2>2. stripGREASE(seen.versions) = Lib!stripGREASE(read.versions)
    BY <1>2, <1>3, SameStrip
  <2> DEFINE listed == Sublist(seen.versions, {i \in DOMAIN seen.versions : ~isGREASE(seen.versions[i])})
  <2>3. listed = stripGREASE(seen.versions)
    BY Zenon DEF stripGREASE
  <2> DEFINE supported == Lib!stripGREASE(read.versions)
             best == IF supported = <<>> THEN read.version ELSE Lib!Max(Lib!ToSet(supported))
  <2>4. \A s : Max(ToSet(s)) = Lib!Max(Lib!ToSet(s))
    BY Zenon DEF Max, Lib!Max, ToSet, Lib!ToSet
  <2>5. Lib!ja4VersionToken(read) =
          IF best \in DOMAIN Lib!tlsVersionTokens THEN Lib!tlsVersionTokens[best] ELSE "00"
    BY Zenon DEF Lib!ja4VersionToken
  <2>6. ja4VersionToken(seen) =
          LET highest == IF listed = <<>> THEN seen.version ELSE Max(ToSet(listed))
          IN IF highest \in DOMAIN tlsVersionTokens THEN tlsVersionTokens[highest] ELSE "00"
    BY Zenon DEF ja4VersionToken
  <2>7. listed = supported
    BY <2>2, <2>3, Zenon
  <2>8. ja4VersionToken(seen) =
          LET highest == IF supported = <<>> THEN seen.version ELSE Max(ToSet(supported))
          IN IF highest \in DOMAIN tlsVersionTokens THEN tlsVersionTokens[highest] ELSE "00"
    BY <2>6, <2>7, Zenon
  <2>9. seen.version = read.version /\ Max(ToSet(supported)) = Lib!Max(Lib!ToSet(supported))
    BY <1>2, <1>3, <2>4, Zenon
  <2> DEFINE highest == IF supported = <<>> THEN seen.version ELSE Max(ToSet(supported))
  <2>10. highest = best
    BY <2>9
  <2>11. ja4VersionToken(seen) =
           IF highest \in DOMAIN tlsVersionTokens THEN tlsVersionTokens[highest] ELSE "00"
    BY <2>8, Zenon
  <2> HIDE DEF highest, best
  <2> QED BY <2>1, <2>5, <2>10, <2>11
<1>11. ja4a(seen) = Lib!ja4A(read, "t")
    BY <1>2, <1>3, <1>4, <1>8, <1>9, <1>10, SameStrip, Zenon
       DEF ja4a, Lib!ja4A, Lib!pad2, Lib!ja4SNIToken
<1>12. ja4B(seen) = Lib!ja4B(read)
    BY <1>2, <1>3, SameStrip, SameSorted, Zenon DEF ja4B, Lib!ja4B
<1>13. ja4C(seen) = Lib!ja4C(read)
  <2> DEFINE ids == stripGREASE(seen.ids)
             named == Sublist(ids, {i \in DOMAIN ids : ids[i] # 0 /\ ids[i] # 16})
  <2>1. ids = Lib!stripGREASE(read.exts) /\ stripGREASE(seen.sigalgs) = Lib!stripGREASE(read.sigalgs)
    BY <1>2, <1>3, <1>4, SameStrip, Zenon
  <2>2. ja4C(seen) = <<Sorted(named), stripGREASE(seen.sigalgs)>>
    BY Zenon DEF ja4C
  <2>3. Lib!ja4C(read) = <<Lib!Sorted(Lib!Sublist(ids, {i \in DOMAIN ids : ids[i] # 0 /\ ids[i] # 16})),
                           Lib!stripGREASE(read.sigalgs)>>
    BY <2>1, Zenon DEF Lib!ja4C, Lib!ServerName, Lib!ALPN
  <2> HIDE DEF ids
  <2> QED BY <2>1, <2>2, <2>3, SameSublist, SameSorted, Zenon
<1>14. computeJA4(seen) = Lib!JA4(read)
    BY <1>11, <1>12, <1>13, Zenon DEF computeJA4, Lib!JA4
<1>15. computeJA3(seen) = Lib!JA3(read)
    BY <1>2, <1>3, <1>4, SameStrip, Zenon DEF computeJA3, Lib!JA3
<1>16. ja4R(seen) = Lib!JA4R(read)
    BY <1>2, <1>3, <1>4, <1>11, SameStrip, Zenon DEF ja4R, Lib!JA4R
<1> QED BY <1>14, <1>15, <1>16 DEF seen, Alike

\* The fields of a hello in which the library finds, under each id, the list
\* that lies within its length.
LEMMA FieldsAlike ==
    ASSUME NEW wire, Readable(wire), NEW other, ~Lib!Fails(other),
           other.version = wire.version, other.ciphers = wire.ciphers, Lib!Ids(other) = extIDs(wire),
           Lib!ListOf(other, 0) = Field(wire, 0).list,
           \A id \in Measured : Lib!ListOf(other, id) = parseList(Field(wire, id))
    PROVE  /\ Lib!ParseClientHello(other) # Lib!NoHello
           /\ Alike(parseClientHelloRecord(wire), Lib!ParseClientHello(other))
<1> DEFINE read == Lib!ParseClientHello(other)
<1>1. read = Lib!Fields(other)
  BY DEF Lib!ParseClientHello
<1> DEFINE fields == Lib!Fields(other)
<1>2. /\ fields.ok = TRUE /\ fields.version = other.version /\ fields.ciphers = other.ciphers
      /\ fields.exts = Lib!Ids(other)
      /\ fields.sni = Lib!parseSNI(Lib!ListOf(other, 0)) /\ fields.groups = Lib!ListOf(other, 10)
      /\ fields.pf = Lib!ListOf(other, 11) /\ fields.sigalgs = Lib!ListOf(other, 13)
      /\ fields.alpn = Lib!ListOf(other, 16) /\ fields.versions = Lib!ListOf(other, 43)
  BY DEF Lib!Fields, Lib!ServerName, Lib!SupportedGroups,
     Lib!PointFormats, Lib!SignatureAlgorithms, Lib!ALPN, Lib!SupportedVersions
<1>3. /\ 10 \in Measured /\ 11 \in Measured /\ 13 \in Measured /\ 16 \in Measured /\ 43 \in Measured
  BY DEF Measured
<1>4. read # Lib!NoHello
  BY <1>1, <1>2 DEF Lib!NoHello
<1> HIDE DEF read, fields
<1>5. /\ fields.version = wire.version /\ fields.ciphers = wire.ciphers /\ fields.exts = extIDs(wire)
      /\ fields.sni = Lib!parseSNI(Field(wire, 0).list)
      /\ fields.groups = parseList(Field(wire, 10)) /\ fields.pf = parseList(Field(wire, 11))
      /\ fields.sigalgs = parseList(Field(wire, 13)) /\ fields.alpn = parseList(Field(wire, 16))
      /\ fields.versions = parseList(Field(wire, 43))
  BY <1>2, <1>3
<1>6. Alike(parseClientHelloRecord(wire), read)
  BY <1>1, <1>5, AlikeIs DEF fields
<1> QED BY <1>4, <1>6 DEF read

\* Of every hello that TLS allows, computeJA4, computeJA3 and ja4R of fpd say
\* what JA4, JA3 and JA4R of the library say, which parse it, skip GREASE, sort
\* and cut in their own code; of any other they say what those say of the hello
\* put right (cmd/fpd/hello.go, ja34.go, mimic/fingerprint.go).
THEOREM ReadersAgree ==
    ASSUME NEW wire, Readable(wire)
    PROVE  LET seen == parseClientHelloRecord(wire)
           IN /\ WellFormed(wire) =>
                   /\ Lib!ParseClientHello(wire) # Lib!NoHello
                   /\ Alike(seen, Lib!ParseClientHello(wire))
              /\ Alike(seen, Lib!ParseClientHello(Tidied(wire)))
<1> DEFINE seen == parseClientHelloRecord(wire)
           At(x, id) == {i \in DOMAIN x.exts : x.exts[i].id = id}
<1>1. \A id \in Nat : At(wire, id) # {} =>
        /\ Max(At(wire, id)) \in DOMAIN wire.exts
        /\ wire.exts[Max(At(wire, id))].id = id
        /\ Field(wire, id) = wire.exts[Max(At(wire, id))].data
  <2> SUFFICES ASSUME NEW id \in Nat, At(wire, id) # {}
               PROVE  /\ Max(At(wire, id)) \in At(wire, id)
                      /\ Field(wire, id) = wire.exts[Max(At(wire, id))].data
    OBVIOUS
  <2>1. At(wire, id) \subseteq 0..Len(wire.exts) /\ Len(wire.exts) \in Nat
    BY DEF Readable
  <2>2. Max(At(wire, id)) \in At(wire, id)
    <3> HIDE DEF At
    <3> QED BY <2>1, MaxIs
  <2>3. Field(wire, id) = wire.exts[Max(At(wire, id))].data
    BY Zenon DEF Field
  <2> QED BY <2>2, <2>3
<1>2. \A id : At(wire, id) = {} => Field(wire, id) = Absent
  BY Zenon DEF Field
<1>3. Absent.list = <<>> /\ Absent.short = TRUE /\ parseList(Absent) = <<>>
  BY DEF Absent, parseList
<1>4. Measured \subseteq Nat /\ 0 \notin Measured /\ {10, 11, 13, 43} \subseteq Measured
  BY DEF Measured
<1>5. ASSUME WellFormed(wire)
      PROVE  /\ Lib!ParseClientHello(wire) # Lib!NoHello
             /\ Alike(seen, Lib!ParseClientHello(wire))
  <2>1. ~Lib!Fails(wire)
    BY <1>4, <1>5 DEF WellFormed, Lib!Fails, Lib!SupportedGroups, Lib!PointFormats,
       Lib!SignatureAlgorithms, Lib!SupportedVersions
  <2>2. ASSUME NEW id \in Measured PROVE Lib!ListOf(wire, id) = parseList(Field(wire, id))
    <3>1. CASE At(wire, id) = {}
      BY <1>2, <1>3, <3>1, SameField
    <3>2. CASE At(wire, id) # {}
      <4> DEFINE data == wire.exts[Max(At(wire, id))].data
      <4>1. Field(wire, id) = data /\ ~data.short /\ data.len = Len(data.list)
        BY <1>1, <1>4, <1>5, <3>2 DEF WellFormed
      <4>2. Len(data.list) \in Nat
        BY <1>1, <1>4, <3>2 DEF Readable
      <4> HIDE DEF data
      <4>3. parseList(data) = data.list
        BY <4>1, <4>2 DEF parseList
      <4> QED BY <4>1, <4>3, SameField
    <3> QED BY <3>1, <3>2
  <2>3. Lib!Ids(wire) = extIDs(wire)
    BY Zenon DEF extIDs, Lib!Ids
  <2> QED BY <2>1, <2>2, <2>3, SameField, FieldsAlike
<1>6. Alike(seen, Lib!ParseClientHello(Tidied(wire)))
  <2> DEFINE right == Tidied(wire)
  <2>1. /\ right.version = wire.version /\ right.ciphers = wire.ciphers /\ right.tail = FALSE
        /\ right.exts = [i \in DOMAIN wire.exts |-> Righted(wire.exts[i])]
    BY DEF Tidied
  <2> HIDE DEF right
  <2>2. /\ DOMAIN right.exts = DOMAIN wire.exts
        /\ \A i \in DOMAIN wire.exts : right.exts[i] = Righted(wire.exts[i])
    BY <2>1
  <2>3. \A e : Righted(e).id = e.id
    BY DEF Righted
  <2>4. \A e : e.id \in Measured => Righted(e).data = Own!Listed(parseList(e.data))
    BY DEF Righted
  <2>5. \A e : e.id \notin Measured => Righted(e) = e
    BY DEF Righted
  <2>6. \A list : Own!Listed(list).list = list /\ Own!Listed(list).short = FALSE
    BY DEF Own!Listed
  <2>7. ~Lib!Fails(right)
    <3>1. \A i \in DOMAIN right.exts : right.exts[i].id \in {10, 11, 13, 43} => right.exts[i].data.short = FALSE
      BY <1>4, <2>2, <2>3, <2>4, <2>6
    <3> QED BY <2>1, <3>1 DEF Lib!Fails, Lib!SupportedGroups, Lib!PointFormats,
       Lib!SignatureAlgorithms, Lib!SupportedVersions
  <2>8. Lib!Ids(right) = extIDs(wire)
    BY <2>2, <2>3 DEF extIDs, Lib!Ids
  <2>9. \A id : At(right, id) = At(wire, id)
    BY <2>2, <2>3
  <2>10. \A id : Lib!ListOf(right, id) =
                   IF At(wire, id) = {} THEN <<>> ELSE right.exts[Max(At(wire, id))].data.list
    <3> SUFFICES ASSUME NEW id
                 PROVE  Lib!ListOf(right, id) =
                          IF At(wire, id) = {} THEN <<>> ELSE right.exts[Max(At(wire, id))].data.list
      OBVIOUS
    <3>1. \A S : Lib!Max(S) = Max(S)
      BY Zenon DEF Max, Lib!Max
    <3>2. Lib!ListOf(right, id) =
            IF At(right, id) = {} THEN <<>> ELSE right.exts[Lib!Max(At(right, id))].data.list
      BY Zenon DEF Lib!ListOf
    <3> QED BY <2>9, <3>1, <3>2, Zenon
  <2> HIDE DEF At
  <2>11. ASSUME NEW id \in Measured PROVE Lib!ListOf(right, id) = parseList(Field(wire, id))
    <3>1. CASE At(wire, id) = {}
      BY <1>2, <1>3, <2>10, <3>1
    <3>2. CASE At(wire, id) # {}
      <4> DEFINE m == Max(At(wire, id))
      <4>1. m \in DOMAIN wire.exts /\ wire.exts[m].id = id /\ Field(wire, id) = wire.exts[m].data
        BY <1>1, <1>4, <3>2
      <4>2. Lib!ListOf(right, id) = right.exts[m].data.list
        BY <2>10, <3>2
      <4> HIDE DEF m
      <4> QED BY <2>2, <2>4, <2>6, <4>1, <4>2
    <3> QED BY <3>1, <3>2
  <2>12. Lib!ListOf(right, 0) = Field(wire, 0).list
    <3>1. CASE At(wire, 0) = {}
      BY <1>2, <1>3, <2>10, <3>1
    <3>2. CASE At(wire, 0) # {}
      <4> DEFINE m == Max(At(wire, 0))
      <4>1. m \in DOMAIN wire.exts /\ wire.exts[m].id = 0 /\ Field(wire, 0) = wire.exts[m].data
        BY <1>1, <3>2
      <4>2. Lib!ListOf(right, 0) = right.exts[m].data.list
        BY <2>10, <3>2
      <4> HIDE DEF m
      <4> QED BY <1>4, <2>2, <2>5, <4>1, <4>2
    <3> QED BY <3>1, <3>2
  <2>13. Alike(parseClientHelloRecord(wire), Lib!ParseClientHello(right))
    BY <2>1, <2>7, <2>8, <2>11, <2>12, FieldsAlike
  <2> QED BY <2>13 DEF right
<1> QED BY <1>5, <1>6

\* Every hello, of the library on any connection and after every shuffle or of a
\* stranger, is fingerprinted alike by fpd and by the library as far as TLS
\* allows it, and otherwise as the hello put right.
THEOREM OneFingerprint == StandsSpec => []FingerprintsAgree
<1>1. FingerprintsAgree
    BY ReadersAgree, Zenon DEF FingerprintsAgree, Seen, Read
<1> QED BY <1>1, PTL

------------------------------------------------------------------------------
(* Fragments that cover a handshake message, in any order.                  *)

LEMMA SameEdges == \A S : H3!Max(S) = Max(S) /\ H3!Min(S) = Min(S)
BY Zenon DEF H3!Max, Max, H3!Min, Min

\* Fragments by their offsets: pieces of a stream, which may overlap.
PiecesOf(frames, stream) ==
    /\ DOMAIN frames \subseteq Nat
    /\ \A o \in DOMAIN frames :
         /\ Len(frames[o]) \in Nat /\ o + Len(frames[o]) <= Len(stream)
         /\ \A i \in 1..Len(frames[o]) : frames[o][i] = stream[o + i]

Over(frames, i) == {o \in DOMAIN frames : o < i /\ i <= o + Len(frames[o])}

\* No byte of the first n is missing.
CoverFirst(frames, n) == \A i \in 1..n : Over(frames, i) # {}

ByteAt(frames, i) ==
    IF Over(frames, i) = {} THEN 0
    ELSE LET o == H3!Min(Over(frames, i)) IN frames[o][i - o]

LEMMA ByteIs ==
    ASSUME NEW stream, NEW frames, PiecesOf(frames, stream), NEW i \in Nat, Over(frames, i) # {}
    PROVE  ByteAt(frames, i) = stream[i]
<1> DEFINE o == H3!Min(Over(frames, i))
<1>1. Over(frames, i) \in SUBSET Nat
    BY DEF Over, PiecesOf
<1>2. o \in Over(frames, i)
    BY <1>1, SameEdges, MinIs
<1>3. ByteAt(frames, i) = frames[o][i - o]
    BY Zenon DEF ByteAt
<1> HIDE DEF o
<1>4. o \in DOMAIN frames /\ o \in Nat /\ Len(frames[o]) \in Nat /\ o < i /\ i <= o + Len(frames[o])
    BY <1>2 DEF Over, PiecesOf
<1>5. i - o \in 1..Len(frames[o]) /\ o + (i - o) = i
    BY <1>4
<1>6. frames[o][i - o] = stream[o + (i - o)]
    BY <1>4, <1>5 DEF PiecesOf
<1> QED BY <1>3, <1>5, <1>6

Reach(frames) == H3!Max({0} \cup {o + Len(frames[o]) : o \in DOMAIN frames})

LEMMA ReachIs ==
    ASSUME NEW stream, Len(stream) \in Nat, NEW frames, PiecesOf(frames, stream),
           NEW n \in Nat \ {0}, Over(frames, n) # {}
    PROVE  Reach(frames) \in Nat /\ n <= Reach(frames)
<1> DEFINE ends == {0} \cup {o + Len(frames[o]) : o \in DOMAIN frames}
<1>1. ends \in SUBSET (0..Len(stream)) /\ ends # {}
  <2>1. \A o \in DOMAIN frames : o + Len(frames[o]) \in 0..Len(stream)
    BY DEF PiecesOf
  <2> QED BY <2>1
<1>2. PICK o \in DOMAIN frames : o \in Nat /\ n <= o + Len(frames[o])
    BY DEF Over, PiecesOf
<1>3. o + Len(frames[o]) \in ends
    OBVIOUS
<1> HIDE DEF ends
<1> DEFINE size == H3!Max(ends)
<1>4. size \in ends /\ \A e \in ends : e <= size
    BY <1>1, SameEdges, MaxIs
<1> HIDE DEF size
<1>5. size \in Nat
    BY <1>1, <1>4
<1>6. o + Len(frames[o]) \in Nat /\ o + Len(frames[o]) <= size
    BY <1>1, <1>3, <1>4, SMTT(40)
<1>7. n <= size
  <2> DEFINE e == o + Len(frames[o])
  <2>1. e \in Nat /\ n <= e /\ e <= size
    BY <1>2, <1>6
  <2> HIDE DEF e
  <2> QED BY <1>5, <2>1
<1> QED BY <1>5, <1>7 DEF size, ends, Reach

\* The length in a handshake header.
Announced(stream) == stream[2] * 65536 + stream[3] * 256 + stream[4]

\* Fragments of one stream that leave no hole in the first message give exactly
\* that message, whatever their order and number, and however they overlap
\* (ClientHelloMessage, quicwire.go).
THEOREM Reassembly ==
    ASSUME NEW stream \in Seq(Nat), NEW frames, PiecesOf(frames, stream),
           NEW length \in Nat, length = Announced(stream),
           4 + length <= Len(stream), CoverFirst(frames, 4 + length)
    PROVE  H3!ClientHelloMessage(frames) = SubSeq(stream, 1, 4 + length)
<1> DEFINE size == Reach(frames)
           read == ByteAt(frames, 2) * 65536 + ByteAt(frames, 3) * 256 + ByteAt(frames, 4)
<1>1. H3!ClientHelloMessage(frames) =
        IF size < 4 \/ size < 4 + read THEN H3!NoHello ELSE [i \in 1..4 + read |-> ByteAt(frames, i)]
    BY DEF H3!ClientHelloMessage, ByteAt, Over, Reach
<1>2. \A i \in 1..4 + length : ByteAt(frames, i) = stream[i]
    BY ByteIs DEF CoverFirst
<1>3. size \in Nat /\ 4 + length <= size
  <2>1. 4 + length \in Nat \ {0} /\ Len(stream) \in Nat
    OBVIOUS
  <2>2. Over(frames, 4 + length) # {}
    BY DEF CoverFirst
  <2> HIDE DEF size
  <2> QED BY <2>1, <2>2, ReachIs DEF size
<1>4. read = length
  <2>1. 2 \in 1..4 + length /\ 3 \in 1..4 + length /\ 4 \in 1..4 + length
    OBVIOUS
  <2>2. ByteAt(frames, 2) = stream[2] /\ ByteAt(frames, 3) = stream[3] /\ ByteAt(frames, 4) = stream[4]
    BY <1>2, <2>1
  <2> QED BY <2>2, SMTT(40) DEF Announced
<1> HIDE DEF size, read
<1>5. ~(size < 4 \/ size < 4 + read)
    BY <1>3, <1>4
<1>6. H3!ClientHelloMessage(frames) = [i \in 1..4 + length |-> ByteAt(frames, i)]
  <2>1. H3!ClientHelloMessage(frames) = [i \in 1..4 + read |-> ByteAt(frames, i)]
    BY <1>1, <1>5
  <2> QED BY <1>4, <2>1
<1>7. H3!ClientHelloMessage(frames) = [i \in 1..4 + length |-> stream[i]]
    BY <1>2, <1>6
<1>8. SubSeq(stream, 1, 4 + length) = [i \in 1..4 + length |-> stream[i]]
    OBVIOUS
<1> QED BY <1>7, <1>8

------------------------------------------------------------------------------
(* Walks over the positions of a list.                                      *)

\* A walk over the positions of a list that never goes back is a function.
LEMMA Walk ==
    ASSUME NEW n \in Nat \ {0}, NEW step,
           \A i \in 1..n : step[i].ok => step[i].next \in (i + 1)..n
    PROVE  \E f : f = [i \in 1..n |-> IF step[i].ok THEN step[i].found \o f[step[i].next]
                                      ELSE step[i].found]
<1> DEFINE From(f, m) ==
      f = [i \in m..n |-> IF step[i].ok THEN step[i].found \o f[step[i].next] ELSE step[i].found]
<1> DEFINE Good == {m \in 1..n : \E f : From(f, m)}
<1>1. n \in Good
  <2> DEFINE f == [i \in n..n |-> step[i].found]
  <2>1. \A i \in n..n : ~step[i].ok
    OBVIOUS
  <2>2. From(f, n)
    BY <2>1
  <2>3. n \in 1..n
    OBVIOUS
  <2> HIDE DEF From, f
  <2> QED BY <2>2, <2>3
<1>2. ASSUME NEW m \in Good, m # 1 PROVE m - 1 \in Good
  <2>1. PICK f : From(f, m)
    OBVIOUS
  <2> DEFINE k == m - 1
             g == [i \in k..n |-> IF i \in m..n THEN f[i]
                                  ELSE IF step[k].ok THEN step[k].found \o f[step[k].next]
                                  ELSE step[k].found]
  <2>2. m \in 1..n /\ k \in 1..n /\ k + 1 = m /\ \A i \in k..n : i = k \/ i \in m..n
    BY <1>2
  <2>3. \A i \in m..n : g[i] = f[i]
    BY <2>2
  <2>4. \A i \in k..n : step[i].ok => step[i].next \in m..n
    BY <2>2
  <2>5. \A i \in m..n : g[i] = IF step[i].ok THEN step[i].found \o g[step[i].next] ELSE step[i].found
    <3> SUFFICES ASSUME NEW i \in m..n
                 PROVE  g[i] = IF step[i].ok THEN step[i].found \o g[step[i].next] ELSE step[i].found
      OBVIOUS
    <3>1. f[i] = IF step[i].ok THEN step[i].found \o f[step[i].next] ELSE step[i].found
      BY <2>1
    <3>2. i \in k..n /\ g[i] = f[i]
      BY <2>2, <2>3
    <3>3. step[i].ok => g[step[i].next] = f[step[i].next]
      BY <2>3, <2>4, <3>2
    <3> HIDE DEF g
    <3> QED BY <3>1, <3>2, <3>3
  <2>6. g[k] = IF step[k].ok THEN step[k].found \o g[step[k].next] ELSE step[k].found
    <3>1. k \in k..n /\ k \notin m..n
      BY <2>2
    <3>2. g[k] = IF step[k].ok THEN step[k].found \o f[step[k].next] ELSE step[k].found
      BY <3>1
    <3>3. step[k].ok => g[step[k].next] = f[step[k].next]
      BY <2>3, <2>4, <3>1
    <3> HIDE DEF g
    <3> QED BY <3>2, <3>3
  <2>7. From(g, k)
    <3>1. g = [i \in k..n |-> g[i]]
      OBVIOUS
    <3> HIDE DEF g
    <3> QED BY <2>2, <2>5, <2>6, <3>1
  <2> QED BY <2>2, <2>7
<1>3. 1 \in Good
  <2>1. PICK m \in Good : \A k \in Good : m <= k
    <3>1. Good \in SUBSET Nat
      <4> HIDE DEF From
      <4> QED OBVIOUS
    <3>2. Good # {}
      <4> HIDE DEF Good
      <4> QED BY <1>1
    <3> HIDE DEF Good
    <3> QED BY <3>1, <3>2, LeastOf
  <2>2. m # 1 => m - 1 \in Good /\ m - 1 < m
    <3>1. m \in Nat
      OBVIOUS
    <3> HIDE DEF Good
    <3> QED BY <1>2, <3>1
  <2>3. m = 1
    <3>1. m \in Nat
      OBVIOUS
    <3> HIDE DEF Good
    <3> QED BY <2>1, <2>2, <3>1
  <2> QED BY <2>3
<1> QED BY <1>3

------------------------------------------------------------------------------
(* Varints, fields and frames.                                              *)

LEMMA FromIs ==
    ASSUME NEW b \in Seq(Nat), NEW i \in 1..Len(b) + 1
    PROVE  /\ H3!From(b, i) \in Seq(Nat)
           /\ Len(H3!From(b, i)) = Len(b) - i + 1
           /\ \A k \in 1..Len(b) - i + 1 : H3!From(b, i)[k] = b[i + k - 1]
BY DEF H3!From

LEMMA VarintIs ==
    ASSUME NEW b \in Seq(Nat)
    PROVE  LET read == H3!ReadVarint(b) IN
           /\ read.ok \in BOOLEAN /\ read.value \in Nat
           /\ read.ok => read.size \in 1..8 /\ read.size <= Len(b)
           /\ ~read.ok => read = H3!NoVarint
<1> DEFINE size == IF b[1] < 64 THEN 1 ELSE IF b[1] < 128 THEN 2 ELSE IF b[1] < 192 THEN 4 ELSE 8
           two == H3!Then(b[1] % 64, b[2])
           four == H3!Then(H3!Then(two, b[3]), b[4])
           eight == H3!Then(H3!Then(H3!Then(H3!Then(four, b[5]), b[6]), b[7]), b[8])
           value == CASE size = 1 -> b[1] [] size = 2 -> two [] size = 4 -> four [] size = 8 -> eight
           read == H3!ReadVarint(b)
<1>1. read = IF b = <<>> \/ Len(b) < size THEN H3!NoVarint
             ELSE [ok |-> TRUE, size |-> size, value |-> value]
    BY Zenon DEF H3!ReadVarint
<1>2. CASE b = <<>> \/ Len(b) < size
    BY <1>1, <1>2 DEF H3!NoVarint
<1>3. CASE ~(b = <<>> \/ Len(b) < size)
  <2>1. size \in {1, 2, 4, 8} /\ size <= Len(b)
    BY <1>3
  <2>2. \A v \in Nat, x \in Nat : H3!Then(v, x) \in Nat
    BY DEF H3!Then
  <2>3. \A k \in 1..Len(b) : b[k] \in Nat
    OBVIOUS
  <2>4. 1 \in 1..Len(b) /\ b[1] \in Nat /\ b[1] % 64 \in Nat
    BY <1>3, <2>3
  <2>5. size \in {2, 4, 8} => two \in Nat
    <3>1. size \in {2, 4, 8} => b[2] \in Nat
      <4> HIDE DEF size
      <4> QED BY <2>1, <2>3
    <3> QED BY <2>2, <2>4, <3>1
  <2>6. size \in {4, 8} => four \in Nat
    <3>1. size \in {4, 8} => b[3] \in Nat /\ b[4] \in Nat
      <4> HIDE DEF size
      <4> QED BY <2>1, <2>3
    <3> HIDE DEF two, size
    <3> QED BY <2>2, <2>5, <3>1
  <2>7. size = 8 => eight \in Nat
    <3>1. size = 8 => b[5] \in Nat /\ b[6] \in Nat /\ b[7] \in Nat /\ b[8] \in Nat
      <4> HIDE DEF size
      <4> QED BY <2>1, <2>3
    <3> HIDE DEF four, size
    <3> QED BY <2>2, <2>6, <3>1
  <2>8. value \in Nat
    <3> HIDE DEF size, two, four, eight
    <3> QED BY <2>1, <2>4, <2>5, <2>6, <2>7
  <2> HIDE DEF size, value, read
  <2>9. read = [ok |-> TRUE, size |-> size, value |-> value]
    BY <1>1, <1>3
  <2> QED BY <2>1, <2>8, <2>9 DEF read
<1> QED BY <1>2, <1>3

VarintRead(read, i, end) ==
    /\ read.ok \in BOOLEAN /\ read.value \in Nat
    /\ read.ok => read.size \in 1..8 /\ i + read.size <= end
    /\ ~read.ok => read.size = 0

LEMMA VarintAt ==
    ASSUME NEW b \in Seq(Nat), NEW i \in 1..Len(b) + 1
    PROVE  VarintRead(H3!ReadVarint(H3!From(b, i)), i, Len(b) + 1)
<1> DEFINE read == H3!ReadVarint(H3!From(b, i))
<1>1. /\ read.ok \in BOOLEAN /\ read.value \in Nat
      /\ read.ok => read.size \in 1..8 /\ read.size <= Len(b) - i + 1
      /\ ~read.ok => read = H3!NoVarint
    BY FromIs, VarintIs
<1> HIDE DEF read
<1> QED BY <1>1, SMTT(40) DEF read, H3!NoVarint, VarintRead

\* The varints of one byte and of two, and the end.
LEMMA OneByte ==
    ASSUME NEW b \in Seq(Nat), NEW i \in 1..Len(b), b[i] < 64
    PROVE  H3!ReadVarint(H3!From(b, i)) = [ok |-> TRUE, size |-> 1, value |-> b[i]]
<1> DEFINE v == H3!From(b, i)
<1>1. v \in Seq(Nat) /\ v[1] = b[i] /\ Len(v) >= 1 /\ v # <<>>
    BY FromIs
<1> HIDE DEF v
<1> QED BY <1>1 DEF H3!ReadVarint, v

LEMMA TwoBytes ==
    ASSUME NEW b \in Seq(Nat), NEW i \in 1..Len(b), i + 1 <= Len(b), 64 <= b[i], b[i] < 128
    PROVE  H3!ReadVarint(H3!From(b, i)) =
             [ok |-> TRUE, size |-> 2, value |-> (b[i] % 64) * 256 + b[i + 1]]
<1> DEFINE v == H3!From(b, i)
<1>1. /\ v \in Seq(Nat) /\ Len(v) = Len(b) - i + 1
      /\ \A k \in 1..Len(b) - i + 1 : v[k] = b[i + k - 1]
    BY FromIs
<1>2. 1 \in 1..Len(b) - i + 1 /\ 2 \in 1..Len(b) - i + 1 /\ i + 1 - 1 = i /\ i + 2 - 1 = i + 1
    OBVIOUS
<1>3. v[1] = b[i] /\ v[2] = b[i + 1] /\ Len(v) >= 2 /\ v # <<>>
  <2> HIDE DEF v
  <2> QED BY <1>1, <1>2
<1> HIDE DEF v
<1>4. H3!ReadVarint(v) = [ok |-> TRUE, size |-> 2, value |-> H3!Then(v[1] % 64, v[2])]
  <2> DEFINE size == IF v[1] < 64 THEN 1 ELSE IF v[1] < 128 THEN 2 ELSE IF v[1] < 192 THEN 4 ELSE 8
             four == H3!Then(H3!Then(H3!Then(v[1] % 64, v[2]), v[3]), v[4])
             eight == H3!Then(H3!Then(H3!Then(H3!Then(four, v[5]), v[6]), v[7]), v[8])
             value == CASE size = 1 -> v[1] [] size = 2 -> H3!Then(v[1] % 64, v[2])
                        [] size = 4 -> four [] size = 8 -> eight
  <2>1. H3!ReadVarint(v) = IF v = <<>> \/ Len(v) < size THEN H3!NoVarint
                           ELSE [ok |-> TRUE, size |-> size, value |-> value]
    BY Zenon DEF H3!ReadVarint
  <2> HIDE DEF v
  <2>2. size = 2
    BY <1>3
  <2> HIDE DEF size, four, eight
  <2>3. value = H3!Then(v[1] % 64, v[2])
    BY <2>2
  <2> HIDE DEF value
  <2>4. ~(v = <<>> \/ Len(v) < size)
    BY <1>1, <1>3, <2>2
  <2> QED BY <2>1, <2>2, <2>3, <2>4, Zenon
<1> QED BY <1>3, <1>4 DEF H3!Then, v

LEMMA NoByte ==
    ASSUME NEW b \in Seq(Nat) PROVE H3!ReadVarint(H3!From(b, Len(b) + 1)) = H3!NoVarint
<1>1. H3!From(b, Len(b) + 1) = <<>>
    BY FromIs
<1> QED BY <1>1, Zenon DEF H3!ReadVarint

LEMMA BlockIs ==
    ASSUME NEW b, NEW id, NEW length, NEW start
    PROVE  /\ H3!Block(b, id, length, start).next = start + length.value
           /\ H3!Block(b, id, length, start).id = id.value
           /\ H3!Block(b, id, length, start).ok <=>
                (id.ok /\ length.ok /\ start + length.value <= Len(b) + 1)
           /\ (id.ok /\ length.ok /\ start + length.value <= Len(b) + 1) =>
                H3!Block(b, id, length, start).data = SubSeq(b, start, (start + length.value) - 1)
<1> DEFINE next == start + length.value
           ok == id.ok /\ length.ok /\ next <= Len(b) + 1
           data == IF ok THEN SubSeq(b, start, next - 1) ELSE <<>>
           block == H3!Block(b, id, length, start)
<1>1. block = [ok |-> ok, id |-> id.value, next |-> next, data |-> data]
    BY Zenon DEF H3!Block
<1>2. block.ok = ok /\ block.id = id.value /\ block.next = next /\ block.data = data
  <2> HIDE DEF ok, next, data, block
  <2> QED BY <1>1, Zenon
<1>3. block.ok <=> ok
  <2> HIDE DEF ok, block
  <2> QED BY <1>2, Zenon
<1>4. ok => data = SubSeq(b, start, next - 1)
  <2> HIDE DEF ok
  <2> QED OBVIOUS
<1>5. block.next = next /\ block.id = id.value /\ (ok => block.data = SubSeq(b, start, next - 1))
  <2> HIDE DEF ok, block, data
  <2> QED BY <1>2, <1>4, Zenon
<1> HIDE DEF block
<1>6. block.ok <=> (id.ok /\ length.ok /\ start + length.value <= Len(b) + 1)
    BY <1>3, Zenon
<1>7. /\ block.next = start + length.value /\ block.id = id.value
      /\ (id.ok /\ length.ok /\ start + length.value <= Len(b) + 1) =>
           block.data = SubSeq(b, start, (start + length.value) - 1)
  <2> HIDE DEF ok
  <2>1. ok <=> (id.ok /\ length.ok /\ start + length.value <= Len(b) + 1)
    BY Zenon DEF ok
  <2>2. block.next = next /\ block.id = id.value
    BY <1>5
  <2>3. ASSUME ok PROVE block.data = SubSeq(b, start, next - 1)
    BY <1>5, <2>3
  <2>4. (id.ok /\ length.ok /\ start + length.value <= Len(b) + 1) =>
           block.data = SubSeq(b, start, (start + length.value) - 1)
    BY <2>1, <2>3, Zenon
  <2> QED BY <2>2, <2>4, Zenon
<1> QED BY <1>6, <1>7, Zenon DEF block

LEMMA FieldGoesOn ==
    ASSUME NEW b \in Seq(Nat), NEW i \in 1..Len(b) + 1, H3!Field(b, i).ok
    PROVE  H3!Field(b, i).next \in (i + 1)..(Len(b) + 1)
<1> DEFINE id == H3!ReadVarint(H3!From(b, i))
           pos == i + id.size
           length == H3!ReadVarint(H3!From(b, pos))
           start == pos + length.size
<1>1. H3!Field(b, i) = H3!Block(b, id, length, start)
    BY Zenon DEF H3!Field
<1>2. /\ H3!Field(b, i).next = start + length.value
      /\ id.ok /\ length.ok /\ start + length.value <= Len(b) + 1
  <2> HIDE DEF id, length, start
  <2>1. H3!Block(b, id, length, start).ok
    BY <1>1, Zenon
  <2> QED BY <1>1, <2>1, BlockIs, ZenonT(40)
<1>3. VarintRead(id, i, Len(b) + 1)
    BY VarintAt
<1> HIDE DEF id
<1>4. id.size \in 1..8 /\ pos \in 1..Len(b) + 1
    BY <1>2, <1>3 DEF VarintRead
<1>5. VarintRead(length, pos, Len(b) + 1)
  <2>1. pos \in 1..Len(b) + 1
    BY <1>4
  <2> HIDE DEF pos
  <2> QED BY <2>1, VarintAt
<1> HIDE DEF length
<1>6. length.size \in 1..8 /\ length.value \in Nat
    BY <1>2, <1>5 DEF VarintRead
<1>7. pos \in (i + 1)..(Len(b) + 1)
    BY <1>4
<1> HIDE DEF pos
<1>8. start + length.value \in (i + 1)..(Len(b) + 1)
  <2>1. pos \in Nat /\ length.size \in Nat /\ length.value \in Nat /\ i \in Nat /\ Len(b) \in Nat
    BY <1>6, <1>7
  <2>2. start \in Nat /\ i + 1 <= start
    BY <1>7, <2>1
  <2> HIDE DEF start
  <2> QED BY <1>2, <2>1, <2>2
<1> QED BY <1>2, <1>8, Zenon

LEMMA FrameGoesOn ==
    ASSUME NEW b \in Seq(Nat), NEW i \in 1..Len(b) + 1, H3!FrameAt(b, i).ok
    PROVE  H3!FrameAt(b, i).next \in (i + 1)..(Len(b) + 1)
<1> DEFINE type == H3!ReadVarint(H3!From(b, i))
           crypto == H3!Field(b, i + type.size)
           other == H3!Field(b, i)
<1>1. /\ type.ok \in BOOLEAN /\ type.value \in Nat
      /\ type.ok => type.size \in 1..8 /\ i + type.size \in 1..Len(b) + 1
  <2>1. VarintRead(type, i, Len(b) + 1)
    BY VarintAt
  <2> HIDE DEF type
  <2> QED BY <2>1 DEF VarintRead
<1>2. type.ok /\ crypto.ok => crypto.next \in (i + type.size + 1)..(Len(b) + 1)
  <2> HIDE DEF type
  <2> QED BY <1>1, FieldGoesOn
<1>3. other.ok => other.next \in (i + 1)..(Len(b) + 1)
    BY FieldGoesOn
<1>4. H3!FrameAt(b, i) =
        CASE ~type.ok -> [ok |-> FALSE, found |-> <<>>, next |-> i]
          [] type.ok /\ type.value \in {0, 1} -> [ok |-> TRUE, found |-> <<>>, next |-> i + type.size]
          [] type.ok /\ type.value = 6 /\ crypto.ok ->
               [ok |-> TRUE, found |-> <<[offset |-> crypto.id, data |-> crypto.data]>>,
                next |-> crypto.next]
          [] type.ok /\ type.value = 6 /\ ~crypto.ok -> [ok |-> FALSE, found |-> <<>>, next |-> i]
          [] OTHER -> [ok |-> other.ok, found |-> <<>>, next |-> other.next]
    BY Zenon DEF H3!FrameAt
<1> HIDE DEF type, crypto, other
<1>5. CASE ~type.ok
    BY <1>4, <1>5
<1>6. CASE type.ok /\ type.value \in {0, 1}
  <2>1. H3!FrameAt(b, i) = [ok |-> TRUE, found |-> <<>>, next |-> i + type.size]
    BY <1>4, <1>6
  <2> QED BY <1>1, <1>6, <2>1
<1>7. CASE type.ok /\ type.value = 6
  <2>1. CASE crypto.ok
    <3>1. H3!FrameAt(b, i) =
            [ok |-> TRUE, found |-> <<[offset |-> crypto.id, data |-> crypto.data]>>,
             next |-> crypto.next]
      BY <1>4, <1>7, <2>1
    <3>2. H3!FrameAt(b, i).next = crypto.next
      BY <3>1
    <3>3. type.size \in 1..8 /\ crypto.next \in (i + type.size + 1)..(Len(b) + 1)
      BY <1>1, <1>2, <1>7, <2>1
    <3> QED BY <3>2, <3>3
  <2>2. CASE ~crypto.ok
    <3>1. H3!FrameAt(b, i) = [ok |-> FALSE, found |-> <<>>, next |-> i]
      BY <1>4, <1>7, <2>2
    <3> QED BY <3>1
  <2> QED BY <2>1, <2>2
<1>8. CASE type.ok /\ type.value \notin {0, 1, 6}
  <2>1. H3!FrameAt(b, i) = [ok |-> other.ok, found |-> <<>>, next |-> other.next]
    BY <1>4, <1>8
  <2> QED BY <1>3, <2>1
<1> QED BY <1>5, <1>6, <1>7, <1>8

\* What cryptoFrames finds is what is found from one position to the next.
FramesFrom(b, rest) ==
    \A i \in 1..Len(b) + 1 :
        rest[i] = IF H3!FrameAt(b, i).ok
                    THEN H3!FrameAt(b, i).found \o rest[H3!FrameAt(b, i).next]
                    ELSE H3!FrameAt(b, i).found

LEMMA FramesWalk ==
    ASSUME NEW b \in Seq(Nat)
    PROVE  \E rest : H3!cryptoFrames(b) = rest[1] /\ FramesFrom(b, rest)
<1> DEFINE n == Len(b) + 1
           step == [i \in 1..n |-> H3!FrameAt(b, i)]
           IsRest(f) == f = [i \in 1..n |-> IF H3!FrameAt(b, i).ok
                              THEN H3!FrameAt(b, i).found \o f[H3!FrameAt(b, i).next]
                              ELSE H3!FrameAt(b, i).found]
           rest == CHOOSE f : IsRest(f)
<1>1. H3!cryptoFrames(b) = rest[1]
    BY Zenon DEF H3!cryptoFrames, H3!Onward
<1>2. n \in Nat \ {0}
    OBVIOUS
<1>3. \A i \in 1..n : step[i].ok => step[i].next \in (i + 1)..n
    BY FrameGoesOn
<1>4. \E f : f = [i \in 1..n |-> IF step[i].ok THEN step[i].found \o f[step[i].next]
                                 ELSE step[i].found]
  <2> HIDE DEF n, step
  <2> QED BY <1>2, <1>3, Walk
<1>5. \E f : IsRest(f)
  <2>1. \A i \in 1..n : step[i] = H3!FrameAt(b, i)
    OBVIOUS
  <2>2. PICK f : f = [i \in 1..n |-> IF step[i].ok THEN step[i].found \o f[step[i].next]
                                     ELSE step[i].found]
    BY <1>4
  <2> HIDE DEF n, step
  <2>3. IsRest(f)
    BY <2>1, <2>2
  <2> QED BY <2>3
<1>6. IsRest(rest)
  <2> HIDE DEF IsRest
  <2> QED BY <1>5, Zenon
<1> HIDE DEF rest
<1>7. \A i \in 1..n : rest[i] = IF H3!FrameAt(b, i).ok
                              THEN H3!FrameAt(b, i).found \o rest[H3!FrameAt(b, i).next]
                              ELSE H3!FrameAt(b, i).found
  <2> HIDE DEF n
  <2> QED BY <1>6
<1> QED BY <1>1, <1>7 DEF FramesFrom

LEMMA Shift == \A i, k \in Nat : (i + 1 + k) + 1 = i + 2 + k /\ (i + 2 + k) - 1 = i + 1 + k
    OBVIOUS

\* A field whose id and length are of one byte.
ShortField(b, i, last) ==
    /\ H3!Field(b, i).ok /\ H3!Field(b, i).id = b[i]
    /\ H3!Field(b, i).next = last + 1
    /\ H3!Field(b, i).data = SubSeq(b, i + 2, last)

LEMMA PlainField ==
    ASSUME NEW b \in Seq(Nat), NEW i \in 1..Len(b), i + 1 \in 1..Len(b),
           b[i] < 64, b[i + 1] < 64, NEW last \in 1..Len(b), last = i + 1 + b[i + 1]
    PROVE  ShortField(b, i, last)
<1> DEFINE j == i + 1
           id == H3!ReadVarint(H3!From(b, i))
           length == H3!ReadVarint(H3!From(b, i + id.size))
<1>1. H3!Field(b, i) = H3!Block(b, id, length, i + id.size + length.size)
    BY Zenon DEF H3!Field
<1>2. id = [ok |-> TRUE, size |-> 1, value |-> b[i]]
    BY OneByte
<1> HIDE DEF id
<1>3. id.ok /\ id.size = 1 /\ id.value = b[i]
    BY <1>2
<1>4. length = [ok |-> TRUE, size |-> 1, value |-> b[j]]
  <2>1. H3!ReadVarint(H3!From(b, j)) = [ok |-> TRUE, size |-> 1, value |-> b[j]]
    BY OneByte
  <2> QED BY <1>3, <2>1
<1> HIDE DEF length
<1>5. length.ok /\ length.size = 1 /\ length.value = b[j]
    BY <1>4
<1>6. i + id.size + length.size = i + 2
    BY <1>3, <1>5
<1>7. H3!Field(b, i) = H3!Block(b, id, length, i + 2)
    BY <1>1, <1>6
<1>8. i + 2 + length.value <= Len(b) + 1
    BY <1>5
<1> DEFINE start == i + 2
<1> HIDE DEF start
<1>9. id.ok /\ length.ok /\ start + length.value <= Len(b) + 1
    BY <1>3, <1>5, <1>8 DEF start
<1>10. H3!Field(b, i) = H3!Block(b, id, length, start)
    BY <1>7 DEF start
<1>11. /\ H3!Field(b, i).ok /\ H3!Field(b, i).id = id.value
       /\ H3!Field(b, i).next = start + length.value
       /\ H3!Field(b, i).data = SubSeq(b, start, (start + length.value) - 1)
    BY <1>9, <1>10, BlockIs
<1>12. start + length.value = last + 1 /\ (start + length.value) - 1 = last
  <2>1. b[j] \in Nat /\ i \in Nat /\ last \in Nat /\ last = i + 1 + b[j]
    OBVIOUS
  <2>2. length.value = b[j] /\ start = i + 2
    BY <1>5 DEF start
  <2> DEFINE size == b[j]
  <2>3. size \in Nat /\ last = i + 1 + size /\ length.value = size
    BY <2>1, <2>2
  <2> HIDE DEF j, size
  <2>4. start = i + 2 /\ i \in Nat /\ last \in Nat
    BY <2>1, <2>2
  <2>5. start + length.value = i + 2 + size
    BY <2>3, <2>4
  <2>6. last + 1 = i + 2 + size /\ (i + 2 + size) - 1 = last
    <3>1. (i + 1 + size) + 1 = i + 2 + size /\ (i + 2 + size) - 1 = i + 1 + size
      BY <2>3, <2>4, Shift, Zenon
    <3> QED BY <2>3, <3>1, Zenon
  <2> QED BY <2>5, <2>6, Zenon
<1>13. /\ H3!Field(b, i).ok /\ H3!Field(b, i).id = b[i]
       /\ H3!Field(b, i).next = last + 1
       /\ H3!Field(b, i).data = SubSeq(b, i + 2, last)
    BY <1>3, <1>11, <1>12 DEF start
<1> QED BY <1>13, Zenon DEF ShortField

\* Frames: PADDING and PING, the end, CRYPTO.
LEMMA PaddingAt ==
    ASSUME NEW b \in Seq(Nat), NEW i \in 1..Len(b), b[i] \in {0, 1}
    PROVE  H3!FrameAt(b, i) = [ok |-> TRUE, found |-> <<>>, next |-> i + 1]
<1>1. H3!ReadVarint(H3!From(b, i)) = [ok |-> TRUE, size |-> 1, value |-> b[i]]
    BY OneByte
<1> DEFINE type == H3!ReadVarint(H3!From(b, i))
<1> HIDE DEF type
<1>2. type.ok /\ type.size = 1 /\ type.value = b[i]
    BY <1>1 DEF type
<1> QED BY <1>2 DEF H3!FrameAt, type

LEMMA EndAt ==
    ASSUME NEW b \in Seq(Nat)
    PROVE  H3!FrameAt(b, Len(b) + 1) = [ok |-> FALSE, found |-> <<>>, next |-> Len(b) + 1]
<1>1. H3!ReadVarint(H3!From(b, Len(b) + 1)) = H3!NoVarint
    BY NoByte
<1> DEFINE type == H3!ReadVarint(H3!From(b, Len(b) + 1))
<1> HIDE DEF type
<1>2. ~type.ok
    BY <1>1 DEF type, H3!NoVarint
<1> QED BY <1>2 DEF H3!FrameAt, type

Piece(o, data) == [offset |-> o, data |-> data]

LEMMA CryptoAt ==
    ASSUME NEW b \in Seq(Nat), NEW i \in 1..Len(b), b[i] = 6, H3!Field(b, i + 1).ok
    PROVE  H3!FrameAt(b, i) =
             [ok |-> TRUE, found |-> <<Piece(H3!Field(b, i + 1).id, H3!Field(b, i + 1).data)>>,
              next |-> H3!Field(b, i + 1).next]
<1>1. H3!ReadVarint(H3!From(b, i)) = [ok |-> TRUE, size |-> 1, value |-> b[i]]
    BY OneByte
<1> DEFINE type == H3!ReadVarint(H3!From(b, i))
<1> HIDE DEF type
<1>2. type.ok /\ type.size = 1 /\ type.value = 6
    BY <1>1 DEF type
<1>3. H3!Field(b, i + type.size) = H3!Field(b, i + 1)
    BY <1>2
<1> QED BY <1>2, <1>3 DEF H3!FrameAt, type, Piece

LEMMA OneOfOne == ASSUME NEW x PROVE <<>> \o <<x>> = <<x>> /\ <<x>> \o <<>> = <<x>>
<1>1. <<x>> \in Seq({x}) /\ <<>> \in Seq({x})
    OBVIOUS
<1> QED BY <1>1

LEMMA TwoOfOne == ASSUME NEW x, NEW y PROVE <<x>> \o <<y>> = <<x, y>>
<1> DEFINE s == <<x>> \o <<y>>
<1>1. <<x>> \in Seq({x, y}) /\ <<y>> \in Seq({x, y})
    OBVIOUS
<1>2. s \in Seq({x, y}) /\ Len(s) = 2 /\ s[1] = x /\ s[2] = y
    BY <1>1
<1> HIDE DEF s
<1>3. s = <<s[1], s[2]>>
    BY <1>2
<1> QED BY <1>2, <1>3 DEF s

LEMMA SubIs ==
    ASSUME NEW b \in Seq(Nat), NEW i \in 1..Len(b)
    PROVE  /\ SubSeq(b, i, i) = <<b[i]>>
           /\ i + 3 <= Len(b) => SubSeq(b, i, i + 3) = <<b[i], b[i + 1], b[i + 2], b[i + 3]>>
<1>1. SubSeq(b, i, i) = <<b[i]>>
  <2> DEFINE s == SubSeq(b, i, i)
  <2>1. s \in Seq(Nat) /\ Len(s) = 1 /\ s[1] = b[i]
    OBVIOUS
  <2> HIDE DEF s
  <2>2. s = <<s[1]>>
    BY <2>1
  <2> QED BY <2>1, <2>2 DEF s
<1>2. ASSUME i + 3 <= Len(b)
      PROVE  SubSeq(b, i, i + 3) = <<b[i], b[i + 1], b[i + 2], b[i + 3]>>
  <2> DEFINE s == SubSeq(b, i, i + 3)
  <2>1. /\ s \in Seq(Nat) /\ Len(s) = 4
        /\ s[1] = b[i] /\ s[2] = b[i + 1] /\ s[3] = b[i + 2] /\ s[4] = b[i + 3]
    BY <1>2
  <2> HIDE DEF s
  <2>2. s = <<s[1], s[2], s[3], s[4]>>
    BY <2>1
  <2> QED BY <2>1, <2>2 DEF s
<1> QED BY <1>1, <1>2

\* The frames of the two datagrams of a hello.
LEMMA FirstPayload ==
    ASSUME NEW c \in Nat
    PROVE  H3!cryptoFrames(<<6, 5, 1, c, 1, 6, 0, 64, 4, 1, 0, 0, 2>>) =
             <<Piece(5, <<c>>), Piece(0, <<1, 0, 0, 2>>)>>
<1> DEFINE p == <<6, 5, 1, c, 1, 6, 0, 64, 4, 1, 0, 0, 2>>
<1>1. p \in Seq(Nat) /\ Len(p) = 13
    OBVIOUS
<1>2. /\ p[1] = 6 /\ p[2] = 5 /\ p[3] = 1 /\ p[4] = c /\ p[5] = 1 /\ p[6] = 6 /\ p[7] = 0
      /\ p[8] = 64 /\ p[9] = 4 /\ p[10] = 1 /\ p[11] = 0 /\ p[12] = 0 /\ p[13] = 2
    OBVIOUS
<1> HIDE DEF p
<1>3. PICK rest : H3!cryptoFrames(p) = rest[1] /\ FramesFrom(p, rest)
    BY <1>1, FramesWalk
<1>4. H3!FrameAt(p, 1) = [ok |-> TRUE, found |-> <<Piece(5, <<c>>)>>, next |-> 5]
  <2>1. /\ H3!Field(p, 2).ok /\ H3!Field(p, 2).id = 5 /\ H3!Field(p, 2).next = 5
        /\ H3!Field(p, 2).data = SubSeq(p, 4, 4)
    <3>1. /\ 2 \in 1..Len(p) /\ 2 + 1 \in 1..Len(p) /\ p[2] < 64 /\ p[2 + 1] < 64
          /\ 4 = 2 + 1 + p[2 + 1] /\ 4 \in 1..Len(p)
      BY <1>1, <1>2
    <3>2. /\ H3!Field(p, 2).ok /\ H3!Field(p, 2).id = p[2] /\ H3!Field(p, 2).next = 4 + 1
          /\ H3!Field(p, 2).data = SubSeq(p, 2 + 2, 4)
      <4>1. ShortField(p, 2, 4)
        BY <1>1, <3>1, PlainField, Zenon
      <4> QED BY <4>1, Zenon DEF ShortField
    <3> QED BY <1>2, <3>2
  <2>2. SubSeq(p, 4, 4) = <<c>>
    BY <1>1, <1>2, SubIs, SMTT(40)
  <2>3. H3!FrameAt(p, 1) = [ok |-> TRUE, found |-> <<Piece(H3!Field(p, 2).id, H3!Field(p, 2).data)>>,
                            next |-> H3!Field(p, 2).next]
    <3>1. 1 \in 1..Len(p) /\ p[1] = 6 /\ H3!Field(p, 1 + 1).ok
      BY <1>1, <1>2, <2>1
    <3> QED BY <1>1, <3>1, CryptoAt
  <2> QED BY <2>1, <2>2, <2>3
<1>5. H3!FrameAt(p, 5) = [ok |-> TRUE, found |-> <<>>, next |-> 6]
  <2>1. 5 \in 1..Len(p) /\ p[5] \in {0, 1} /\ 5 + 1 = 6
    BY <1>1, <1>2
  <2>2. H3!FrameAt(p, 5) = [ok |-> TRUE, found |-> <<>>, next |-> 5 + 1]
    BY <1>1, <2>1, PaddingAt, Zenon
  <2> QED BY <2>1, <2>2, Zenon
<1>6. H3!FrameAt(p, 6) = [ok |-> TRUE, found |-> <<Piece(0, <<1, 0, 0, 2>>)>>, next |-> 14]
  <2>1. H3!Field(p, 7).ok /\ H3!Field(p, 7).id = 0 /\ H3!Field(p, 7).next = 14
        /\ H3!Field(p, 7).data = SubSeq(p, 10, 13)
    <3> DEFINE id == H3!ReadVarint(H3!From(p, 7))
               length == H3!ReadVarint(H3!From(p, 7 + id.size))
    <3>1. H3!Field(p, 7) = H3!Block(p, id, length, 7 + id.size + length.size)
      BY Zenon DEF H3!Field
    <3>2. id = [ok |-> TRUE, size |-> 1, value |-> 0]
      <4>1. 7 \in 1..Len(p) /\ p[7] < 64
        BY <1>1, <1>2
      <4>2. id = [ok |-> TRUE, size |-> 1, value |-> p[7]]
        BY <1>1, <4>1, OneByte, Zenon
      <4> QED BY <1>2, <4>2
    <3> HIDE DEF id
    <3>3. id.ok /\ id.size = 1 /\ id.value = 0
      BY <3>2
    <3>4. length = [ok |-> TRUE, size |-> 2, value |-> 4]
      <4>1. 8 \in 1..Len(p) /\ 8 + 1 <= Len(p) /\ 64 <= p[8] /\ p[8] < 128
        BY <1>1, <1>2
      <4>2. H3!ReadVarint(H3!From(p, 8)) =
              [ok |-> TRUE, size |-> 2, value |-> (p[8] % 64) * 256 + p[8 + 1]]
        BY <1>1, <4>1, TwoBytes, Zenon
      <4>3. (p[8] % 64) * 256 + p[8 + 1] = 4 /\ 7 + 1 = 8
        BY <1>2
      <4> QED BY <3>3, <4>2, <4>3
    <3> HIDE DEF length
    <3>5. length.ok /\ length.size = 2 /\ length.value = 4
      BY <3>4
    <3>6. H3!Field(p, 7) = H3!Block(p, id, length, 10)
      BY <3>1, <3>3, <3>5
    <3>7. id.ok /\ length.ok /\ 10 + length.value <= Len(p) + 1
      BY <1>1, <3>3, <3>5
    <3>8. /\ H3!Field(p, 7).ok /\ H3!Field(p, 7).id = id.value
          /\ H3!Field(p, 7).next = 10 + length.value
          /\ H3!Field(p, 7).data = SubSeq(p, 10, (10 + length.value) - 1)
      BY <3>6, <3>7, BlockIs
    <3>9. 10 + length.value = 14 /\ (10 + length.value) - 1 = 13
      BY <3>5
    <3> QED BY <3>3, <3>8, <3>9
  <2>2. SubSeq(p, 10, 13) = <<1, 0, 0, 2>>
    <3>1. 10 \in 1..Len(p) /\ 10 + 3 <= Len(p)
      BY <1>1
    <3>2. SubSeq(p, 10, 10 + 3) = <<p[10], p[10 + 1], p[10 + 2], p[10 + 3]>>
      BY <1>1, <3>1, SubIs, Zenon
    <3>3. 10 + 1 = 11 /\ 10 + 2 = 12 /\ 10 + 3 = 13
      OBVIOUS
    <3> QED BY <1>2, <3>2, <3>3
  <2>3. H3!FrameAt(p, 6) = [ok |-> TRUE, found |-> <<Piece(H3!Field(p, 7).id, H3!Field(p, 7).data)>>,
                            next |-> H3!Field(p, 7).next]
    <3>1. 6 \in 1..Len(p) /\ p[6] = 6 /\ H3!Field(p, 6 + 1).ok
      BY <1>1, <1>2, <2>1
    <3> QED BY <1>1, <3>1, CryptoAt
  <2> QED BY <2>1, <2>2, <2>3
<1>7. H3!FrameAt(p, 14) = [ok |-> FALSE, found |-> <<>>, next |-> 14]
  <2>1. Len(p) + 1 = 14
    BY <1>1
  <2> QED BY <1>1, <2>1, EndAt
<1>8. rest[14] = <<>>
  <2>1. 14 \in 1..Len(p) + 1 /\ ~H3!FrameAt(p, 14).ok /\ H3!FrameAt(p, 14).found = <<>>
    BY <1>1, <1>7
  <2> QED BY <1>3, <2>1 DEF FramesFrom
<1>9. 1 \in 1..Len(p) + 1 /\ 5 \in 1..Len(p) + 1 /\ 6 \in 1..Len(p) + 1
    BY <1>1
<1>10. rest[6] = <<Piece(0, <<1, 0, 0, 2>>)>> \o rest[14]
  <2>1. rest[6] = IF H3!FrameAt(p, 6).ok
                    THEN H3!FrameAt(p, 6).found \o rest[H3!FrameAt(p, 6).next]
                    ELSE H3!FrameAt(p, 6).found
    BY <1>3, <1>9 DEF FramesFrom
  <2>2. /\ H3!FrameAt(p, 6).ok /\ H3!FrameAt(p, 6).next = 14
        /\ H3!FrameAt(p, 6).found = <<Piece(0, <<1, 0, 0, 2>>)>>
    BY <1>6
  <2> QED BY <2>1, <2>2, Zenon
<1>11. rest[5] = <<>> \o rest[6]
  <2>1. rest[5] = IF H3!FrameAt(p, 5).ok
                    THEN H3!FrameAt(p, 5).found \o rest[H3!FrameAt(p, 5).next]
                    ELSE H3!FrameAt(p, 5).found
    BY <1>3, <1>9 DEF FramesFrom
  <2>2. /\ H3!FrameAt(p, 5).ok /\ H3!FrameAt(p, 5).next = 6
        /\ H3!FrameAt(p, 5).found = <<>>
    BY <1>5
  <2> QED BY <2>1, <2>2, Zenon
<1>12. rest[1] = <<Piece(5, <<c>>)>> \o rest[5]
  <2>1. rest[1] = IF H3!FrameAt(p, 1).ok
                    THEN H3!FrameAt(p, 1).found \o rest[H3!FrameAt(p, 1).next]
                    ELSE H3!FrameAt(p, 1).found
    BY <1>3, <1>9 DEF FramesFrom
  <2>2. /\ H3!FrameAt(p, 1).ok /\ H3!FrameAt(p, 1).next = 5
        /\ H3!FrameAt(p, 1).found = <<Piece(5, <<c>>)>>
    BY <1>4
  <2> QED BY <2>1, <2>2, Zenon
<1> QED BY <1>3, <1>8, <1>10, <1>11, <1>12, OneOfOne, TwoOfOne DEF p

LEMMA SecondPayload ==
    ASSUME NEW c \in Nat
    PROVE  H3!cryptoFrames(<<0, 6, 4, 1, c, 0>>) = <<Piece(4, <<c>>)>>
<1> DEFINE p == <<0, 6, 4, 1, c, 0>>
<1>1. p \in Seq(Nat) /\ Len(p) = 6
    OBVIOUS
<1>2. p[1] = 0 /\ p[2] = 6 /\ p[3] = 4 /\ p[4] = 1 /\ p[5] = c /\ p[6] = 0
    OBVIOUS
<1> HIDE DEF p
<1>3. PICK rest : H3!cryptoFrames(p) = rest[1] /\ FramesFrom(p, rest)
    BY <1>1, FramesWalk
<1>4. H3!FrameAt(p, 1) = [ok |-> TRUE, found |-> <<>>, next |-> 2]
  <2>1. 1 \in 1..Len(p) /\ p[1] \in {0, 1} /\ 1 + 1 = 2
    BY <1>1, <1>2
  <2>2. H3!FrameAt(p, 1) = [ok |-> TRUE, found |-> <<>>, next |-> 1 + 1]
    BY <1>1, <2>1, PaddingAt, Zenon
  <2> QED BY <2>1, <2>2, Zenon
<1>5. H3!FrameAt(p, 2) = [ok |-> TRUE, found |-> <<Piece(4, <<c>>)>>, next |-> 6]
  <2>1. /\ H3!Field(p, 3).ok /\ H3!Field(p, 3).id = 4 /\ H3!Field(p, 3).next = 6
        /\ H3!Field(p, 3).data = SubSeq(p, 5, 5)
    <3>1. /\ 3 \in 1..Len(p) /\ 3 + 1 \in 1..Len(p) /\ p[3] < 64 /\ p[3 + 1] < 64
          /\ 5 = 3 + 1 + p[3 + 1] /\ 5 \in 1..Len(p)
      BY <1>1, <1>2
    <3>2. /\ H3!Field(p, 3).ok /\ H3!Field(p, 3).id = p[3] /\ H3!Field(p, 3).next = 5 + 1
          /\ H3!Field(p, 3).data = SubSeq(p, 3 + 2, 5)
      <4>1. ShortField(p, 3, 5)
        BY <1>1, <3>1, PlainField, Zenon
      <4> QED BY <4>1, Zenon DEF ShortField
    <3> QED BY <1>2, <3>2
  <2>2. SubSeq(p, 5, 5) = <<c>>
    <3>1. 5 \in 1..Len(p)
      BY <1>1
    <3>2. SubSeq(p, 5, 5) = <<p[5]>>
      BY <1>1, <3>1, SubIs, Zenon
    <3> QED BY <1>2, <3>2
  <2>3. H3!FrameAt(p, 2) = [ok |-> TRUE, found |-> <<Piece(H3!Field(p, 3).id, H3!Field(p, 3).data)>>,
                            next |-> H3!Field(p, 3).next]
    <3>1. 2 \in 1..Len(p) /\ p[2] = 6 /\ H3!Field(p, 2 + 1).ok
      BY <1>1, <1>2, <2>1
    <3> QED BY <1>1, <3>1, CryptoAt
  <2> QED BY <2>1, <2>2, <2>3
<1>6. H3!FrameAt(p, 6) = [ok |-> TRUE, found |-> <<>>, next |-> 7]
  <2>1. 6 \in 1..Len(p) /\ p[6] \in {0, 1} /\ 6 + 1 = 7
    BY <1>1, <1>2
  <2>2. H3!FrameAt(p, 6) = [ok |-> TRUE, found |-> <<>>, next |-> 6 + 1]
    BY <1>1, <2>1, PaddingAt, Zenon
  <2> QED BY <2>1, <2>2, Zenon
<1>7. H3!FrameAt(p, 7) = [ok |-> FALSE, found |-> <<>>, next |-> 7]
  <2>1. Len(p) + 1 = 7
    BY <1>1
  <2> QED BY <1>1, <2>1, EndAt
<1>8. rest[7] = <<>>
  <2>1. 7 \in 1..Len(p) + 1 /\ ~H3!FrameAt(p, 7).ok /\ H3!FrameAt(p, 7).found = <<>>
    BY <1>1, <1>7
  <2> QED BY <1>3, <2>1 DEF FramesFrom
<1>9. 1 \in 1..Len(p) + 1 /\ 2 \in 1..Len(p) + 1 /\ 6 \in 1..Len(p) + 1
    BY <1>1
<1>10. rest[6] = <<>> \o rest[7]
  <2>1. rest[6] = IF H3!FrameAt(p, 6).ok
                    THEN H3!FrameAt(p, 6).found \o rest[H3!FrameAt(p, 6).next]
                    ELSE H3!FrameAt(p, 6).found
    BY <1>3, <1>9 DEF FramesFrom
  <2>2. /\ H3!FrameAt(p, 6).ok /\ H3!FrameAt(p, 6).next = 7
        /\ H3!FrameAt(p, 6).found = <<>>
    BY <1>6
  <2> QED BY <2>1, <2>2, Zenon
<1>11. rest[2] = <<Piece(4, <<c>>)>> \o rest[6]
  <2>1. rest[2] = IF H3!FrameAt(p, 2).ok
                    THEN H3!FrameAt(p, 2).found \o rest[H3!FrameAt(p, 2).next]
                    ELSE H3!FrameAt(p, 2).found
    BY <1>3, <1>9 DEF FramesFrom
  <2>2. /\ H3!FrameAt(p, 2).ok /\ H3!FrameAt(p, 2).next = 6
        /\ H3!FrameAt(p, 2).found = <<Piece(4, <<c>>)>>
    BY <1>5
  <2> QED BY <2>1, <2>2, Zenon
<1>12. rest[1] = <<>> \o rest[2]
  <2>1. rest[1] = IF H3!FrameAt(p, 1).ok
                    THEN H3!FrameAt(p, 1).found \o rest[H3!FrameAt(p, 1).next]
                    ELSE H3!FrameAt(p, 1).found
    BY <1>3, <1>9 DEF FramesFrom
  <2>2. /\ H3!FrameAt(p, 1).ok /\ H3!FrameAt(p, 1).next = 2
        /\ H3!FrameAt(p, 1).found = <<>>
    BY <1>4
  <2> QED BY <2>1, <2>2, Zenon
<1>13. <<>> \o <<>> = <<>>
    OBVIOUS
<1> QED BY <1>3, <1>8, <1>10, <1>11, <1>12, <1>13, OneOfOne DEF p

------------------------------------------------------------------------------
(* What the datagrams of a hello add to a connection.                       *)

\* What a client sends, by the offset: the ends in one datagram, the middle in
\* the other.
PartOf(c, o) == IF o = 0 THEN <<1, 0, 0, 2>> ELSE <<c>>
Parts(c, S) == [o \in S |-> PartOf(c, o)]
Offsets(n) == IF n = 1 THEN {0, 5} ELSE {4}
Payload(c, n) == IF n = 1 THEN <<6, 5, 1, c, 1, 6, 0, 64, 4, 1, 0, 0, 2>> ELSE <<0, 6, 4, 1, c, 0>>

LEMMA MaxOfOne == \A n \in Nat : H3!Max({n}) = n
<1> TAKE n \in Nat
<1>1. {n} \in SUBSET (0..n) /\ {n} # {}
    OBVIOUS
<1>2. H3!Max({n}) \in {n}
    BY <1>1, SameEdges, MaxIs
<1> QED BY <1>2

\* The fragments of a connection with those of the one datagram, and the other.
LEMMA FirstFragments ==
    ASSUME NEW c \in Nat, NEW S
    PROVE  H3!Fragments(Parts(c, S), H3!cryptoFrames(Payload(c, 1))) = Parts(c, S \cup {0, 5})
<1> DEFINE before == Parts(c, S)
           frames == H3!cryptoFrames(Payload(c, 1))
           Index(o) == {i \in DOMAIN frames : frames[i].offset = o}
<1>1. frames = <<Piece(5, <<c>>), Piece(0, <<1, 0, 0, 2>>)>>
    BY FirstPayload DEF Payload
<1>2. H3!Fragments(before, frames) =
        [o \in DOMAIN before \cup {frames[i].offset : i \in DOMAIN frames} |->
          IF Index(o) = {} THEN before[o] ELSE frames[H3!Max(Index(o))].data]
    BY Zenon DEF H3!Fragments
<1>3. DOMAIN frames = {1, 2}
    BY <1>1
<1>4. /\ frames[1].offset = 5 /\ frames[1].data = <<c>>
      /\ frames[2].offset = 0 /\ frames[2].data = <<1, 0, 0, 2>>
    BY <1>1 DEF Piece
<1> HIDE DEF frames
<1>5. {frames[i].offset : i \in DOMAIN frames} = {0, 5}
    BY <1>3, <1>4
<1>6. Index(5) = {1} /\ Index(0) = {2} /\ \A o : o \notin {0, 5} => Index(o) = {}
    BY <1>3, <1>4
<1> HIDE DEF Index
<1>7. frames[H3!Max(Index(5))].data = <<c>> /\ frames[H3!Max(Index(0))].data = <<1, 0, 0, 2>>
    BY <1>4, <1>6, MaxOfOne
<1>8. DOMAIN before = S /\ \A o \in S : before[o] = PartOf(c, o)
    BY DEF Parts
<1> HIDE DEF before
<1>9. \A o \in S \cup {0, 5} :
        (IF Index(o) = {} THEN before[o] ELSE frames[H3!Max(Index(o))].data) = PartOf(c, o)
  <2> SUFFICES ASSUME NEW o \in S \cup {0, 5}
               PROVE  (IF Index(o) = {} THEN before[o] ELSE frames[H3!Max(Index(o))].data) = PartOf(c, o)
    OBVIOUS
  <2>1. CASE o = 0
    BY <1>6, <1>7, <2>1 DEF PartOf
  <2>2. CASE o = 5
    BY <1>6, <1>7, <2>2 DEF PartOf
  <2>3. CASE o \notin {0, 5}
    BY <1>6, <1>8, <2>3
  <2> QED BY <2>1, <2>2, <2>3
<1>10. H3!Fragments(before, frames) = Parts(c, S \cup {0, 5})
    BY <1>2, <1>5, <1>8, <1>9 DEF Parts
<1> QED BY <1>10 DEF before, frames

LEMMA SecondFragments ==
    ASSUME NEW c \in Nat, NEW S
    PROVE  H3!Fragments(Parts(c, S), H3!cryptoFrames(Payload(c, 2))) = Parts(c, S \cup {4})
<1> DEFINE before == Parts(c, S)
           frames == H3!cryptoFrames(Payload(c, 2))
           Index(o) == {i \in DOMAIN frames : frames[i].offset = o}
<1>1. frames = <<Piece(4, <<c>>)>>
    BY SecondPayload DEF Payload
<1>2. H3!Fragments(before, frames) =
        [o \in DOMAIN before \cup {frames[i].offset : i \in DOMAIN frames} |->
          IF Index(o) = {} THEN before[o] ELSE frames[H3!Max(Index(o))].data]
    BY Zenon DEF H3!Fragments
<1>3. DOMAIN frames = {1}
    BY <1>1
<1>4. frames[1].offset = 4 /\ frames[1].data = <<c>>
    BY <1>1 DEF Piece
<1> HIDE DEF frames
<1>5. {frames[i].offset : i \in DOMAIN frames} = {4}
    BY <1>3, <1>4
<1>6. Index(4) = {1} /\ \A o : o # 4 => Index(o) = {}
    BY <1>3, <1>4
<1> HIDE DEF Index
<1>7. frames[H3!Max(Index(4))].data = <<c>>
    BY <1>4, <1>6, MaxOfOne
<1>8. DOMAIN before = S /\ \A o \in S : before[o] = PartOf(c, o)
    BY DEF Parts
<1> HIDE DEF before
<1>9. \A o \in S \cup {4} :
        (IF Index(o) = {} THEN before[o] ELSE frames[H3!Max(Index(o))].data) = PartOf(c, o)
  <2> SUFFICES ASSUME NEW o \in S \cup {4}
               PROVE  (IF Index(o) = {} THEN before[o] ELSE frames[H3!Max(Index(o))].data) = PartOf(c, o)
    OBVIOUS
  <2>1. CASE o = 4
    BY <1>6, <1>7, <2>1 DEF PartOf
  <2>2. CASE o # 4
    BY <1>6, <1>8, <2>2
  <2> QED BY <2>1, <2>2
<1>10. H3!Fragments(before, frames) = Parts(c, S \cup {4})
    BY <1>2, <1>5, <1>8, <1>9 DEF Parts
<1> QED BY <1>10 DEF before, frames

LEMMA WholeOf == ASSUME NEW s \in Seq(Nat) PROVE SubSeq(s, 1, Len(s)) = s
<1>1. SubSeq(s, 1, Len(s)) = [i \in 1..Len(s) |-> s[i]]
    OBVIOUS
<1>2. s = [i \in 1..Len(s) |-> s[i]]
    OBVIOUS
<1> QED BY <1>1, <1>2

LEMMA HelloIs ==
    ASSUME NEW c \in Nat
    PROVE  /\ H3!Hello(c) \in Seq(Nat) /\ Len(H3!Hello(c)) = 6
           /\ H3!Hello(c)[1] = 1 /\ H3!Hello(c)[2] = 0 /\ H3!Hello(c)[3] = 0
           /\ H3!Hello(c)[4] = 2 /\ H3!Hello(c)[5] = c /\ H3!Hello(c)[6] = c
           /\ SubSeq(H3!Hello(c), 1, 6) = H3!Hello(c)
           /\ H3!Hello(c) # H3!NoHello
<1> DEFINE h == <<1, 0, 0, 2, c, c>>
<1>1. h \in Seq(Nat) /\ Len(h) = 6
    OBVIOUS
<1>2. h[1] = 1 /\ h[2] = 0 /\ h[3] = 0 /\ h[4] = 2 /\ h[5] = c /\ h[6] = c
    OBVIOUS
<1>3. H3!Hello(c) = h
    BY Zenon DEF H3!Hello
<1> HIDE DEF h
<1>4. SubSeq(h, 1, 6) = h
  <2>1. SubSeq(h, 1, Len(h)) = h
    BY <1>1, WholeOf, Zenon
  <2> QED BY <1>1, <2>1, Zenon
<1>5. h # <<>>
    BY <1>1
<1> QED BY <1>1, <1>2, <1>3, <1>4, <1>5, Zenon DEF H3!NoHello

\* Put together, the three fragments are the hello.
LEMMA AllParts ==
    ASSUME NEW c \in Nat
    PROVE  H3!ClientHelloMessage(Parts(c, {0, 4, 5})) = H3!Hello(c)
<1> DEFINE frames == Parts(c, {0, 4, 5})
           stream == H3!Hello(c)
<1>1. /\ DOMAIN frames = {0, 4, 5}
      /\ frames[0] = <<1, 0, 0, 2>> /\ frames[4] = <<c>> /\ frames[5] = <<c>>
    BY DEF Parts, PartOf
<1>2. /\ stream \in Seq(Nat) /\ Len(stream) = 6
      /\ stream[1] = 1 /\ stream[2] = 0 /\ stream[3] = 0
      /\ stream[4] = 2 /\ stream[5] = c /\ stream[6] = c
      /\ SubSeq(stream, 1, 6) = stream
    BY HelloIs
<1> HIDE DEF frames, stream
<1>3. Len(frames[0]) = 4 /\ Len(frames[4]) = 1 /\ Len(frames[5]) = 1
    BY <1>1
<1>4. PiecesOf(frames, stream)
  <2>1. \A i \in 1..4 : frames[0][i] = stream[0 + i]
    BY <1>1, <1>2
  <2>2. \A i \in 1..1 : frames[4][i] = stream[4 + i]
    BY <1>1, <1>2
  <2>3. \A i \in 1..1 : frames[5][i] = stream[5 + i]
    BY <1>1, <1>2
  <2>4. /\ Len(frames[0]) \in Nat /\ 0 + Len(frames[0]) <= Len(stream)
        /\ Len(frames[4]) \in Nat /\ 4 + Len(frames[4]) <= Len(stream)
        /\ Len(frames[5]) \in Nat /\ 5 + Len(frames[5]) <= Len(stream)
    BY <1>2, <1>3
  <2>5. /\ \A i \in 1..Len(frames[0]) : frames[0][i] = stream[0 + i]
        /\ \A i \in 1..Len(frames[4]) : frames[4][i] = stream[4 + i]
        /\ \A i \in 1..Len(frames[5]) : frames[5][i] = stream[5 + i]
    BY <1>3, <2>1, <2>2, <2>3, Zenon
  <2>6. ASSUME NEW o \in {0, 4, 5}
        PROVE  /\ Len(frames[o]) \in Nat /\ o + Len(frames[o]) <= Len(stream)
               /\ \A i \in 1..Len(frames[o]) : frames[o][i] = stream[o + i]
    BY <2>4, <2>5, Zenon
  <2>7. {0, 4, 5} \subseteq Nat
    OBVIOUS
  <2> QED BY <1>1, <2>6, <2>7, Zenon DEF PiecesOf
<1>5. CoverFirst(frames, 4 + 2)
  <2>1. ASSUME NEW i \in 1..4 PROVE 0 \in Over(frames, i)
    <3>1. 0 < i /\ i <= 0 + Len(frames[0])
      BY <1>3
    <3> QED BY <1>1, <3>1, Zenon DEF Over
  <2>2. 4 \in Over(frames, 5)
    <3>1. 4 < 5 /\ 5 <= 4 + Len(frames[4])
      BY <1>3
    <3> QED BY <1>1, <3>1, Zenon DEF Over
  <2>3. 5 \in Over(frames, 6)
    <3>1. 5 < 6 /\ 6 <= 5 + Len(frames[5])
      BY <1>3
    <3> QED BY <1>1, <3>1, Zenon DEF Over
  <2>4. ASSUME NEW i \in 1..4 + 2 PROVE Over(frames, i) # {}
    <3>1. i \in 1..4 \/ i = 5 \/ i = 6
      OBVIOUS
    <3> QED BY <2>1, <2>2, <2>3, <3>1, Zenon
  <2> QED BY <2>4, Zenon DEF CoverFirst
<1>6. 2 = Announced(stream) /\ 4 + 2 <= Len(stream) /\ 2 \in Nat
    BY <1>2 DEF Announced
<1>7. stream \in Seq(Nat)
    BY <1>2
<1>8. H3!ClientHelloMessage(frames) = SubSeq(stream, 1, 4 + 2)
    BY <1>4, <1>5, <1>6, <1>7, Reassembly, Zenon
<1>9. 4 + 2 = 6
    OBVIOUS
<1> QED BY <1>2, <1>8, <1>9, Zenon DEF frames, stream

\* What AddInitial makes of it.
IsAdded(c, n, S, before, d) ==
    /\ H3!Opens(before, d)
    /\ H3!AddInitial(before, d).keyDCID = <<c>>
    /\ H3!AddInitial(before, d).crypto = Parts(c, S \cup Offsets(n))
    /\ S \cup Offsets(n) = {0, 4, 5} => H3!AddInitial(before, d).hello = H3!Hello(c)

\* The connection so far, and the datagram that comes.
IsNext(c, n, S, before, d) ==
    /\ before.keyDCID \in {<<>>, <<c>>} /\ before.crypto = Parts(c, S)
    /\ d = [dcid |-> <<c>>, keys |-> <<c>>, payload |-> Payload(c, n)]

LEMMA Adds ==
    \A S, before, d : \A c \in Nat, n \in {1, 2} :
        IsNext(c, n, S, before, d) => IsAdded(c, n, S, before, d)
<1> SUFFICES ASSUME NEW c \in Nat, NEW n \in {1, 2}, NEW S, NEW before, NEW d,
                    IsNext(c, n, S, before, d)
             PROVE  IsAdded(c, n, S, before, d)
    OBVIOUS
<1> USE DEF IsNext
<1>1. d.dcid = <<c>> /\ d.keys = <<c>> /\ d.payload = Payload(c, n)
    OBVIOUS
<1>2. H3!Keys(before, d) = <<c>>
    BY <1>1 DEF H3!Keys
<1>3. H3!InitialPayload(d, <<c>>) = Payload(c, n)
    BY <1>1 DEF H3!InitialPayload
<1>4. Payload(c, n) # <<>>
  <2>1. <<6, 5, 1, c, 1, 6, 0, 64, 4, 1, 0, 0, 2>> # <<>>
    OBVIOUS
  <2>2. <<0, 6, 4, 1, c, 0>> # <<>>
    OBVIOUS
  <2> QED BY <2>1, <2>2, Zenon DEF Payload
<1>5. H3!Opens(before, d)
    BY <1>2, <1>3, <1>4 DEF H3!Opens
<1>6. H3!Fragments(before.crypto, H3!cryptoFrames(Payload(c, n))) = Parts(c, S \cup Offsets(n))
  <2>1. CASE n = 1
    BY <2>1, FirstFragments DEF Offsets
  <2>2. CASE n = 2
    BY <2>2, SecondFragments DEF Offsets
  <2> QED BY <2>1, <2>2
<1>7. H3!AddInitial(before, d) = H3!Gathered(before, <<c>>, Parts(c, S \cup Offsets(n)))
    BY <1>2, <1>3, <1>5, <1>6, Zenon DEF H3!AddInitial
<1>8. /\ H3!AddInitial(before, d).keyDCID = <<c>>
      /\ H3!AddInitial(before, d).crypto = Parts(c, S \cup Offsets(n))
  <2> DEFINE P == Parts(c, S \cup Offsets(n))
  <2>1. H3!AddInitial(before, d) = H3!Gathered(before, <<c>>, P)
    BY <1>7
  <2> HIDE DEF P
  <2>2. H3!Gathered(before, <<c>>, P).keyDCID = <<c>> /\ H3!Gathered(before, <<c>>, P).crypto = P
    BY DEF H3!Gathered
  <2> QED BY <2>1, <2>2, Zenon DEF P
<1>9. ASSUME S \cup Offsets(n) = {0, 4, 5}
      PROVE  H3!AddInitial(before, d).hello = H3!Hello(c)
  <2>1. H3!ClientHelloMessage(Parts(c, S \cup Offsets(n))) = H3!Hello(c)
    BY <1>9, AllParts
  <2>2. H3!Hello(c) # H3!NoHello
    BY HelloIs
  <2>3. H3!Gathered(before, <<c>>, Parts(c, S \cup Offsets(n))).hello = H3!Hello(c)
    BY <2>1, <2>2 DEF H3!Gathered
  <2> QED BY <1>7, <2>3
<1> QED BY <1>5, <1>8, <1>9, Zenon DEF IsAdded

------------------------------------------------------------------------------
(* The hellos that h3sniff lists.                                           *)

KeyOf(c) == <<addr[c], <<c>>>>
Came(c) == (IF arrived[<<c, 1>>] > 0 THEN Offsets(1) ELSE {})
           \cup (IF arrived[<<c, 2>>] > 0 THEN Offsets(2) ELSE {})
Alone(c) == \A d \in Conns \ {c} : addr[d] # addr[c]

H3Typed ==
    /\ addr \in [Conns -> Addresses] /\ renames \in [Conns -> BOOLEAN]
    /\ arrived \in [Conns \X {1, 2} -> Nat]
    /\ \E S : hellos \in [Addresses -> Seq(S)]

\* What a connection has gathered is what has come of its client's hello.
IsGathered(c) ==
    /\ Came(c) = {} => KeyOf(c) \notin DOMAIN conns
    /\ Came(c) # {} => /\ KeyOf(c) \in DOMAIN conns
                       /\ conns[KeyOf(c)].keyDCID = <<c>>
                       /\ conns[KeyOf(c)].crypto = Parts(c, Came(c))

\* A hello that has come is listed, and is the last of a socket of its own.
IsListed(c) ==
    H3!Whole(c) =>
        /\ \E i \in DOMAIN hellos[addr[c]] : hellos[addr[c]][i] = H3!Hello(c)
        /\ Alone(c) => hellos[addr[c]] # <<>> /\ Last(hellos[addr[c]]) = H3!Hello(c)

HellosInv == program = "h3sniff" =>
                H3Typed /\ \A c \in Conns : ~renames[c] => IsGathered(c) /\ IsListed(c)

IsAppended(S, s, x) ==
    /\ Append(s, x) \in Seq(S \cup {x}) /\ Append(s, x) # <<>> /\ Last(Append(s, x)) = x
    /\ Len(s) + 1 \in DOMAIN Append(s, x) /\ Append(s, x)[Len(s) + 1] = x
    /\ \A i \in DOMAIN s : i \in DOMAIN Append(s, x) /\ Append(s, x)[i] = s[i]

LEMMA Appended == \A S, x : \A s \in Seq(S) : IsAppended(S, s, x)
<1> SUFFICES ASSUME NEW S, NEW x, NEW s \in Seq(S) PROVE IsAppended(S, s, x)
    OBVIOUS
<1>1. s \in Seq(S \cup {x}) /\ Len(s) \in Nat
    OBVIOUS
<1>2. Append(s, x) \in Seq(S \cup {x}) /\ Len(Append(s, x)) = Len(s) + 1
    BY <1>1
<1>3. Append(s, x)[Len(s) + 1] = x
    BY <1>1
<1>4. \A i \in DOMAIN s : i \in DOMAIN Append(s, x) /\ Append(s, x)[i] = s[i]
    BY <1>1
<1>5. Append(s, x) # <<>> /\ Len(s) + 1 \in DOMAIN Append(s, x)
    BY <1>1, <1>2
<1>6. Last(Append(s, x)) = x
    BY <1>2, <1>3 DEF Last
<1> QED BY <1>2, <1>3, <1>4, <1>5, <1>6, Zenon DEF IsAppended

\* What the arrival of a datagram does to the tables.
Arrives(c, n) ==
    /\ arrived' = [arrived EXCEPT ![<<c, n>>] = @ + 1]
    /\ UNCHANGED <<addr, renames>>
    /\ H3!observe(c, n)

LEMMA Observed ==
    ASSUME NEW c \in Conns, NEW n \in {1, 2}, H3!observe(c, n)
    PROVE  LET d == H3!Datagram(c, n)
               key == <<addr[c], d.dcid>>
               before == IF key \in DOMAIN conns THEN conns[key] ELSE H3!NewConnection
               conn == H3!AddInitial(before, d)
           IN /\ DOMAIN conns' = DOMAIN conns \cup {key} /\ conns'[key] = conn
              /\ \A k \in DOMAIN conns : k # key => conns'[k] = conns[k]
              /\ \/ hellos' = [hellos EXCEPT ![addr[c]] = Append(@, conn.hello)]
                 \/ UNCHANGED hellos /\ (conn.hello # H3!Hello(c) \/ ~H3!Opens(before, d))
<1> DEFINE d == H3!Datagram(c, n)
           key == <<addr[c], d.dcid>>
           before == IF key \in DOMAIN conns THEN conns[key] ELSE H3!NewConnection
           conn == H3!AddInitial(before, d)
<1>1. /\ conns' = [k \in DOMAIN conns \cup {key} |-> IF k = key THEN conn ELSE conns[k]]
      /\ \/ hellos' = [hellos EXCEPT ![addr[c]] = Append(@, conn.hello)]
         \/ UNCHANGED hellos /\ (conn.hello # H3!Hello(c) \/ ~H3!Opens(before, d))
    BY Zenon DEF H3!observe, H3!DestinationConnectionID
<1> HIDE DEF d, key, before, conn
<1>2. /\ DOMAIN conns' = DOMAIN conns \cup {key} /\ conns'[key] = conn
      /\ \A k \in DOMAIN conns : k # key => conns'[k] = conns[k]
    BY <1>1
<1> QED BY <1>1, <1>2, Zenon DEF d, key, before, conn

LEMMA DatagramIs ==
    ASSUME NEW c \in Nat, NEW n \in {1, 2}
    PROVE  /\ H3!Datagram(c, n).dcid \in {<<c>>, <<c, 0>>}
           /\ ~renames[c] => H3!Datagram(c, n) =
                               [dcid |-> <<c>>, keys |-> <<c>>, payload |-> Payload(c, n)]
<1>1. H3!Datagram(c, n) =
        [dcid |-> IF n = 2 /\ renames[c] THEN <<c, 0>> ELSE <<c>>, keys |-> <<c>>,
         payload |-> Payload(c, n)]
    BY Zenon DEF H3!Datagram, Payload
<1>2. H3!Datagram(c, n).dcid = IF n = 2 /\ renames[c] THEN <<c, 0>> ELSE <<c>>
    BY <1>1
<1>3. ASSUME ~renames[c]
      PROVE  H3!Datagram(c, n) = [dcid |-> <<c>>, keys |-> <<c>>, payload |-> Payload(c, n)]
    BY <1>1, <1>3, Zenon
<1> QED BY <1>2, <1>3, Zenon

\* No datagram of another connection is under the key of this one.
LEMMA OtherKey ==
    ASSUME NEW c \in Nat, NEW e \in Nat, c # e, NEW a, NEW b, NEW s \in {<<e>>, <<e, 0>>}
    PROVE  <<a, <<c>>>> # <<b, s>>
<1>1. <<c>> # s
  <2>1. <<c>> # <<e>>
    OBVIOUS
  <2>2. <<c>> # <<e, 0>>
    <3>1. Len(<<c>>) = 1 /\ Len(<<e, 0>>) = 2
      OBVIOUS
    <3> QED BY <3>1
  <2> QED BY <2>1, <2>2
<1> QED BY <1>1

LEMMA CameMore ==
    ASSUME NEW e \in Conns, NEW n \in {1, 2}, arrived \in [Conns \X {1, 2} -> Nat],
           arrived' = [arrived EXCEPT ![<<e, n>>] = @ + 1]
    PROVE  /\ arrived' \in [Conns \X {1, 2} -> Nat]
           /\ Came(e)' = Came(e) \cup Offsets(n)
           /\ H3!Whole(e)' => Came(e)' = {0, 4, 5}
           /\ \A c \in Conns : c # e => Came(c)' = Came(c) /\ (H3!Whole(c)' <=> H3!Whole(c))
<1>1. arrived' \in [Conns \X {1, 2} -> Nat]
  <2>1. arrived[<<e, n>>] + 1 \in Nat
    OBVIOUS
  <2> QED BY <2>1
<1>2. arrived'[<<e, n>>] = arrived[<<e, n>>] + 1 /\ arrived[<<e, n>>] \in Nat
    OBVIOUS
<1>3. \A c \in Conns, m \in {1, 2} : <<c, m>> # <<e, n>> => arrived'[<<c, m>>] = arrived[<<c, m>>]
    OBVIOUS
<1>4. arrived'[<<e, n>>] > 0
    BY <1>2
<1>5. Came(e)' = Came(e) \cup Offsets(n)
  <2>1. CASE n = 1
    <3>1. arrived'[<<e, 2>>] = arrived[<<e, 2>>] /\ arrived'[<<e, 1>>] > 0
      BY <1>3, <1>4, <2>1
    <3>2. Came(e)' = Offsets(1) \cup (IF arrived[<<e, 2>>] > 0 THEN Offsets(2) ELSE {})
      BY <3>1, Zenon DEF Came
    <3>3. \A X, Y, Z : Y \in {X, {}} => X \cup Z = (Y \cup Z) \cup X
      OBVIOUS
    <3>4. (IF arrived[<<e, 1>>] > 0 THEN Offsets(1) ELSE {}) \in {Offsets(1), {}}
      BY Zenon
    <3> QED BY <2>1, <3>2, <3>3, <3>4, Zenon DEF Came
  <2>2. CASE n = 2
    <3>1. arrived'[<<e, 1>>] = arrived[<<e, 1>>] /\ arrived'[<<e, 2>>] > 0
      BY <1>3, <1>4, <2>2
    <3>2. Came(e)' = (IF arrived[<<e, 1>>] > 0 THEN Offsets(1) ELSE {}) \cup Offsets(2)
      BY <3>1, Zenon DEF Came
    <3>3. \A X, Y, Z : Y \in {X, {}} => Z \cup X = (Z \cup Y) \cup X
      OBVIOUS
    <3>4. (IF arrived[<<e, 2>>] > 0 THEN Offsets(2) ELSE {}) \in {Offsets(2), {}}
      BY Zenon
    <3> QED BY <2>2, <3>2, <3>3, <3>4, Zenon DEF Came
  <2> QED BY <2>1, <2>2
<1>6. H3!Whole(e)' => Came(e)' = {0, 4, 5}
  <2>1. Offsets(1) \cup Offsets(2) = {0, 4, 5}
    BY DEF Offsets
  <2> QED BY <2>1, Zenon DEF H3!Whole, Came
<1>7. ASSUME NEW c \in Conns, c # e
      PROVE  Came(c)' = Came(c) /\ (H3!Whole(c)' <=> H3!Whole(c))
  <2>1. arrived'[<<c, 1>>] = arrived[<<c, 1>>] /\ arrived'[<<c, 2>>] = arrived[<<c, 2>>]
    BY <1>3, <1>7
  <2> QED BY <2>1, Zenon DEF Came, H3!Whole
<1> QED BY <1>1, <1>5, <1>6, <1>7

\* A list of hellos that grows still holds what it held.
LEMMA ListGrows ==
    ASSUME NEW S, hellos \in [Addresses -> Seq(S)], NEW a \in Addresses, NEW x,
           hellos' = [hellos EXCEPT ![a] = Append(@, x)]
    PROVE  /\ \E T : hellos' \in [Addresses -> Seq(T)]
           /\ hellos'[a] = Append(hellos[a], x)
           /\ \A b \in Addresses : b # a => hellos'[b] = hellos[b]
           /\ hellos'[a] # <<>> /\ Last(hellos'[a]) = x
           /\ \E i \in DOMAIN hellos'[a] : hellos'[a][i] = x
           /\ \A y : (\E i \in DOMAIN hellos[a] : hellos[a][i] = y)
                        => \E i \in DOMAIN hellos'[a] : hellos'[a][i] = y
<1>1. hellos[a] \in Seq(S)
    OBVIOUS
<1>2. hellos'[a] = Append(hellos[a], x) /\ \A b \in Addresses : b # a => hellos'[b] = hellos[b]
    OBVIOUS
<1>3. /\ Append(hellos[a], x) \in Seq(S \cup {x}) /\ Append(hellos[a], x) # <<>>
      /\ Last(Append(hellos[a], x)) = x
      /\ Len(hellos[a]) + 1 \in DOMAIN Append(hellos[a], x)
      /\ Append(hellos[a], x)[Len(hellos[a]) + 1] = x
      /\ \A i \in DOMAIN hellos[a] :
            i \in DOMAIN Append(hellos[a], x) /\ Append(hellos[a], x)[i] = hellos[a][i]
  <2>1. IsAppended(S, hellos[a], x)
    BY <1>1, Appended, Zenon
  <2> QED BY <2>1, Zenon DEF IsAppended
<1>4. hellos' \in [Addresses -> Seq(S \cup {x})]
  <2>1. \A b \in Addresses : hellos'[b] \in Seq(S \cup {x})
    <3>1. ASSUME NEW b \in Addresses, b # a PROVE hellos'[b] \in Seq(S \cup {x})
      <4>1. hellos[b] \in Seq(S)
        OBVIOUS
      <4>2. hellos[b] \in Seq(S \cup {x})
        BY <4>1
      <4> QED BY <1>2, <3>1, <4>2
    <3> QED BY <1>2, <1>3, <3>1, Zenon
  <2>2. hellos' = [b \in Addresses |-> hellos'[b]]
    OBVIOUS
  <2> QED BY <2>1, <2>2
<1> QED BY <1>2, <1>3, <1>4, Zenon

\* A datagram that comes, be it of this connection or of another.
LEMMA ArriveKeeps ==
    ASSUME StandsAssumption, NEW e \in Conns, NEW n \in {1, 2},
           program = "h3sniff", HellosInv, Arrives(e, n)
    PROVE  /\ H3Typed'
           /\ \A c \in Conns : ~renames'[c] => IsGathered(c)' /\ IsListed(c)'
<1> DEFINE d == H3!Datagram(e, n)
           key == <<addr[e], d.dcid>>
           before == IF key \in DOMAIN conns THEN conns[key] ELSE H3!NewConnection
           conn == H3!AddInitial(before, d)
<1>1. /\ DOMAIN conns' = DOMAIN conns \cup {key} /\ conns'[key] = conn
      /\ \A k \in DOMAIN conns : k # key => conns'[k] = conns[k]
      /\ \/ hellos' = [hellos EXCEPT ![addr[e]] = Append(@, conn.hello)]
         \/ UNCHANGED hellos /\ (conn.hello # H3!Hello(e) \/ ~H3!Opens(before, d))
    BY Observed, Zenon DEF Arrives
<1>2. /\ addr \in [Conns -> Addresses] /\ renames \in [Conns -> BOOLEAN]
      /\ arrived \in [Conns \X {1, 2} -> Nat]
      /\ \E S : hellos \in [Addresses -> Seq(S)]
      /\ \A c \in Conns : ~renames[c] => IsGathered(c) /\ IsListed(c)
    BY DEF HellosInv, H3Typed
<1>3. e \in Nat /\ Conns \subseteq Nat
    BY DEF StandsAssumption
<1>4. d.dcid \in {<<e>>, <<e, 0>>} /\
      (~renames[e] => d = [dcid |-> <<e>>, keys |-> <<e>>, payload |-> Payload(e, n)])
    BY <1>3, DatagramIs
<1>5. addr' = addr /\ renames' = renames /\ arrived' = [arrived EXCEPT ![<<e, n>>] = @ + 1]
    BY DEF Arrives
<1>6. /\ arrived' \in [Conns \X {1, 2} -> Nat]
      /\ Came(e)' = Came(e) \cup Offsets(n)
      /\ H3!Whole(e)' => Came(e)' = {0, 4, 5}
      /\ \A c \in Conns : c # e => Came(c)' = Came(c) /\ (H3!Whole(c)' <=> H3!Whole(c))
    BY <1>2, <1>5, CameMore
<1>7. PICK S : hellos \in [Addresses -> Seq(S)]
    BY <1>2
<1>8. addr[e] \in Addresses
    BY <1>2
<1> DEFINE grows == hellos' = [hellos EXCEPT ![addr[e]] = Append(@, conn.hello)]
<1>9. ASSUME grows
      PROVE  /\ \E T : hellos' \in [Addresses -> Seq(T)]
             /\ \A b \in Addresses : b # addr[e] => hellos'[b] = hellos[b]
             /\ hellos'[addr[e]] # <<>> /\ Last(hellos'[addr[e]]) = conn.hello
             /\ \E i \in DOMAIN hellos'[addr[e]] : hellos'[addr[e]][i] = conn.hello
             /\ \A y : (\E i \in DOMAIN hellos[addr[e]] : hellos[addr[e]][i] = y)
                          => \E i \in DOMAIN hellos'[addr[e]] : hellos'[addr[e]][i] = y
  <2> DEFINE x == conn.hello
             a == addr[e]
  <2>1. hellos' = [hellos EXCEPT ![a] = Append(@, x)] /\ a \in Addresses
    BY <1>8, <1>9
  <2> HIDE DEF x, a
  <2>2. /\ \E T : hellos' \in [Addresses -> Seq(T)]
        /\ \A b \in Addresses : b # a => hellos'[b] = hellos[b]
        /\ hellos'[a] # <<>> /\ Last(hellos'[a]) = x
        /\ \E i \in DOMAIN hellos'[a] : hellos'[a][i] = x
        /\ \A y : (\E i \in DOMAIN hellos[a] : hellos[a][i] = y)
                     => \E i \in DOMAIN hellos'[a] : hellos'[a][i] = y
    BY <1>7, <2>1, ListGrows
  <2> QED BY <2>2 DEF x, a
<1> HIDE DEF d, key, before, conn, grows
<1>10. H3Typed'
  <2>1. CASE grows
    BY <1>2, <1>5, <1>6, <1>9, <2>1, Zenon DEF H3Typed
  <2>2. CASE UNCHANGED hellos
    BY <1>2, <1>5, <1>6, <2>2, Zenon DEF H3Typed
  <2> QED BY <1>1, <2>1, <2>2, Zenon DEF grows
<1>11. ASSUME NEW c \in Conns, c # e, ~renames[c]
       PROVE  IsGathered(c)' /\ IsListed(c)'
  <2>1. KeyOf(c) # key
    <3>1. c \in Nat
      BY <1>3
    <3> QED BY <1>3, <1>4, <1>11, <3>1, OtherKey, Zenon DEF KeyOf, key
  <2>2. Came(c)' = Came(c) /\ KeyOf(c)' = KeyOf(c) /\ (H3!Whole(c)' <=> H3!Whole(c))
    BY <1>5, <1>6, <1>11, Zenon DEF KeyOf
  <2>3. IsGathered(c) /\ IsListed(c)
    BY <1>2, <1>11
  <2>4. IsGathered(c)'
    <3>1. ASSUME Came(c)' = {} PROVE KeyOf(c)' \notin DOMAIN conns'
      BY <1>1, <2>1, <2>2, <2>3, <3>1, Zenon DEF IsGathered
    <3>2. ASSUME Came(c)' # {}
          PROVE  /\ KeyOf(c)' \in DOMAIN conns'
                 /\ conns'[KeyOf(c)'].keyDCID = <<c>>
                 /\ conns'[KeyOf(c)'].crypto = Parts(c, Came(c)')
      <4>1. /\ KeyOf(c) \in DOMAIN conns /\ conns[KeyOf(c)].keyDCID = <<c>>
            /\ conns[KeyOf(c)].crypto = Parts(c, Came(c))
        BY <2>2, <2>3, <3>2, Zenon DEF IsGathered
      <4>2. KeyOf(c) \in DOMAIN conns' /\ conns'[KeyOf(c)] = conns[KeyOf(c)]
        BY <1>1, <2>1, <4>1, Zenon
      <4> QED BY <2>2, <4>1, <4>2, Zenon
    <3> QED BY <3>1, <3>2, Zenon DEF IsGathered
  <2>5. IsListed(c)'
    <3> SUFFICES ASSUME H3!Whole(c)'
                 PROVE  /\ \E i \in DOMAIN hellos'[addr[c]] : hellos'[addr[c]][i] = H3!Hello(c)
                        /\ Alone(c) => hellos'[addr[c]] # <<>> /\ Last(hellos'[addr[c]]) = H3!Hello(c)
      BY <1>5, Zenon DEF IsListed, Alone
    <3>1. /\ \E i \in DOMAIN hellos[addr[c]] : hellos[addr[c]][i] = H3!Hello(c)
          /\ Alone(c) => hellos[addr[c]] # <<>> /\ Last(hellos[addr[c]]) = H3!Hello(c)
      BY <2>2, <2>3, Zenon DEF IsListed
    <3>2. addr[c] \in Addresses
      BY <1>2
    <3>3. CASE UNCHANGED hellos
      BY <3>1, <3>3, Zenon
    <3>4. CASE grows /\ addr[c] # addr[e]
      BY <1>9, <3>1, <3>2, <3>4, Zenon
    <3>5. CASE grows /\ addr[c] = addr[e]
      <4>1. ~Alone(c)
        BY <1>11, <3>5 DEF Alone
      <4>2. \E i \in DOMAIN hellos'[addr[c]] : hellos'[addr[c]][i] = H3!Hello(c)
        BY <1>9, <3>1, <3>5, Zenon
      <4> QED BY <4>1, <4>2
    <3> QED BY <1>1, <3>3, <3>4, <3>5, Zenon DEF grows
  <2> QED BY <2>4, <2>5
<1>12. ASSUME ~renames[e]
       PROVE  IsGathered(e)' /\ IsListed(e)'
  <2>1. d = [dcid |-> <<e>>, keys |-> <<e>>, payload |-> Payload(e, n)]
    BY <1>4, <1>12
  <2>2. key = KeyOf(e) /\ KeyOf(e)' = KeyOf(e)
    <3>1. d.dcid = <<e>>
      BY <2>1
    <3> QED BY <1>5, <3>1, Zenon DEF key, KeyOf
  <2>3. before.keyDCID \in {<<>>, <<e>>} /\ before.crypto = Parts(e, Came(e))
    <3>1. CASE Came(e) = {}
      <4>1. before = H3!NewConnection
        BY <1>2, <1>12, <2>2, <3>1, Zenon DEF IsGathered, before
      <4>2. H3!NewConnection.keyDCID = <<>> /\ H3!NewConnection.crypto = [o \in {} |-> <<>>]
        BY DEF H3!NewConnection
      <4>3. [o \in {} |-> <<>>] = Parts(e, {})
        BY DEF Parts
      <4> QED BY <3>1, <4>1, <4>2, <4>3, Zenon
    <3>2. CASE Came(e) # {}
      <4>1. KeyOf(e) \in DOMAIN conns /\ conns[KeyOf(e)].keyDCID = <<e>>
            /\ conns[KeyOf(e)].crypto = Parts(e, Came(e))
        BY <1>2, <1>12, <3>2, Zenon DEF IsGathered
      <4>2. before = conns[KeyOf(e)]
        BY <2>2, <4>1, Zenon DEF before
      <4> QED BY <4>1, <4>2, Zenon
    <3> QED BY <3>1, <3>2
  <2>4. /\ H3!Opens(before, d) /\ conn.keyDCID = <<e>>
        /\ conn.crypto = Parts(e, Came(e) \cup Offsets(n))
        /\ Came(e) \cup Offsets(n) = {0, 4, 5} => conn.hello = H3!Hello(e)
    <3>1. IsAdded(e, n, Came(e), before, d)
      <4>1. IsNext(e, n, Came(e), before, d)
        BY <2>1, <2>3, Zenon DEF IsNext
      <4> QED BY <1>3, <4>1, Adds, Zenon
    <3> QED BY <3>1, Zenon DEF IsAdded, conn
  <2>5. IsGathered(e)'
    <3>1. Came(e)' # {}
      <4>1. Offsets(n) # {}
        BY DEF Offsets
      <4> QED BY <1>6, <4>1
    <3>2. /\ KeyOf(e) \in DOMAIN conns' /\ conns'[KeyOf(e)].keyDCID = <<e>>
          /\ conns'[KeyOf(e)].crypto = Parts(e, Came(e)')
      <4>1. KeyOf(e) \in DOMAIN conns' /\ conns'[KeyOf(e)] = conn
        BY <1>1, <2>2
      <4> QED BY <1>6, <2>4, <4>1, Zenon
    <3> QED BY <2>2, <3>1, <3>2, Zenon DEF IsGathered
  <2>6. IsListed(e)'
    <3> SUFFICES ASSUME H3!Whole(e)'
                 PROVE  /\ \E i \in DOMAIN hellos'[addr[e]] : hellos'[addr[e]][i] = H3!Hello(e)
                        /\ Alone(e) => hellos'[addr[e]] # <<>> /\ Last(hellos'[addr[e]]) = H3!Hello(e)
      BY <1>5, Zenon DEF IsListed, Alone
    <3>1. conn.hello = H3!Hello(e)
      BY <1>6, <2>4, Zenon
    <3>2. grows
      BY <1>1, <2>4, <3>1, Zenon DEF grows
    <3> QED BY <1>9, <3>1, <3>2, Zenon
  <2> QED BY <2>5, <2>6
<1> QED BY <1>5, <1>10, <1>11, <1>12, Zenon

LEMMA HellosInit == StandsInit => HellosInv
<1> SUFFICES ASSUME StandsInit, program = "h3sniff"
             PROVE  H3Typed /\ \A c \in Conns : ~renames[c] => IsGathered(c) /\ IsListed(c)
    BY DEF HellosInv
<1>1. H3!Init
    BY DEF StandsInit
<1>2. /\ addr \in [Conns -> Addresses] /\ renames \in [Conns -> BOOLEAN]
      /\ arrived = [m \in Conns \X {1, 2} |-> 0] /\ conns = [k \in {} |-> H3!NewConnection]
      /\ hellos = [a \in Addresses |-> <<>>]
    BY <1>1 DEF H3!Init
<1>3. H3Typed
  <2>1. arrived \in [Conns \X {1, 2} -> Nat]
    BY <1>2
  <2>2. hellos \in [Addresses -> Seq({})]
    BY <1>2
  <2> QED BY <1>2, <2>1, <2>2, Zenon DEF H3Typed
<1>4. ASSUME NEW c \in Conns PROVE IsGathered(c) /\ IsListed(c)
  <2>1. arrived[<<c, 1>>] = 0 /\ arrived[<<c, 2>>] = 0
    BY <1>2
  <2>2. Came(c) = {} /\ ~H3!Whole(c)
    BY <2>1 DEF Came, H3!Whole
  <2>3. KeyOf(c) \notin DOMAIN conns
    BY <1>2
  <2> QED BY <2>2, <2>3, Zenon DEF IsGathered, IsListed
<1> QED BY <1>3, <1>4

LEMMA HellosNext ==
    ASSUME StandsAssumption, HellosInv, [StandsNext]_standsVars
    PROVE  HellosInv'
<1>1. ASSUME program' = program,
             UNCHANGED <<addr, renames, arrived, conns, hellos>>
      PROVE  HellosInv'
    BY <1>1 DEF HellosInv, H3Typed, IsGathered, IsListed, KeyOf, Came, Alone, H3!Whole
<1>2. CASE UNCHANGED standsVars
    BY <1>1, <1>2 DEF standsVars, h3Only
<1>3. CASE FpdNext
    BY <1>3 DEF FpdNext, HellosInv
<1>4. CASE HelloNext
    BY <1>4 DEF HelloNext, HellosInv
<1>5. CASE H3Next
  <2>1. program = "h3sniff" /\ program' = program /\ H3!Next
    BY <1>5 DEF H3Next
  <2>2. PICK c \in Conns :
          \/ \E n \in {1, 2} : H3!ReadFrom(c, n)
          \/ H3!AcceptConn(c) \/ H3!Ask(c) \/ H3!ClientCloses(c)
          \/ \E n \in H3!Reads : H3!ReadControl(c, n)
          \/ \E pair \in H3!ToSet(H3!Parsed(c).pairs) : H3!Store(c, pair)
          \/ H3!Answer(c) \/ H3!CloseByStand(c)
          \/ H3!OpenControl(c) \/ H3!First(c) \/ H3!Grace(c) \/ H3!AwaitSettings(c)
          \/ H3!Report(c) \/ H3!Publish(c) \/ H3!Marshal(c) \/ H3!Dies(c) \/ H3!Return(c)
    BY <2>1, Zenon DEF H3!Next
  <2>3. ASSUME NEW n \in {1, 2}, H3!ReadFrom(c, n) PROVE HellosInv'
    <3>1. Arrives(c, n)
      BY <2>3 DEF H3!ReadFrom, Arrives
    <3> QED BY <2>1, <3>1, ArriveKeeps, Zenon DEF HellosInv
  <2>4. CASE H3!AcceptConn(c)
    BY <1>1, <2>1, <2>4 DEF H3!AcceptConn, H3!sniffVars
  <2>5. CASE H3!Ask(c)
    BY <1>1, <2>1, <2>5 DEF H3!Ask, H3!sniffVars, H3!clientVars
  <2>6. CASE H3!ClientCloses(c)
    BY <1>1, <2>1, <2>6 DEF H3!ClientCloses, H3!sniffVars
  <2>7. ASSUME NEW n \in H3!Reads, H3!ReadControl(c, n) PROVE HellosInv'
    BY <1>1, <2>1, <2>7 DEF H3!ReadControl, H3!sniffVars, H3!clientVars
  <2>8. CASE H3!Answer(c)
    BY <1>1, <2>1, <2>8 DEF H3!Answer, H3!sniffVars, H3!clientVars
  <2>9. CASE H3!CloseByStand(c)
    BY <1>1, <2>1, <2>9 DEF H3!CloseByStand
  <2>10. CASE H3!OpenControl(c)
    BY <1>1, <2>1, <2>10 DEF H3!OpenControl, H3!Quiet, H3!sniffVars, H3!clientVars
  <2>11. CASE H3!First(c)
    BY <1>1, <2>1, <2>11 DEF H3!First, H3!Quiet, H3!sniffVars, H3!clientVars
  <2>12. CASE H3!Grace(c)
    BY <1>1, <2>1, <2>12 DEF H3!Grace, H3!Quiet, H3!sniffVars, H3!clientVars
  <2>13. CASE H3!AwaitSettings(c)
    BY <1>1, <2>1, <2>13 DEF H3!AwaitSettings, H3!Quiet, H3!sniffVars, H3!clientVars
  <2>14. CASE H3!Report(c)
    BY <1>1, <2>1, <2>14 DEF H3!Report, H3!Quiet, H3!sniffVars, H3!clientVars
  <2>15. CASE H3!Publish(c)
    BY <1>1, <2>1, <2>15 DEF H3!Publish, H3!Quiet, H3!sniffVars, H3!clientVars
  <2>16. CASE H3!Return(c)
    BY <1>1, <2>1, <2>16 DEF H3!Return, H3!Quiet, H3!sniffVars, H3!clientVars
  <2>17. ASSUME NEW pair, H3!Store(c, pair) PROVE HellosInv'
    BY <1>1, <2>1, <2>17 DEF H3!Store, H3!sniffVars, H3!clientVars
  <2>18. CASE H3!Marshal(c)
    BY <1>1, <2>1, <2>18 DEF H3!Marshal, H3!Quiet, H3!sniffVars, H3!clientVars
  <2>19. CASE H3!Dies(c)
    BY <1>1, <2>1, <2>19 DEF H3!Dies, H3!sniffVars
  <2> QED BY <2>2, <2>3, <2>4, <2>5, <2>6, <2>7, <2>8, <2>9, <2>10, <2>11, <2>12, <2>13,
             <2>14, <2>15, <2>16, <2>17, <2>18, <2>19
<1> QED BY <1>2, <1>3, <1>4, <1>5 DEF StandsNext

\* h3sniff lists every hello of which both datagrams have come, in any order and
\* how ever often, and whoever else uses the client's socket, if the client
\* keeps to one destination id (main.go:477-516, quicwire.go).
THEOREM EveryHelloIsSeen == StandsSpec => []HelloSeen
<1>1. HellosInv => HelloSeen
    BY Zenon DEF HellosInv, HelloSeen, H3!HelloSeen, IsListed
<1> QED BY <1>1, HellosInit, HellosNext, StandsAssumption, PTL DEF StandsSpec

------------------------------------------------------------------------------
(* The SETTINGS of a control stream.                                        *)

LEMMA PairGoesOn ==
    ASSUME NEW b \in Seq(Nat), NEW i \in 1..Len(b) + 1, H3!PairAt(b, i).ok
    PROVE  H3!PairAt(b, i).next \in (i + 1)..(Len(b) + 1)
<1> DEFINE id == H3!ReadVarint(H3!From(b, i))
           value == H3!ReadVarint(H3!From(b, i + id.size))
<1>1. /\ id.ok \in BOOLEAN /\ id.value \in Nat
      /\ id.ok => id.size \in 1..8 /\ i + id.size \in 1..Len(b) + 1
  <2>1. VarintRead(id, i, Len(b) + 1)
    BY VarintAt
  <2> HIDE DEF id
  <2> QED BY <2>1 DEF VarintRead
<1>2. id.ok => VarintRead(value, i + id.size, Len(b) + 1)
  <2> HIDE DEF id
  <2> QED BY <1>1, VarintAt
<1>3. H3!PairAt(b, i) =
        IF i > Len(b) THEN [ok |-> FALSE, found |-> <<>>, next |-> i]
        ELSE IF id.ok /\ value.ok
          THEN [ok |-> TRUE, found |-> << <<id.value, value.value>> >>, next |-> i + id.size + value.size]
        ELSE [ok |-> FALSE, found |-> <<H3!Cut>>, next |-> i]
    BY Zenon DEF H3!PairAt
<1> HIDE DEF id, value
<1>4. /\ ~(i > Len(b)) /\ id.ok /\ value.ok
      /\ H3!PairAt(b, i).next = i + id.size + value.size
  <2>1. CASE i > Len(b)
    BY <1>3, <2>1
  <2>2. CASE ~(i > Len(b)) /\ ~(id.ok /\ value.ok)
    BY <1>3, <2>2
  <2>3. CASE ~(i > Len(b)) /\ id.ok /\ value.ok
    BY <1>3, <2>3
  <2> QED BY <2>1, <2>2, <2>3
<1>5. value.size \in 1..8 /\ i + id.size + value.size <= Len(b) + 1 /\ id.size \in 1..8
    BY <1>1, <1>2, <1>4 DEF VarintRead
<1>6. i + id.size + value.size \in (i + 1)..(Len(b) + 1)
  <2> DEFINE k == id.size
             l == value.size
  <2>1. k \in 1..8 /\ l \in 1..8 /\ i + k + l <= Len(b) + 1 /\ Len(b) \in Nat /\ i \in Nat
    BY <1>5
  <2> HIDE DEF k, l
  <2>2. i + k + l \in (i + 1)..(Len(b) + 1)
    BY <2>1
  <2> QED BY <2>2 DEF k, l
<1> QED BY <1>4, <1>6, Zenon

\* What Pairs finds is what is found from one position to the next.
PairsFrom(b, rest) ==
    \A i \in 1..Len(b) + 1 :
        rest[i] = IF H3!PairAt(b, i).ok
                    THEN H3!PairAt(b, i).found \o rest[H3!PairAt(b, i).next]
                    ELSE H3!PairAt(b, i).found

LEMMA PairsWalk ==
    ASSUME NEW b \in Seq(Nat)
    PROVE  \E rest : H3!Pairs(b) = rest[1] /\ PairsFrom(b, rest)
<1> DEFINE n == Len(b) + 1
           step == [i \in 1..n |-> H3!PairAt(b, i)]
           IsRest(f) == f = [i \in 1..n |-> IF H3!PairAt(b, i).ok
                              THEN H3!PairAt(b, i).found \o f[H3!PairAt(b, i).next]
                              ELSE H3!PairAt(b, i).found]
           rest == CHOOSE f : IsRest(f)
<1>1. H3!Pairs(b) = rest[1]
    BY Zenon DEF H3!Pairs, H3!Onward
<1>2. n \in Nat \ {0}
    OBVIOUS
<1>3. \A i \in 1..n : step[i].ok => step[i].next \in (i + 1)..n
    BY PairGoesOn
<1>4. \E f : f = [i \in 1..n |-> IF step[i].ok THEN step[i].found \o f[step[i].next]
                                 ELSE step[i].found]
  <2> HIDE DEF n, step
  <2> QED BY <1>2, <1>3, Walk
<1>5. \E f : IsRest(f)
  <2>1. \A i \in 1..n : step[i] = H3!PairAt(b, i)
    OBVIOUS
  <2>2. PICK f : f = [i \in 1..n |-> IF step[i].ok THEN step[i].found \o f[step[i].next]
                                     ELSE step[i].found]
    BY <1>4
  <2> HIDE DEF n, step
  <2>3. IsRest(f)
    BY <2>1, <2>2
  <2> QED BY <2>3
<1>6. IsRest(rest)
  <2> HIDE DEF IsRest
  <2> QED BY <1>5, Zenon
<1> HIDE DEF rest
<1>7. \A i \in 1..n : rest[i] = IF H3!PairAt(b, i).ok
                              THEN H3!PairAt(b, i).found \o rest[H3!PairAt(b, i).next]
                              ELSE H3!PairAt(b, i).found
  <2> HIDE DEF n
  <2> QED BY <1>6
<1> QED BY <1>1, <1>7 DEF PairsFrom

\* The pairs of a client whose own value is v.
PairsOf(v) == << <<1, 5>>, <<7, v>> >>

LEMMA SettingsOf ==
    ASSUME NEW p \in Seq(Nat), NEW v \in 0..63, Len(p) = 5,
           p[1] = 1, p[2] = 64, p[3] = 5, p[4] = 7, p[5] = v
    PROVE  H3!Pairs(p) = PairsOf(v)
<1>1. PICK rest : H3!Pairs(p) = rest[1] /\ PairsFrom(p, rest)
    BY PairsWalk
<1>2. H3!PairAt(p, 1) = [ok |-> TRUE, found |-> << <<1, 5>> >>, next |-> 4]
  <2> DEFINE id == H3!ReadVarint(H3!From(p, 1))
             value == H3!ReadVarint(H3!From(p, 1 + id.size))
  <2>1. id = [ok |-> TRUE, size |-> 1, value |-> 1]
    <3>1. 1 \in 1..Len(p) /\ p[1] < 64
      OBVIOUS
    <3>2. id = [ok |-> TRUE, size |-> 1, value |-> p[1]]
      BY <3>1, OneByte, Zenon
    <3> QED BY <3>2
  <2>2. H3!ReadVarint(H3!From(p, 2)) = [ok |-> TRUE, size |-> 2, value |-> 5]
    <3>1. 2 \in 1..Len(p) /\ 2 + 1 <= Len(p) /\ 64 <= p[2] /\ p[2] < 128
      OBVIOUS
    <3>2. H3!ReadVarint(H3!From(p, 2)) =
            [ok |-> TRUE, size |-> 2, value |-> (p[2] % 64) * 256 + p[2 + 1]]
      BY <3>1, TwoBytes, Zenon
    <3>3. (p[2] % 64) * 256 + p[2 + 1] = 5
      OBVIOUS
    <3> QED BY <3>2, <3>3
  <2>3. H3!PairAt(p, 1) =
          IF 1 > Len(p) THEN [ok |-> FALSE, found |-> <<>>, next |-> 1]
          ELSE IF id.ok /\ value.ok
            THEN [ok |-> TRUE, found |-> << <<id.value, value.value>> >>, next |-> 1 + id.size + value.size]
          ELSE [ok |-> FALSE, found |-> <<H3!Cut>>, next |-> 1]
    BY Zenon DEF H3!PairAt
  <2> HIDE DEF id
  <2>4. id.ok /\ id.size = 1 /\ id.value = 1
    BY <2>1
  <2>5. value = [ok |-> TRUE, size |-> 2, value |-> 5]
    BY <2>2, <2>4
  <2> HIDE DEF value
  <2>6. value.ok /\ value.size = 2 /\ value.value = 5
    BY <2>5
  <2>7. ~(1 > Len(p)) /\ 1 + id.size + value.size = 4
    BY <2>4, <2>6
  <2>8. H3!PairAt(p, 1) =
          [ok |-> TRUE, found |-> << <<id.value, value.value>> >>, next |-> 1 + id.size + value.size]
    BY <2>3, <2>4, <2>6, <2>7, Zenon
  <2>9. <<id.value, value.value>> = <<1, 5>>
    BY <2>4, <2>6
  <2> QED BY <2>7, <2>8, <2>9, Zenon
<1>3. H3!PairAt(p, 4) = [ok |-> TRUE, found |-> << <<7, v>> >>, next |-> 6]
  <2> DEFINE id == H3!ReadVarint(H3!From(p, 4))
             value == H3!ReadVarint(H3!From(p, 4 + id.size))
  <2>1. id = [ok |-> TRUE, size |-> 1, value |-> 7]
    <3>1. 4 \in 1..Len(p) /\ p[4] < 64
      OBVIOUS
    <3>2. id = [ok |-> TRUE, size |-> 1, value |-> p[4]]
      BY <3>1, OneByte, Zenon
    <3> QED BY <3>2
  <2>2. H3!ReadVarint(H3!From(p, 5)) = [ok |-> TRUE, size |-> 1, value |-> v]
    <3>1. 5 \in 1..Len(p) /\ p[5] < 64
      OBVIOUS
    <3>2. H3!ReadVarint(H3!From(p, 5)) = [ok |-> TRUE, size |-> 1, value |-> p[5]]
      BY <3>1, OneByte, Zenon
    <3> QED BY <3>2
  <2>3. H3!PairAt(p, 4) =
          IF 4 > Len(p) THEN [ok |-> FALSE, found |-> <<>>, next |-> 4]
          ELSE IF id.ok /\ value.ok
            THEN [ok |-> TRUE, found |-> << <<id.value, value.value>> >>, next |-> 4 + id.size + value.size]
          ELSE [ok |-> FALSE, found |-> <<H3!Cut>>, next |-> 4]
    BY Zenon DEF H3!PairAt
  <2> HIDE DEF id
  <2>4. id.ok /\ id.size = 1 /\ id.value = 7
    BY <2>1
  <2>5. value = [ok |-> TRUE, size |-> 1, value |-> v]
    BY <2>2, <2>4
  <2> HIDE DEF value
  <2>6. value.ok /\ value.size = 1 /\ value.value = v
    BY <2>5
  <2>7. ~(4 > Len(p)) /\ 4 + id.size + value.size = 6
    BY <2>4, <2>6
  <2>8. H3!PairAt(p, 4) =
          [ok |-> TRUE, found |-> << <<id.value, value.value>> >>, next |-> 4 + id.size + value.size]
    BY <2>3, <2>4, <2>6, <2>7, Zenon
  <2>9. <<id.value, value.value>> = <<7, v>>
    BY <2>4, <2>6
  <2> QED BY <2>7, <2>8, <2>9, Zenon
<1>4. H3!PairAt(p, 6) = [ok |-> FALSE, found |-> <<>>, next |-> 6]
  <2>1. 6 > Len(p)
    OBVIOUS
  <2> QED BY <2>1, Zenon DEF H3!PairAt
<1>5. 1 \in 1..Len(p) + 1 /\ 4 \in 1..Len(p) + 1 /\ 6 \in 1..Len(p) + 1
    OBVIOUS
<1>6. rest[6] = <<>>
  <2>1. rest[6] = IF H3!PairAt(p, 6).ok
                    THEN H3!PairAt(p, 6).found \o rest[H3!PairAt(p, 6).next]
                    ELSE H3!PairAt(p, 6).found
    BY <1>1, <1>5, Zenon DEF PairsFrom
  <2>2. ~H3!PairAt(p, 6).ok /\ H3!PairAt(p, 6).found = <<>>
    BY <1>4
  <2> QED BY <2>1, <2>2, Zenon
<1>7. rest[4] = << <<7, v>> >> \o rest[6]
  <2>1. rest[4] = IF H3!PairAt(p, 4).ok
                    THEN H3!PairAt(p, 4).found \o rest[H3!PairAt(p, 4).next]
                    ELSE H3!PairAt(p, 4).found
    BY <1>1, <1>5, Zenon DEF PairsFrom
  <2>2. H3!PairAt(p, 4).ok /\ H3!PairAt(p, 4).next = 6 /\ H3!PairAt(p, 4).found = << <<7, v>> >>
    BY <1>3
  <2> QED BY <2>1, <2>2, Zenon
<1>8. rest[1] = << <<1, 5>> >> \o rest[4]
  <2>1. rest[1] = IF H3!PairAt(p, 1).ok
                    THEN H3!PairAt(p, 1).found \o rest[H3!PairAt(p, 1).next]
                    ELSE H3!PairAt(p, 1).found
    BY <1>1, <1>5, Zenon DEF PairsFrom
  <2>2. H3!PairAt(p, 1).ok /\ H3!PairAt(p, 1).next = 4 /\ H3!PairAt(p, 1).found = << <<1, 5>> >>
    BY <1>2
  <2> QED BY <2>1, <2>2, Zenon
<1> DEFINE x == <<1, 5>>
           y == <<7, v>>
<1>9. rest[1] = <<x>> \o rest[4] /\ rest[4] = <<y>> \o <<>>
    BY <1>6, <1>7, <1>8
<1>10. PairsOf(v) = <<x, y>>
    BY Zenon DEF PairsOf
<1> HIDE DEF x, y
<1>11. <<y>> \o <<>> = <<y>> /\ <<x>> \o <<y>> = <<x, y>>
    BY OneOfOne, TwoOfOne
<1> QED BY <1>1, <1>9, <1>10, <1>11, Zenon

LEMMA PrefixOf ==
    ASSUME NEW s \in Seq(Nat), NEW n \in 1..Len(s)
    PROVE  /\ SubSeq(s, 1, n) \in Seq(Nat) /\ Len(SubSeq(s, 1, n)) = n
           /\ \A i \in 1..n : SubSeq(s, 1, n)[i] = s[i]
<1>1. SubSeq(s, 1, n) \in Seq(Nat) /\ Len(SubSeq(s, 1, n)) = n
    OBVIOUS
<1>2. \A i \in 1..n : SubSeq(s, 1, n)[i] = s[i]
    OBVIOUS
<1> QED BY <1>1, <1>2

LEMMA ElementOf == \A s \in Seq(Nat) : \A i \in 1..Len(s) : s[i] \in Nat
OBVIOUS

LEMMA MiddleOf ==
    ASSUME NEW s \in Seq(Nat), Len(s) = 10
    PROVE  /\ SubSeq(s, 4, 8) \in Seq(Nat) /\ Len(SubSeq(s, 4, 8)) = 5
           /\ SubSeq(s, 4, 8)[1] = s[4] /\ SubSeq(s, 4, 8)[2] = s[5] /\ SubSeq(s, 4, 8)[3] = s[6]
           /\ SubSeq(s, 4, 8)[4] = s[7] /\ SubSeq(s, 4, 8)[5] = s[8]
<1>1. SubSeq(s, 4, 8) \in Seq(Nat) /\ Len(SubSeq(s, 4, 8)) = 5
  <2>1. 4 \in 1..Len(s) /\ 8 \in 1..Len(s) /\ 8 - 4 + 1 = 5
    OBVIOUS
  <2>2. SubSeq(s, 4, 8) = [k \in 1..5 |-> s[(4 + k) - 1]]
    BY <2>1
  <2>3. \A k \in 1..5 : s[(4 + k) - 1] \in Nat
    <3>1. \A k \in 1..5 : (4 + k) - 1 \in 1..Len(s)
      OBVIOUS
    <3>2. \A i \in 1..Len(s) : s[i] \in Nat
      BY ElementOf, Zenon
    <3> QED BY <3>1, <3>2, Zenon
  <2>4. [k \in 1..5 |-> s[(4 + k) - 1]] \in [1..5 -> Nat]
    BY <2>3
  <2> QED BY <2>2, <2>4
<1>2. /\ SubSeq(s, 4, 8)[1] = s[4] /\ SubSeq(s, 4, 8)[2] = s[5] /\ SubSeq(s, 4, 8)[3] = s[6]
      /\ SubSeq(s, 4, 8)[4] = s[7] /\ SubSeq(s, 4, 8)[5] = s[8]
    OBVIOUS
<1> QED BY <1>1, <1>2

Prefix(c, n) == SubSeq(H3!ControlStream(c), 1, n)

LEMMA PrefixIs ==
    ASSUME NEW c \in Nat, NEW n \in 1..10
    PROVE  LET stream == H3!ControlStream(c)
           IN /\ Prefix(c, n) \in Seq(Nat) /\ Len(Prefix(c, n)) = n
              /\ \A i \in 1..n : Prefix(c, n)[i] = stream[i]
              /\ stream[1] = 0 /\ stream[2] = 4 /\ stream[3] = 5 /\ stream[4] = 1
              /\ stream[5] = 64 /\ stream[6] = 5 /\ stream[7] = 7 /\ stream[8] = c % 64
<1> DEFINE v == c % 64
<1>1. v \in Nat
  OBVIOUS
<1> HIDE DEF v
<1> DEFINE s == <<0, 4, 5, 1, 64, 5, 7, v, 33, 0>>
<1>2. s \in Seq(Nat) /\ Len(s) = 10
  BY <1>1
<1>3. s[1] = 0 /\ s[2] = 4 /\ s[3] = 5 /\ s[4] = 1 /\ s[5] = 64 /\ s[6] = 5 /\ s[7] = 7 /\ s[8] = v
  OBVIOUS
<1>4. H3!ControlStream(c) = s
  BY Zenon DEF H3!ControlStream, v
<1> HIDE DEF s
<1>5. /\ SubSeq(s, 1, n) \in Seq(Nat) /\ Len(SubSeq(s, 1, n)) = n
      /\ \A i \in 1..n : SubSeq(s, 1, n)[i] = s[i]
  <2>1. n \in 1..Len(s)
    BY <1>2
  <2> QED BY <1>2, <2>1, PrefixOf, Zenon
<1> QED BY <1>3, <1>4, <1>5, Zenon DEF Prefix, v

\* A prefix of the control stream gives all of its SETTINGS or none to the parser.
LEMMA SettingsRead ==
    ASSUME NEW c \in Nat, NEW n \in H3!Reads
    PROVE  H3!H3Settings(Prefix(c, n)) \in {H3!NoSettings, [ok |-> TRUE, pairs |-> PairsOf(c % 64)]}
<1> DEFINE raw == Prefix(c, n)
           stream == H3!ControlStream(c)
           type == H3!ReadVarint(raw)
           frame == H3!Field(raw, 1 + type.size)
           pairs == H3!Pairs(frame.data)
<1>1. n \in {1, 6, 10} /\ n \in 1..10
    BY DEF H3!Reads
<1>2. raw \in Seq(Nat) /\ Len(raw) = n /\ \A i \in 1..n : raw[i] = stream[i]
    BY <1>1, PrefixIs
<1>3. /\ stream[1] = 0 /\ stream[2] = 4 /\ stream[3] = 5 /\ stream[4] = 1
      /\ stream[5] = 64 /\ stream[6] = 5 /\ stream[7] = 7 /\ stream[8] = c % 64
    BY <1>1, PrefixIs
<1>4. H3!H3Settings(raw) =
        IF \/ ~type.ok \/ type.value # 0
           \/ ~frame.ok \/ frame.id # 4
           \/ \E i \in DOMAIN pairs : pairs[i] = H3!Cut
          THEN H3!NoSettings ELSE [ok |-> TRUE, pairs |-> pairs]
    BY Zenon DEF H3!H3Settings
<1> HIDE DEF raw, stream
<1>5. type.size = 1
  <2>1. 1 \in 1..Len(raw) /\ raw[1] < 64
    BY <1>1, <1>2, <1>3
  <2>2. H3!ReadVarint(H3!From(raw, 1)) = [ok |-> TRUE, size |-> 1, value |-> raw[1]]
    BY <1>2, <2>1, OneByte, Zenon
  <2>3. H3!From(raw, 1) = raw
    BY <1>2, WholeOf, Zenon DEF H3!From
  <2> QED BY <2>2, <2>3
<1>6. frame = H3!Field(raw, 2)
  <2> HIDE DEF type
  <2> QED BY <1>5
<1> HIDE DEF type, frame
<1>7. n \in {1, 6} => ~frame.ok
  <2> DEFINE id == H3!ReadVarint(H3!From(raw, 2))
             length == H3!ReadVarint(H3!From(raw, 2 + id.size))
             start == 2 + id.size + length.size
  <2>1. H3!Field(raw, 2) = H3!Block(raw, id, length, start)
    BY Zenon DEF H3!Field
  <2>2. frame.ok => id.ok /\ length.ok /\ start + length.value <= Len(raw) + 1
    <3> HIDE DEF id, length, start
    <3> SUFFICES ASSUME frame.ok
                 PROVE  id.ok /\ length.ok /\ start + length.value <= Len(raw) + 1
      OBVIOUS
    <3>1. H3!Block(raw, id, length, start).ok
      BY <1>6, <2>1, Zenon
    <3> QED BY <3>1, BlockIs, Zenon
  <2>3. CASE n = 1
    <3>1. Len(raw) + 1 = 2
      BY <1>2, <2>3
    <3>2. id = H3!NoVarint
      BY <1>2, <3>1, NoByte, Zenon
    <3>3. ~id.ok
      BY <3>2 DEF H3!NoVarint
    <3> QED BY <2>2, <3>3, Zenon
  <2>4. CASE n = 6
    <3>1. /\ 2 \in 1..Len(raw) /\ 3 \in 1..Len(raw) /\ raw[2] = 4 /\ raw[3] = 5
          /\ raw[2] < 64 /\ raw[3] < 64
      BY <1>2, <1>3, <2>4
    <3>2. id = [ok |-> TRUE, size |-> 1, value |-> raw[2]]
      BY <1>2, <3>1, OneByte, Zenon
    <3>3. H3!ReadVarint(H3!From(raw, 3)) = [ok |-> TRUE, size |-> 1, value |-> raw[3]]
      BY <1>2, <3>1, OneByte, Zenon
    <3> HIDE DEF id
    <3>4. id.size = 1
      BY <3>2
    <3>5. length = [ok |-> TRUE, size |-> 1, value |-> raw[3]]
      BY <3>3, <3>4
    <3> HIDE DEF length
    <3>6. length.size = 1 /\ length.value = 5
      BY <3>1, <3>5
    <3>7. start + length.value = 9 /\ Len(raw) + 1 = 7
      BY <1>2, <2>4, <3>4, <3>6
    <3> QED BY <2>2, <3>7
  <2> QED BY <2>3, <2>4
<1>8. n = 10 => pairs = PairsOf(c % 64)
  <2> SUFFICES ASSUME n = 10 PROVE pairs = PairsOf(c % 64)
    OBVIOUS
  <2>1. /\ 2 \in 1..Len(raw) /\ 2 + 1 \in 1..Len(raw) /\ raw[2] < 64 /\ raw[2 + 1] < 64
        /\ 8 \in 1..Len(raw) /\ 8 = 2 + 1 + raw[2 + 1]
    BY <1>2, <1>3
  <2>2. /\ H3!Field(raw, 2).ok /\ H3!Field(raw, 2).id = raw[2] /\ H3!Field(raw, 2).next = 8 + 1
        /\ H3!Field(raw, 2).data = SubSeq(raw, 2 + 2, 8)
    <3>1. raw \in Seq(Nat)
      BY <1>2
    <3>2. ShortField(raw, 2, 8)
      BY <2>1, <3>1, PlainField, Zenon
    <3> QED BY <3>2, Zenon DEF ShortField
  <2> DEFINE p == SubSeq(raw, 4, 8)
  <2>3. /\ p \in Seq(Nat) /\ Len(p) = 5
        /\ p[1] = raw[4] /\ p[2] = raw[5] /\ p[3] = raw[6] /\ p[4] = raw[7] /\ p[5] = raw[8]
    <3>1. raw \in Seq(Nat) /\ Len(raw) = 10
      BY <1>2
    <3> QED BY <3>1, MiddleOf, Zenon
  <2>4. frame.data = p
    BY <1>6, <2>2
  <2> HIDE DEF p
  <2>5. p[1] = 1 /\ p[2] = 64 /\ p[3] = 5 /\ p[4] = 7 /\ p[5] = c % 64
    BY <1>2, <1>3, <2>3
  <2>6. H3!Pairs(p) = PairsOf(c % 64)
    <3>1. c % 64 \in 0..63
      OBVIOUS
    <3> QED BY <2>3, <2>5, <3>1, SettingsOf, Zenon
  <2> QED BY <2>4, <2>6
<1> HIDE DEF pairs
<1>9. CASE n \in {1, 6}
    BY <1>4, <1>7, <1>9, Zenon DEF raw
<1>10. CASE n = 10
    BY <1>4, <1>8, <1>10, Zenon DEF raw
<1> QED BY <1>1, <1>9, <1>10

\* What was parsed of as much as was read: the client's own, all of it or nothing.
LEMMA PairsRead ==
    ASSUME NEW c \in Nat, NEW n \in H3!Reads \cup {0}
    PROVE  LET parsed == H3!H3Settings(Prefix(c, n))
           IN /\ H3!ToSet(parsed.pairs) \subseteq H3!Settings(c)
              /\ parsed.ok => H3!ToSet(parsed.pairs) = H3!Settings(c)
<1> DEFINE parsed == H3!H3Settings(Prefix(c, n))
<1>1. parsed \in {H3!NoSettings, [ok |-> TRUE, pairs |-> PairsOf(c % 64)]}
  <2>1. CASE n = 0
    <3>1. H3!ControlStream(c) \in Seq(Nat)
      BY DEF H3!ControlStream
    <3>2. Prefix(c, n) = <<>>
      BY <2>1, <3>1 DEF Prefix
    <3>3. H3!ReadVarint(<<>>) = H3!NoVarint
      BY Zenon DEF H3!ReadVarint
    <3>4. ~H3!ReadVarint(<<>>).ok
      BY <3>3 DEF H3!NoVarint
    <3>5. H3!H3Settings(<<>>) = H3!NoSettings
      BY <3>4, Zenon DEF H3!H3Settings
    <3> QED BY <3>2, <3>5
  <2>2. CASE n \in H3!Reads
    BY <2>2, SettingsRead
  <2> QED BY <2>1, <2>2
<1> HIDE DEF parsed
<1> DEFINE v == c % 64
<1>2. H3!ToSet(PairsOf(v)) = {<<1, 5>>, <<7, v>>}
  <2> HIDE DEF v
  <2>1. /\ DOMAIN PairsOf(v) = {1, 2}
        /\ PairsOf(v)[1] = <<1, 5>> /\ PairsOf(v)[2] = <<7, v>>
    BY DEF PairsOf
  <2> QED BY <2>1, Zenon DEF H3!ToSet
<1>3. H3!Settings(c) = {<<1, 5>>, <<7, v>>}
  BY Zenon DEF H3!Settings
<1>4. H3!ToSet(<<>>) = {}
  BY DEF H3!ToSet
<1> HIDE DEF v
<1>5. CASE parsed = H3!NoSettings
  <2>1. parsed.pairs = <<>> /\ ~parsed.ok
    BY <1>5 DEF H3!NoSettings
  <2> QED BY <1>4, <2>1 DEF parsed
<1>6. CASE parsed = [ok |-> TRUE, pairs |-> PairsOf(v)]
  <2>1. parsed.pairs = PairsOf(v)
    BY <1>6
  <2> QED BY <1>2, <1>3, <2>1 DEF parsed
<1> QED BY <1>1, <1>5, <1>6 DEF v

LEMMA SettingsAre == ASSUME NEW c \in Nat PROVE H3!Settings(c) \subseteq Nat \X Nat
BY DEF H3!Settings

------------------------------------------------------------------------------
(* The reports of h3sniff.                                                  *)

Stages == {"none", "control", "first", "grace", "settings", "report", "publish", "marshal",
           "reported", "gone", "dead"}
ReportsOf(T) == [hello : T, settings : SUBSET (Nat \X Nat), late : BOOLEAN]

ReportTyped ==
    /\ pc \in [Conns -> Stages] /\ settings \in [Conns -> SUBSET (Nat \X Nat)]
    /\ control \in [Conns -> H3!Reads \cup {0}]
    /\ \E T : report \in [Conns -> ReportsOf(T)]

\* What the report r of a connection may say at a stage of its handle: the hello
\* of a client with a socket of its own, its pairs and nobody else's; and once
\* the wait for them is over they are all in the map, and then in the report,
\* unless it was the time that was over.
SaysOf(c, stage, r) ==
    /\ stage \in {"publish", "marshal", "reported"} /\ ~renames[c] /\ Alone(c) =>
         r.hello = H3!Hello(c)
    /\ r.settings \subseteq H3!Settings(c)
    /\ stage \in {"report", "publish", "marshal"} /\ ~r.late => settings[c] = H3!Settings(c)
    /\ stage = "reported" /\ ~r.late => r.settings = H3!Settings(c)

\* A connection is handled when its hello has come.
IsReported(c) ==
    /\ pc[c] \notin {"none", "dead"} => H3!Whole(c)
    /\ settings[c] \subseteq H3!Settings(c)
    /\ SaysOf(c, pc[c], report[c])

PublishedInv == program = "h3sniff" => ReportTyped /\ \A c \in Conns : IsReported(c)

LEMMA PublishedInit == StandsInit => PublishedInv
<1> SUFFICES ASSUME StandsInit, program = "h3sniff" PROVE ReportTyped /\ \A c \in Conns : IsReported(c)
    BY DEF PublishedInv
<1>1. H3!Init
    BY DEF StandsInit
<1>2. /\ pc = [c \in Conns |-> "none"] /\ settings = [c \in Conns |-> {}]
      /\ control = [c \in Conns |-> 0] /\ report = [c \in Conns |-> H3!NoReport]
    BY <1>1 DEF H3!Init
<1>3. pc \in [Conns -> Stages] /\ \A c \in Conns : pc[c] = "none"
    BY <1>2 DEF Stages
<1>4. settings \in [Conns -> SUBSET (Nat \X Nat)] /\ control \in [Conns -> H3!Reads \cup {0}]
    BY <1>2
<1>5. report \in [Conns -> ReportsOf({<<>>})]
  <2>1. H3!NoReport \in ReportsOf({<<>>})
    BY DEF ReportsOf, H3!NoReport
  <2> QED BY <1>2, <2>1
<1>6. \A c \in Conns : settings[c] = {} /\ report[c].settings = {}
    BY <1>2 DEF H3!NoReport
<1>7. \A c \in Conns : IsReported(c)
    BY <1>3, <1>6 DEF IsReported, SaysOf
<1> QED BY <1>3, <1>4, <1>5, <1>7, Zenon DEF ReportTyped

\* A step of handle: it goes on to a stage, and may write into its report.
LEMMA Moves ==
    ASSUME program = "h3sniff", PublishedInv, NEW c \in Conns, H3!Whole(c),
           NEW to \in Stages, pc' = [pc EXCEPT ![c] = to],
           NEW T, NEW r \in ReportsOf(T), report' = [report EXCEPT ![c] = r], SaysOf(c, to, r),
           UNCHANGED <<addr, renames, arrived, control, settings>>
    PROVE  PublishedInv'
<1>1. ReportTyped /\ \A e \in Conns : IsReported(e)
    BY DEF PublishedInv
<1>2. PICK U : report \in [Conns -> ReportsOf(U)]
    BY <1>1 DEF ReportTyped
<1>3. pc \in [Conns -> Stages]
    BY <1>1 DEF ReportTyped
<1>4. ReportTyped'
  <2>1. ReportsOf(U) \subseteq ReportsOf(U \cup T) /\ ReportsOf(T) \subseteq ReportsOf(U \cup T)
    BY DEF ReportsOf
  <2>2. report' \in [Conns -> ReportsOf(U \cup T)]
    BY <1>2, <2>1
  <2>3. pc' \in [Conns -> Stages]
    BY <1>3
  <2>4. /\ settings' \in [Conns -> SUBSET (Nat \X Nat)]
        /\ control' \in [Conns -> H3!Reads \cup {0}]
    BY <1>1 DEF ReportTyped
  <2> QED BY <2>2, <2>3, <2>4, Zenon DEF ReportTyped
<1>5. ASSUME NEW e \in Conns PROVE IsReported(e)'
  <2>1. /\ H3!Whole(e)' = H3!Whole(e) /\ Alone(e)' = Alone(e)
        /\ renames'[e] = renames[e] /\ settings'[e] = settings[e]
    BY DEF H3!Whole, Alone
  <2>2. CASE e = c
    <3>1. pc'[e] = to /\ report'[e] = r
      BY <1>2, <1>3, <2>2
    <3>2. SaysOf(e, pc[e], report[e])'
      BY <2>1, <2>2, <3>1, Zenon DEF SaysOf
    <3> QED BY <1>1, <2>1, <2>2, <3>2 DEF IsReported
  <2>3. CASE e # c
    <3>1. pc'[e] = pc[e] /\ report'[e] = report[e]
      BY <1>2, <1>3, <2>3
    <3>2. SaysOf(e, pc[e], report[e])'
      BY <1>1, <2>1, <3>1, Zenon DEF SaysOf, IsReported
    <3> QED BY <1>1, <2>1, <3>1, <3>2, Zenon DEF IsReported
  <2> QED BY <2>2, <2>3
<1> QED BY <1>4, <1>5 DEF PublishedInv

\* A step of handle that writes nothing.
LEMMA MovesOn ==
    ASSUME program = "h3sniff", PublishedInv, NEW c \in Conns, H3!Whole(c),
           NEW to \in Stages, pc' = [pc EXCEPT ![c] = to], SaysOf(c, to, report[c]),
           UNCHANGED <<addr, renames, arrived, control, settings, report>>
    PROVE  PublishedInv'
<1>1. PICK T : report \in [Conns -> ReportsOf(T)]
    BY DEF PublishedInv, ReportTyped
<1>2. report[c] \in ReportsOf(T) /\ report' = [report EXCEPT ![c] = report[c]]
    BY <1>1
<1> QED BY <1>2, Moves

\* When handle waits no longer for the SETTINGS.
LEMMA AwaitStep ==
    ASSUME StandsAssumption, program = "h3sniff", PublishedInv, NEW c \in Conns, H3!AwaitSettings(c)
    PROVE  PublishedInv'
<1>1. /\ pc[c] = "settings" /\ UNCHANGED <<addr, renames, arrived, control, settings>>
      /\ \/ H3!Done(c) /\ pc' = [pc EXCEPT ![c] = "report"] /\ UNCHANGED report
         \/ pc' = [pc EXCEPT ![c] = "report"] /\ report' = [report EXCEPT ![c].late = TRUE]
         \/ pc' = [pc EXCEPT ![c] = "gone"] /\ UNCHANGED report
    BY DEF H3!AwaitSettings, H3!Go, H3!Quiet, H3!clientVars
<1>2. IsReported(c)
    BY DEF PublishedInv
<1>3. H3!Whole(c) /\ report[c].settings \subseteq H3!Settings(c)
    BY <1>1, <1>2 DEF IsReported, SaysOf
<1>4. "report" \in Stages /\ "gone" \in Stages
    BY DEF Stages
<1>5. CASE H3!Done(c) /\ pc' = [pc EXCEPT ![c] = "report"] /\ UNCHANGED report
  <2>1. c \in Nat /\ control[c] \in H3!Reads \cup {0}
    BY StandsAssumption DEF PublishedInv, ReportTyped
  <2>2. H3!Parsed(c) = H3!H3Settings(Prefix(c, control[c]))
    BY Zenon DEF H3!Parsed, Prefix
  <2>3. settings[c] = H3!Settings(c)
    BY <1>5, <2>1, <2>2, PairsRead DEF H3!Done
  <2>4. SaysOf(c, "report", report[c])
    BY <1>3, <2>3 DEF SaysOf
  <2> QED BY <1>1, <1>3, <1>4, <1>5, <2>4, MovesOn
<1>6. CASE pc' = [pc EXCEPT ![c] = "report"] /\ report' = [report EXCEPT ![c].late = TRUE]
  <2>1. PICK T : report \in [Conns -> ReportsOf(T)]
    BY DEF PublishedInv, ReportTyped
  <2> DEFINE r == [report[c] EXCEPT !.late = TRUE]
  <2>2. r \in ReportsOf(T) /\ r.late = TRUE /\ r.settings = report[c].settings
    BY <2>1 DEF ReportsOf
  <2>3. report' = [report EXCEPT ![c] = r]
    BY <1>6
  <2> HIDE DEF r
  <2>4. SaysOf(c, "report", r)
    BY <1>3, <2>2 DEF SaysOf
  <2> QED BY <1>1, <1>3, <1>4, <1>6, <2>2, <2>3, <2>4, Moves
<1>7. CASE pc' = [pc EXCEPT ![c] = "gone"] /\ UNCHANGED report
  <2>1. SaysOf(c, "gone", report[c])
    BY <1>3 DEF SaysOf
  <2> QED BY <1>1, <1>3, <1>4, <1>7, <2>1, MovesOn
<1> QED BY <1>1, <1>5, <1>6, <1>7

\* The hello listed last is what is reported.
LEMMA ReportStep ==
    ASSUME program = "h3sniff", HellosInv, PublishedInv, NEW c \in Conns, H3!Report(c)
    PROVE  PublishedInv'
<1> DEFINE x == IF hellos[addr[c]] = <<>> THEN <<>> ELSE Last(hellos[addr[c]])
<1>1. /\ pc[c] = "report" /\ pc' = [pc EXCEPT ![c] = "publish"]
      /\ report' = [report EXCEPT ![c].hello = x]
      /\ UNCHANGED <<addr, renames, arrived, control, settings>>
  <2>1. pc[c] = "report" /\ pc' = [pc EXCEPT ![c] = "publish"]
    BY Zenon DEF H3!Report, H3!Go
  <2>2. UNCHANGED <<addr, renames, arrived, control, settings>>
    BY DEF H3!Report, H3!Quiet, H3!clientVars
  <2>3. report' = [report EXCEPT ![c].hello = x]
    <3>1. H3!Last(hellos[addr[c]]) = Last(hellos[addr[c]])
      BY Zenon DEF H3!Last, Last
    <3>2. report' = [report EXCEPT ![c].hello =
                       IF hellos[addr[c]] = <<>> THEN <<>> ELSE H3!Last(hellos[addr[c]])]
      BY Zenon DEF H3!Report
    <3> QED BY <3>1, <3>2, Zenon
  <2> QED BY <2>1, <2>2, <2>3, Zenon
<1>2. IsReported(c)
    BY DEF PublishedInv
<1>3. H3!Whole(c)
    BY <1>1, <1>2 DEF IsReported
<1>4. ~renames[c] /\ Alone(c) => x = H3!Hello(c)
  <2>1. ~renames[c] => IsListed(c)
    BY DEF HellosInv
  <2> QED BY <1>3, <2>1, Zenon DEF IsListed
<1> HIDE DEF x
<1>5. PICK T : report \in [Conns -> ReportsOf(T)]
    BY DEF PublishedInv, ReportTyped
<1> DEFINE r == [report[c] EXCEPT !.hello = x]
<1>6. /\ r \in ReportsOf(T \cup {x}) /\ r.hello = x
      /\ r.settings = report[c].settings /\ r.late = report[c].late
    BY <1>5 DEF ReportsOf
<1>7. report' = [report EXCEPT ![c] = r]
    BY <1>1
<1> HIDE DEF r
<1>8. SaysOf(c, "publish", r)
    BY <1>1, <1>2, <1>4, <1>6 DEF SaysOf, IsReported
<1>9. "publish" \in Stages
    BY DEF Stages
<1> QED BY <1>1, <1>3, <1>6, <1>7, <1>8, <1>9, Moves

\* The map is put into the report, and printed.
LEMMA PublishStep ==
    ASSUME program = "h3sniff", PublishedInv, NEW c \in Conns, H3!Publish(c)
    PROVE  PublishedInv'
<1>1. /\ pc[c] = "publish" /\ pc' = [pc EXCEPT ![c] = "marshal"]
      /\ UNCHANGED <<addr, renames, arrived, control, settings, report>>
    BY DEF H3!Publish, H3!Go, H3!Quiet, H3!clientVars
<1>2. IsReported(c)
    BY DEF PublishedInv
<1>3. H3!Whole(c) /\ SaysOf(c, "marshal", report[c])
    BY <1>1, <1>2 DEF IsReported, SaysOf
<1>4. "marshal" \in Stages
    BY DEF Stages
<1> QED BY <1>1, <1>3, <1>4, MovesOn

LEMMA MarshalStep ==
    ASSUME program = "h3sniff", PublishedInv, NEW c \in Conns, H3!Marshal(c)
    PROVE  PublishedInv'
<1> DEFINE x == settings[c]
<1>1. /\ pc[c] = "marshal" /\ pc' = [pc EXCEPT ![c] = "reported"]
      /\ report' = [report EXCEPT ![c].settings = x]
      /\ UNCHANGED <<addr, renames, arrived, control, settings>>
    BY Zenon DEF H3!Marshal, H3!Go, H3!Quiet, H3!clientVars
<1>2. IsReported(c)
    BY DEF PublishedInv
<1>3. /\ H3!Whole(c) /\ x \subseteq H3!Settings(c)
      /\ ~report[c].late => x = H3!Settings(c)
      /\ ~renames[c] /\ Alone(c) => report[c].hello = H3!Hello(c)
    BY <1>1, <1>2 DEF IsReported, SaysOf
<1>4. x \in SUBSET (Nat \X Nat)
    BY DEF PublishedInv, ReportTyped
<1> HIDE DEF x
<1>5. PICK T : report \in [Conns -> ReportsOf(T)]
    BY DEF PublishedInv, ReportTyped
<1> DEFINE r == [report[c] EXCEPT !.settings = x]
<1>6. /\ r \in ReportsOf(T) /\ r.hello = report[c].hello
      /\ r.settings = x /\ r.late = report[c].late
    BY <1>4, <1>5 DEF ReportsOf
<1>7. report' = [report EXCEPT ![c] = r]
    BY <1>1
<1> HIDE DEF r
<1>8. SaysOf(c, "reported", r)
    BY <1>3, <1>6 DEF SaysOf
<1>9. "reported" \in Stages
    BY DEF Stages
<1> QED BY <1>1, <1>3, <1>6, <1>7, <1>8, <1>9, Moves

\* A pair goes into the map: it is the client's own.
LEMMA StoreStep ==
    ASSUME StandsAssumption, program = "h3sniff", PublishedInv, NEW c \in Conns,
           NEW pair \in H3!ToSet(H3!Parsed(c).pairs), H3!Store(c, pair)
    PROVE  PublishedInv'
<1>1. /\ settings' = [settings EXCEPT ![c] = @ \cup {pair}]
      /\ UNCHANGED <<addr, renames, arrived, control, pc, report>>
    BY DEF H3!Store, H3!clientVars
<1>2. ReportTyped /\ \A e \in Conns : IsReported(e)
    BY DEF PublishedInv
<1>3. pair \in H3!Settings(c) /\ pair \in Nat \X Nat
  <2>1. c \in Nat /\ control[c] \in H3!Reads \cup {0}
    BY <1>2, StandsAssumption DEF ReportTyped
  <2>2. H3!Parsed(c) = H3!H3Settings(Prefix(c, control[c]))
    BY Zenon DEF H3!Parsed, Prefix
  <2> QED BY <2>1, <2>2, PairsRead, SettingsAre
<1>4. settings \in [Conns -> SUBSET (Nat \X Nat)]
    BY <1>2 DEF ReportTyped
<1>5. /\ settings' \in [Conns -> SUBSET (Nat \X Nat)]
      /\ settings'[c] = settings[c] \cup {pair}
      /\ \A e \in Conns : e # c => settings'[e] = settings[e]
    BY <1>1, <1>3, <1>4
<1>6. ReportTyped'
    BY <1>1, <1>2, <1>5, Zenon DEF ReportTyped
<1>7. ASSUME NEW e \in Conns PROVE IsReported(e)'
  <2>1. /\ settings[e] \subseteq settings'[e]
        /\ settings[e] \subseteq H3!Settings(e) => settings'[e] \subseteq H3!Settings(e)
    BY <1>3, <1>5
  <2>2. H3!Whole(e)' = H3!Whole(e) /\ Alone(e)' = Alone(e) /\ renames'[e] = renames[e]
    BY <1>1 DEF H3!Whole, Alone
  <2>3. IsReported(e)
    BY <1>2
  <2>4. pc'[e] = pc[e] /\ report'[e] = report[e]
    BY <1>1
  <2> QED BY <2>1, <2>2, <2>3, <2>4 DEF IsReported, SaysOf
<1> QED BY <1>6, <1>7 DEF PublishedInv

\* The program ends.
LEMMA DiesStep ==
    ASSUME program = "h3sniff", PublishedInv, NEW c \in Conns, H3!Dies(c)
    PROVE  PublishedInv'
<1>1. /\ pc' = [d \in Conns |-> "dead"]
      /\ UNCHANGED <<addr, renames, arrived, control, settings, report>>
    BY DEF H3!Dies
<1>2. ReportTyped /\ \A e \in Conns : IsReported(e)
    BY DEF PublishedInv
<1>3. pc' \in [Conns -> Stages]
    BY <1>1 DEF Stages
<1>4. ReportTyped'
    BY <1>1, <1>2, <1>3, Zenon DEF ReportTyped
<1>5. ASSUME NEW e \in Conns PROVE IsReported(e)'
  <2>1. pc'[e] = "dead"
    BY <1>1
  <2> QED BY <1>1, <1>2, <2>1 DEF IsReported, SaysOf
<1> QED BY <1>4, <1>5 DEF PublishedInv

LEMMA PublishedNext ==
    ASSUME StandsAssumption, HellosInv, PublishedInv, [StandsNext]_standsVars
    PROVE  PublishedInv'
<1>1. ASSUME program' = program, UNCHANGED <<addr, renames, pc, control, settings, report>>,
             \A c \in Conns : H3!Whole(c) => H3!Whole(c)'
      PROVE  PublishedInv'
    BY <1>1 DEF PublishedInv, ReportTyped, IsReported, SaysOf, Alone
<1>2. CASE UNCHANGED standsVars
    BY <1>1, <1>2 DEF standsVars, h3Only, H3!Whole
<1>3. CASE FpdNext
    BY <1>3 DEF FpdNext, PublishedInv
<1>4. CASE HelloNext
    BY <1>4 DEF HelloNext, PublishedInv
<1>5. CASE H3Next
  <2>1. program = "h3sniff" /\ program' = program /\ H3!Next
    BY <1>5 DEF H3Next
  <2>2. PICK c \in Conns :
          \/ \E n \in {1, 2} : H3!ReadFrom(c, n)
          \/ H3!AcceptConn(c) \/ H3!Ask(c) \/ H3!ClientCloses(c)
          \/ \E n \in H3!Reads : H3!ReadControl(c, n)
          \/ \E pair \in H3!ToSet(H3!Parsed(c).pairs) : H3!Store(c, pair)
          \/ H3!Answer(c) \/ H3!CloseByStand(c)
          \/ H3!OpenControl(c) \/ H3!First(c) \/ H3!Grace(c) \/ H3!AwaitSettings(c)
          \/ H3!Report(c) \/ H3!Publish(c) \/ H3!Marshal(c) \/ H3!Dies(c) \/ H3!Return(c)
    BY <2>1, Zenon DEF H3!Next
  <2>3. ReportTyped /\ \A e \in Conns : IsReported(e)
    BY <2>1 DEF PublishedInv
  <2>4. ASSUME NEW from \in Stages \ {"none", "dead"},
               NEW to \in Stages \ {"report", "publish", "marshal", "reported"},
               H3!Go(c, from, to), UNCHANGED <<addr, renames, arrived, control, settings, report>>
        PROVE  PublishedInv'
    <3>1. pc[c] = from /\ pc' = [pc EXCEPT ![c] = to]
      BY <2>4 DEF H3!Go
    <3>2. H3!Whole(c) /\ SaysOf(c, to, report[c])
      BY <2>3, <2>4, <3>1 DEF IsReported, SaysOf
    <3> QED BY <2>1, <2>4, <3>1, <3>2, MovesOn
  <2>5. ASSUME NEW n \in {1, 2}, H3!ReadFrom(c, n) PROVE PublishedInv'
    <3>1. /\ UNCHANGED <<addr, renames, pc, control, settings, report>>
          /\ arrived' = [arrived EXCEPT ![<<c, n>>] = @ + 1]
      BY <2>5 DEF H3!ReadFrom, H3!handleVars
    <3>2. \A e \in Conns : H3!Whole(e) => H3!Whole(e)'
      <4>1. arrived \in [Conns \X {1, 2} -> Nat]
        BY <2>1 DEF HellosInv, H3Typed
      <4>2. \A e \in Conns, m \in {1, 2} : arrived[<<e, m>>] > 0 => arrived'[<<e, m>>] > 0
        BY <3>1, <4>1
      <4> QED BY <4>2, Zenon DEF H3!Whole
    <3> QED BY <1>1, <2>1, <3>1, <3>2
  <2>6. CASE H3!AcceptConn(c)
    <3>1. "control" \in Stages
      BY DEF Stages
    <3>2. H3!Whole(c) /\ pc' = [pc EXCEPT ![c] = "control"]
          /\ UNCHANGED <<addr, renames, arrived, control, settings, report>>
      BY <2>6 DEF H3!AcceptConn
    <3>3. SaysOf(c, "control", report[c])
      BY <2>3 DEF IsReported, SaysOf
    <3> QED BY <2>1, <3>1, <3>2, <3>3, MovesOn
  <2>7. CASE H3!Ask(c)
    BY <1>1, <2>1, <2>7 DEF H3!Ask, H3!clientVars, H3!Whole
  <2>8. CASE H3!ClientCloses(c)
    BY <1>1, <2>1, <2>8 DEF H3!ClientCloses, H3!handleVars, H3!Whole
  <2>9. ASSUME NEW n \in H3!Reads, H3!ReadControl(c, n) PROVE PublishedInv'
    <3>1. /\ control' = [control EXCEPT ![c] = n]
          /\ UNCHANGED <<addr, renames, arrived, pc, settings, report>>
      BY <2>9 DEF H3!ReadControl, H3!clientVars
    <3>2. control' \in [Conns -> H3!Reads \cup {0}]
      BY <2>3, <3>1 DEF ReportTyped
    <3>3. ReportTyped'
      BY <2>3, <3>1, <3>2, Zenon DEF ReportTyped
    <3>4. \A e \in Conns : IsReported(e)'
      BY <2>3, <3>1, Zenon DEF IsReported, SaysOf, Alone, H3!Whole
    <3> QED BY <3>3, <3>4 DEF PublishedInv
  <2>10. CASE H3!Answer(c)
    BY <1>1, <2>1, <2>10 DEF H3!Answer, H3!clientVars, H3!Whole
  <2>11. CASE H3!CloseByStand(c)
    BY <1>1, <2>1, <2>11 DEF H3!CloseByStand, H3!Whole
  <2>12. CASE H3!OpenControl(c)
    BY <2>4, <2>12 DEF H3!OpenControl, H3!Quiet, H3!clientVars, Stages
  <2>13. CASE H3!First(c)
    BY <2>4, <2>13 DEF H3!First, H3!Quiet, H3!clientVars, Stages
  <2>14. CASE H3!Grace(c)
    BY <2>4, <2>14 DEF H3!Grace, H3!Quiet, H3!clientVars, Stages
  <2>15. CASE H3!AwaitSettings(c)
    BY <2>1, <2>15, AwaitStep
  <2>16. CASE H3!Report(c)
    BY <2>1, <2>16, ReportStep
  <2>17. CASE H3!Publish(c)
    BY <2>1, <2>17, PublishStep
  <2>18. CASE H3!Return(c)
    BY <2>4, <2>18 DEF H3!Return, H3!Quiet, H3!clientVars, Stages
  <2>19. ASSUME NEW pair \in H3!ToSet(H3!Parsed(c).pairs), H3!Store(c, pair) PROVE PublishedInv'
    BY <2>1, <2>19, StoreStep
  <2>20. CASE H3!Marshal(c)
    BY <2>1, <2>20, MarshalStep
  <2>21. CASE H3!Dies(c)
    BY <2>1, <2>21, DiesStep
  <2> QED BY <2>2, <2>5, <2>6, <2>7, <2>8, <2>9, <2>10, <2>11, <2>12, <2>13, <2>14, <2>15,
             <2>16, <2>17, <2>18, <2>19, <2>20, <2>21
<1> QED BY <1>2, <1>3, <1>4, <1>5 DEF StandsNext

\* What h3sniff reports of a client with a socket of its own is that client's
\* hello, although the list of the address is read when the report is made,
\* seconds after the hello was listed; no pair in a report is another client's,
\* and none is missing unless the log says that they did not come in time,
\* wherever a read of the control stream ends and although the map is printed
\* without its lock (main.go:195-209, 260-278, 518-596).
THEOREM OwnReport == StandsSpec => []ReportIsItsOwn
<1>1. PublishedInv => ReportIsItsOwn
  <2> SUFFICES ASSUME PublishedInv, program = "h3sniff", NEW c \in Conns, pc[c] = "reported"
               PROVE  /\ report[c].settings \subseteq H3!Settings(c)
                      /\ report[c].late \/ report[c].settings = H3!Settings(c)
                      /\ ~renames[c] /\ Alone(c) => report[c].hello = H3!Hello(c)
    BY Zenon DEF ReportIsItsOwn, H3!ReportIsItsOwn, H3!Published, Alone
  <2>1. SaysOf(c, "reported", report[c])
    BY DEF PublishedInv, IsReported
  <2> QED BY <2>1 DEF SaysOf
<1> QED BY <1>1, HellosInit, HellosNext, PublishedInit, PublishedNext, StandsAssumption, PTL DEF StandsSpec

------------------------------------------------------------------------------
(* fpd among the programs.                                                  *)

\* While fpd runs, what is proved of it; otherwise its table is empty.
FpdInv ==
    IF program = "fpd" THEN FrontInv /\ SniffInv /\ ReportInv
    ELSE /\ DOMAIN meta = {} /\ recent = <<>>
         /\ program \in {"h3sniff", "hello"}
         /\ program = "hello" => pc = [c \in Conns |-> "none"]

LEMMA FpdInvInit == StandsInit => FpdInv
<1>1. CASE program = "fpd" /\ Init
    BY <1>1, FrontInit, SniffInit, ReportInit DEF FpdInv
<1>2. CASE program \in {"h3sniff", "hello"} /\ FpdIdle /\ (program = "hello" => pc = [c \in Conns |-> "none"])
    BY <1>2 DEF FpdInv, FpdIdle
<1> QED BY <1>1, <1>2 DEF StandsInit

LEMMA FpdInvStep == FpdInv /\ [StandsNext]_standsVars => FpdInv'
<1> SUFFICES ASSUME FpdInv, [StandsNext]_standsVars PROVE FpdInv'
    OBVIOUS
<1>1. program' = program
    BY DEF StandsNext, FpdNext, H3Next, HelloNext, standsVars
<1>2. CASE program = "fpd"
  <2>1. [Next]_vars
    BY <1>2 DEF StandsNext, FpdNext, H3Next, HelloNext, standsVars, fpdOnly, vars, connVars
  <2> QED BY <1>1, <1>2, <2>1, FrontNext, SniffNext, ReportNext DEF FpdInv
<1>3. CASE program # "fpd"
  <2>1. UNCHANGED <<meta, recent>> /\ (program = "hello" => pc' = pc)
    BY <1>3 DEF StandsNext, FpdNext, H3Next, HelloNext, standsVars, fpdOnly, reportVars
  <2> QED BY <1>1, <1>3, <2>1 DEF FpdInv
<1> QED BY <1>2, <1>3

\* fpd lists a connection exactly while its server has it (main.go:136-177).
THEOREM TableIsExact == StandsSpec => []NoMetaLeft
<1>1. FpdInv /\ PublishedInv => NoMetaLeft
  <2>1. CASE program = "fpd"
    BY <2>1 DEF FpdInv, FrontInv
  <2>2. ASSUME FpdInv, PublishedInv, program # "fpd", NEW c \in Conns
        PROVE  pc[c] \notin {"queued", "accepted", "serving", "up"}
    <3>1. program = "h3sniff" => pc \in [Conns -> Stages]
      BY <2>2 DEF PublishedInv, ReportTyped
    <3> QED BY <2>2, <3>1 DEF FpdInv, Stages
  <2> QED BY <2>1, <2>2 DEF FpdInv, NoMetaLeft
<1> QED BY <1>1, FpdInvInit, FpdInvStep, HellosInit, HellosNext, PublishedInit, PublishedNext,
           StandsAssumption, PTL DEF StandsSpec

\* What a report says comes from the client it names, whoever else connects,
\* reports or is sniffed meanwhile: fpd's build reads an entry of the sniffer
\* after it let the lock go, and the table's entry through a context.
THEOREM ReportIsHonest == StandsSpec => []ReportIsOfItsClient
<1>1. FpdInv => ReportIsOfItsClient
  <2>1. CASE program = "fpd"
    BY <2>1, ReportSafe DEF FpdInv
  <2>2. CASE program # "fpd"
    BY <2>2 DEF FpdInv, ReportIsOfItsClient
  <2> QED BY <2>1, <2>2
<1> QED BY <1>1, FpdInvInit, FpdInvStep, PTL DEF StandsSpec

------------------------------------------------------------------------------
(* What h3sniff lists, and what it counts.                                  *)

LEMMA MinOfOne == \A n \in Nat : H3!Min({n}) = n
<1> TAKE n \in Nat
<1>1. {n} \in SUBSET Nat /\ {n} # {}
  OBVIOUS
<1>2. H3!Min({n}) \in {n}
  BY <1>1, SameEdges, MinIs
<1> QED BY <1>2

LEMMA MessageIs ==
    ASSUME NEW frames
    PROVE  LET read == ByteAt(frames, 2) * 65536 + ByteAt(frames, 3) * 256 + ByteAt(frames, 4)
           IN H3!ClientHelloMessage(frames) =
                IF Reach(frames) < 4 \/ Reach(frames) < 4 + read THEN H3!NoHello
                ELSE [i \in 1..4 + read |-> ByteAt(frames, i)]
BY DEF H3!ClientHelloMessage, ByteAt, Over, Reach

LEMMA ReachOf ==
    ASSUME NEW frames, NEW n \in Nat, NEW o \in DOMAIN frames, o \in Nat, Len(frames[o]) \in Nat,
           n = o + Len(frames[o]),
           \A p \in DOMAIN frames : p + Len(frames[p]) \in 0..n
    PROVE  Reach(frames) = n
<1> DEFINE ends == {0} \cup {p + Len(frames[p]) : p \in DOMAIN frames}
<1>1. ends \in SUBSET (0..n) /\ ends # {} /\ n \in ends
  OBVIOUS
<1> HIDE DEF ends
<1>2. H3!Max(ends) \in ends /\ \A e \in ends : e <= H3!Max(ends)
  BY <1>1, SameEdges, MaxIs
<1> DEFINE m == H3!Max(ends)
<1>3. m \in 0..n /\ n <= m
  BY <1>1, <1>2
<1> HIDE DEF m
<1>4. m = n
  BY <1>3
<1> QED BY <1>4, Zenon DEF m, ends, Reach

\* Without the middle, a hello with a zero there; the middle alone begins with one.
LEMMA HoleMessage ==
    ASSUME NEW c \in Nat
    PROVE  H3!ClientHelloMessage(Parts(c, {0, 5})) = WithHole(c)
<1> DEFINE frames == Parts(c, {0, 5})
<1>1. DOMAIN frames = {0, 5} /\ frames[0] = <<1, 0, 0, 2>> /\ frames[5] = <<c>>
  BY DEF Parts, PartOf
<1> HIDE DEF frames
<1>2. Len(frames[0]) = 4 /\ Len(frames[5]) = 1
  BY <1>1
<1>3. ASSUME NEW i \in 1..4 PROVE Over(frames, i) = {0}
  <2>1. 0 < i /\ i <= 0 + Len(frames[0]) /\ ~(5 < i)
    BY <1>2
  <2>2. 0 \in Over(frames, i)
    BY <1>1, <2>1, Zenon DEF Over
  <2>3. \A o \in Over(frames, i) : o = 0
    BY <1>1, <2>1, Zenon DEF Over
  <2> QED BY <2>2, <2>3
<1>4. Over(frames, 5) = {} /\ Over(frames, 6) = {5}
  <2>1. /\ ~(5 <= 0 + Len(frames[0])) /\ ~(6 <= 0 + Len(frames[0]))
        /\ ~(5 < 5) /\ 5 < 6 /\ 6 <= 5 + Len(frames[5])
    BY <1>2
  <2>2. 5 \in Over(frames, 6) /\ \A o \in Over(frames, 6) : o = 5
    BY <1>1, <2>1, Zenon DEF Over
  <2>3. \A o \in Over(frames, 5) : FALSE
    BY <1>1, <2>1, Zenon DEF Over
  <2> QED BY <2>2, <2>3
<1>5. \A i \in 1..4 : ByteAt(frames, i) = frames[0][i - 0]
  BY <1>3, MinOfOne DEF ByteAt
<1>6. ByteAt(frames, 1) = 1 /\ ByteAt(frames, 2) = 0 /\ ByteAt(frames, 3) = 0 /\ ByteAt(frames, 4) = 2
  BY <1>1, <1>5
<1>7. ByteAt(frames, 5) = 0
  BY <1>4 DEF ByteAt
<1>8. ByteAt(frames, 6) = c
  <2>1. ByteAt(frames, 6) = frames[5][6 - 5]
    BY <1>4, MinOfOne DEF ByteAt
  <2> QED BY <1>1, <2>1
<1>9. Reach(frames) = 6
  <2>1. 5 \in DOMAIN frames /\ 5 \in Nat /\ Len(frames[5]) \in Nat /\ 6 = 5 + Len(frames[5])
    BY <1>1, <1>2
  <2>2. \A p \in DOMAIN frames : p + Len(frames[p]) \in 0..6
    <3>1. 0 + Len(frames[0]) \in 0..6 /\ 5 + Len(frames[5]) \in 0..6
      BY <1>2
    <3> QED BY <1>1, <3>1, Zenon
  <2> QED BY <2>1, <2>2, ReachOf
<1>10. H3!ClientHelloMessage(frames) = [i \in 1..6 |-> ByteAt(frames, i)]
  <2> DEFINE read == ByteAt(frames, 2) * 65536 + ByteAt(frames, 3) * 256 + ByteAt(frames, 4)
  <2>1. read = 2
    BY <1>6
  <2>2. H3!ClientHelloMessage(frames) =
          IF Reach(frames) < 4 \/ Reach(frames) < 4 + read THEN H3!NoHello
          ELSE [i \in 1..4 + read |-> ByteAt(frames, i)]
    BY MessageIs
  <2> HIDE DEF read
  <2> QED BY <1>9, <2>1, <2>2
<1>11. [i \in 1..6 |-> ByteAt(frames, i)] = <<1, 0, 0, 2, 0, c>>
  BY <1>6, <1>7, <1>8
<1> QED BY <1>10, <1>11 DEF frames, WithHole

LEMMA MiddleMessage ==
    ASSUME NEW c \in Nat
    PROVE  H3!ClientHelloMessage(Parts(c, {4})) # H3!NoHello
           /\ H3!ClientHelloMessage(Parts(c, {4}))[1] = 0
<1> DEFINE frames == Parts(c, {4})
<1>1. DOMAIN frames = {4} /\ frames[4] = <<c>>
  BY DEF Parts, PartOf
<1> HIDE DEF frames
<1>2. Len(frames[4]) = 1
  BY <1>1
<1>3. \A i \in 1..4 : Over(frames, i) = {}
  BY <1>1, <1>2 DEF Over
<1>4. \A i \in 1..4 : ByteAt(frames, i) = 0
  BY <1>3 DEF ByteAt
<1>5. Reach(frames) = 5
  <2>1. 4 \in DOMAIN frames /\ 4 \in Nat /\ Len(frames[4]) \in Nat /\ 5 = 4 + Len(frames[4])
    BY <1>1, <1>2
  <2>2. \A p \in DOMAIN frames : p + Len(frames[p]) \in 0..5
    <3>1. 4 + Len(frames[4]) \in 0..5
      BY <1>2
    <3> QED BY <1>1, <3>1, Zenon
  <2> QED BY <2>1, <2>2, ReachOf
<1>6. H3!ClientHelloMessage(frames) = [i \in 1..4 |-> ByteAt(frames, i)]
  <2> DEFINE read == ByteAt(frames, 2) * 65536 + ByteAt(frames, 3) * 256 + ByteAt(frames, 4)
  <2>1. read = 0
    BY <1>4
  <2>2. H3!ClientHelloMessage(frames) =
          IF Reach(frames) < 4 \/ Reach(frames) < 4 + read THEN H3!NoHello
          ELSE [i \in 1..4 + read |-> ByteAt(frames, i)]
    BY MessageIs
  <2> HIDE DEF read
  <2> QED BY <1>5, <2>1, <2>2
<1>7. [i \in 1..4 |-> ByteAt(frames, i)][1] = 0 /\ DOMAIN [i \in 1..4 |-> ByteAt(frames, i)] = 1..4
  BY <1>4
<1>8. DOMAIN <<>> # 1..4
  OBVIOUS
<1> QED BY <1>6, <1>7, <1>8, Zenon DEF frames, H3!NoHello

\* What a connection has gathered of the hello of c, and the hello there is in it.
Collections(c) == {Parts(c, {0, 5}), Parts(c, {4}), Parts(c, {0, 4, 5})}

LEMMA MessageOf ==
    ASSUME NEW c \in Nat, NEW crypto \in Collections(c), NEW msg, msg = H3!ClientHelloMessage(crypto)
    PROVE  msg # H3!NoHello /\ (msg[1] = 1 => msg \in {H3!Hello(c), WithHole(c)})
<1>1. CASE crypto = Parts(c, {0, 5})
  <2>1. msg = WithHole(c)
    BY <1>1, HoleMessage
  <2>2. WithHole(c) # H3!NoHello
    BY DEF WithHole, H3!NoHello
  <2> QED BY <2>1, <2>2
<1>2. CASE crypto = Parts(c, {4})
  <2>1. msg # H3!NoHello /\ msg[1] = 0
    BY <1>2, MiddleMessage
  <2> QED BY <2>1
<1>3. CASE crypto = Parts(c, {0, 4, 5})
  <2>1. msg = H3!Hello(c)
    BY <1>3, AllParts
  <2> QED BY <2>1, HelloIs
<1> QED BY <1>1, <1>2, <1>3, Zenon DEF Collections

\* A table's connection is that of a client behind its address, and has gathered
\* what that client sent; under the second name of one it has gathered nothing.
IsOf(c, k) ==
    \/ k = <<addr[c], <<c>>>> /\ conns[k].keyDCID = <<c>> /\ conns[k].crypto \in Collections(c)
    \/ k = <<addr[c], <<c, 0>>>> /\ conns[k].keyDCID = <<c, 0>>
ConnsInv ==
    \A k \in DOMAIN conns :
        /\ DOMAIN conns[k] = DOMAIN H3!NewConnection
        /\ \E c \in Conns : IsOf(c, k)
SentInv == program = "h3sniff" => ConnsInv /\ ListedIsSent

LEMMA FirstIs ==
    ASSUME NEW c \in Nat, NEW n \in {1, 2}, H3!Datagram(c, n).dcid = <<c>>
    PROVE  H3!Datagram(c, n) = [dcid |-> <<c>>, keys |-> <<c>>, payload |-> Payload(c, n)]
<1>1. H3!Datagram(c, n) =
        [dcid |-> IF n = 2 /\ renames[c] THEN <<c, 0>> ELSE <<c>>, keys |-> <<c>>,
         payload |-> Payload(c, n)]
  BY Zenon DEF H3!Datagram, Payload
<1>2. <<c>> # <<c, 0>>
  <2>1. Len(<<c>>) = 1 /\ Len(<<c, 0>>) = 2
    OBVIOUS
  <2> QED BY <2>1
<1>3. H3!Datagram(c, n).dcid = IF n = 2 /\ renames[c] THEN <<c, 0>> ELSE <<c>>
  BY <1>1
<1> QED BY <1>1, <1>2, <1>3, Zenon

\* A datagram under the name its client keeps to opens, and the hello put together
\* of what has come is that client's.
LEMMA NamedArrives ==
    ASSUME NEW c \in Nat, NEW n \in {1, 2}, NEW before,
           before.keyDCID \in {<<>>, <<c>>}, before.crypto \in Collections(c) \cup {Parts(c, {})},
           NEW d, d = [dcid |-> <<c>>, keys |-> <<c>>, payload |-> Payload(c, n)],
           NEW conn, conn = H3!AddInitial(before, d)
    PROVE  /\ conn.keyDCID = <<c>> /\ conn.crypto \in Collections(c)
           /\ DOMAIN conn = DOMAIN H3!NewConnection
           /\ conn.hello # H3!NoHello /\ conn.hello[1] = 1 => conn.hello \in {H3!Hello(c), WithHole(c)}
<1>1. PICK S \in {{}, {0, 5}, {4}, {0, 4, 5}} : before.crypto = Parts(c, S)
  BY DEF Collections
<1>2. H3!Opens(before, d) /\ conn.keyDCID = <<c>> /\ conn.crypto = Parts(c, S \cup Offsets(n))
  <2>1. IsNext(c, n, S, before, d)
    BY <1>1, Zenon DEF IsNext
  <2>2. IsAdded(c, n, S, before, d)
    BY <2>1, Adds, Zenon
  <2> QED BY <2>2, Zenon DEF IsAdded
<1>3. S \cup Offsets(n) \in {{0, 5}, {4}, {0, 4, 5}}
  BY DEF Offsets
<1>4. conn.crypto \in Collections(c)
  BY <1>2, <1>3, Zenon DEF Collections
<1>5. PICK keys, crypto : conn = H3!Gathered(before, keys, crypto)
  BY <1>2, Zenon DEF H3!AddInitial
<1>6. /\ DOMAIN conn = DOMAIN H3!NewConnection
      /\ conn.crypto = crypto
      /\ conn.hello = IF H3!ClientHelloMessage(crypto) = H3!NoHello THEN before.hello
                      ELSE H3!ClientHelloMessage(crypto)
  BY <1>5 DEF H3!Gathered, H3!NewConnection
<1>7. H3!ClientHelloMessage(crypto) # H3!NoHello
      /\ (H3!ClientHelloMessage(crypto)[1] = 1
            => H3!ClientHelloMessage(crypto) \in {H3!Hello(c), WithHole(c)})
  BY <1>4, <1>6, MessageOf, Zenon
<1> QED BY <1>2, <1>4, <1>6, <1>7, Zenon

\* Under another name the keys are wrong, and nothing opens.
LEMMA RenamedArrives ==
    ASSUME NEW c \in Nat, NEW n \in {1, 2}, NEW before,
           before.keyDCID \in {<<>>, <<c, 0>>}, DOMAIN before = DOMAIN H3!NewConnection,
           NEW d, d.dcid = <<c, 0>>, d.keys = <<c>>,
           NEW conn, conn = H3!AddInitial(before, d)
    PROVE  /\ ~H3!Opens(before, d)
           /\ conn.keyDCID = <<c, 0>> /\ DOMAIN conn = DOMAIN H3!NewConnection
<1>1. <<c>> # <<c, 0>>
  <2>1. Len(<<c>>) = 1 /\ Len(<<c, 0>>) = 2
    OBVIOUS
  <2> QED BY <2>1
<1>2. H3!Keys(before, d) = <<c, 0>>
  BY DEF H3!Keys
<1>3. ~H3!Opens(before, d)
  BY <1>1, <1>2, Zenon DEF H3!Opens, H3!InitialPayload
<1>4. conn = [before EXCEPT !.keyDCID = <<c, 0>>]
  BY <1>2, <1>3, Zenon DEF H3!AddInitial
<1>5. "keyDCID" \in DOMAIN before
  BY DEF H3!NewConnection
<1> QED BY <1>3, <1>4, <1>5

LEMMA DatagramNames ==
    ASSUME NEW c, NEW n \in {1, 2}
    PROVE  H3!Datagram(c, n).dcid \in {<<c>>, <<c, 0>>} /\ H3!Datagram(c, n).keys = <<c>>
<1>1. H3!Datagram(c, n) =
        [dcid |-> IF n = 2 /\ renames[c] THEN <<c, 0>> ELSE <<c>>, keys |-> <<c>>,
         payload |-> Payload(c, n)]
  BY Zenon DEF H3!Datagram, Payload
<1> QED BY <1>1

\* The connection a datagram meets is its client's, or a new one.
LEMMA MeetsItsOwn ==
    ASSUME StandsAssumption, NEW e \in Conns, ConnsInv, NEW s \in {<<e>>, <<e, 0>>},
           NEW before, before = IF <<addr[e], s>> \in DOMAIN conns THEN conns[<<addr[e], s>>]
                                ELSE H3!NewConnection
    PROVE  /\ DOMAIN before = DOMAIN H3!NewConnection /\ before.keyDCID \in {<<>>, s}
           /\ s = <<e>> => before.crypto \in Collections(e) \cup {Parts(e, {})}
<1> DEFINE k == <<addr[e], s>>
<1>1. CASE k \notin DOMAIN conns
  <2>1. before = H3!NewConnection
    BY <1>1
  <2>2. H3!NewConnection.keyDCID = <<>> /\ H3!NewConnection.crypto = Parts(e, {})
    BY DEF H3!NewConnection, Parts
  <2> QED BY <2>1, <2>2, Zenon
<1>2. CASE k \in DOMAIN conns
  <2>1. PICK c \in Conns : IsOf(c, k)
    BY <1>2, Zenon DEF ConnsInv
  <2>2. c \in Nat /\ e \in Nat
    BY DEF StandsAssumption
  <2>3. <<c, 0>> # <<e>> /\ <<c>> # <<e, 0>> /\ (<<c>> = <<e>> => c = e) /\ <<e>> # <<e, 0>>
    <3>1. Len(<<c>>) = 1 /\ Len(<<e>>) = 1 /\ Len(<<c, 0>>) = 2 /\ Len(<<e, 0>>) = 2
      OBVIOUS
    <3>2. <<c>>[1] = c /\ <<e>>[1] = e
      OBVIOUS
    <3> QED BY <3>1, <3>2, Zenon
  <2>4. before = conns[k]
    BY <1>2
  <2>5. \/ s = <<c>> /\ conns[k].keyDCID = <<c>> /\ conns[k].crypto \in Collections(c)
        \/ s = <<c, 0>> /\ conns[k].keyDCID = <<c, 0>>
    BY <2>1 DEF IsOf
  <2>6. before.keyDCID = s /\ (s = <<e>> => before.crypto \in Collections(e))
    BY <2>3, <2>4, <2>5, Zenon
  <2>7. DOMAIN before = DOMAIN H3!NewConnection
    BY <1>2, <2>4, Zenon DEF ConnsInv
  <2> QED BY <2>6, <2>7
<1> QED BY <1>1, <1>2

LEMMA ArriveSends ==
    ASSUME StandsAssumption, program = "h3sniff", NEW e \in Conns, NEW n \in {1, 2},
           HellosInv, SentInv, H3!ReadFrom(e, n)
    PROVE  ConnsInv' /\ ListedIsSent'
<1> DEFINE d == H3!Datagram(e, n)
           key == <<addr[e], d.dcid>>
           before == IF key \in DOMAIN conns THEN conns[key] ELSE H3!NewConnection
           conn == H3!AddInitial(before, d)
<1>1. H3!observe(e, n) /\ UNCHANGED addr
  BY DEF H3!ReadFrom
<1>2. /\ DOMAIN conns' = DOMAIN conns \cup {key} /\ conns'[key] = conn
      /\ \A k \in DOMAIN conns : k # key => conns'[k] = conns[k]
  BY <1>1, Observed, Zenon
<1>3. \/ /\ H3!Opens(before, d) /\ conn.hello # H3!NoHello /\ conn.hello[1] = 1
         /\ hellos' = [hellos EXCEPT ![addr[e]] = Append(@, conn.hello)]
      \/ UNCHANGED hellos
  BY <1>1, Zenon DEF H3!observe, H3!DestinationConnectionID
<1>4. d.dcid \in {<<e>>, <<e, 0>>} /\ d.keys = <<e>>
  BY DatagramNames
<1>5. e \in Nat /\ ConnsInv /\ ListedIsSent
  BY DEF StandsAssumption, SentInv
<1>6. /\ DOMAIN before = DOMAIN H3!NewConnection /\ before.keyDCID \in {<<>>, d.dcid}
      /\ d.dcid = <<e>> => before.crypto \in Collections(e) \cup {Parts(e, {})}
  BY <1>4, <1>5, MeetsItsOwn
<1>7. /\ DOMAIN conn = DOMAIN H3!NewConnection
      /\ conn.keyDCID = d.dcid
      /\ d.dcid = <<e>> => conn.crypto \in Collections(e)
      /\ H3!Opens(before, d) /\ conn.hello # H3!NoHello /\ conn.hello[1] = 1
           => conn.hello \in {H3!Hello(e), WithHole(e)}
  <2>1. CASE d.dcid = <<e>>
    <3>1. d = [dcid |-> <<e>>, keys |-> <<e>>, payload |-> Payload(e, n)]
      BY <1>5, <2>1, FirstIs
    <3>2. before.keyDCID \in {<<>>, <<e>>} /\ before.crypto \in Collections(e) \cup {Parts(e, {})}
      BY <1>6, <2>1, Zenon
    <3>3. conn = H3!AddInitial(before, d)
      BY Zenon
    <3> HIDE DEF d, before, conn
    <3>4. /\ conn.keyDCID = <<e>> /\ conn.crypto \in Collections(e)
          /\ DOMAIN conn = DOMAIN H3!NewConnection
          /\ conn.hello # H3!NoHello /\ conn.hello[1] = 1 => conn.hello \in {H3!Hello(e), WithHole(e)}
      BY <1>5, <3>1, <3>2, <3>3, NamedArrives
    <3> QED BY <2>1, <3>4, Zenon
  <2>2. CASE d.dcid = <<e, 0>>
    <3>1. <<e>> # <<e, 0>>
      <4>1. Len(<<e>>) = 1 /\ Len(<<e, 0>>) = 2
        OBVIOUS
      <4> QED BY <4>1
    <3>2. before.keyDCID \in {<<>>, <<e, 0>>} /\ DOMAIN before = DOMAIN H3!NewConnection
      BY <1>6, <2>2, Zenon
    <3>3. conn = H3!AddInitial(before, d)
      BY Zenon
    <3> HIDE DEF d, before, conn
    <3>4. /\ ~H3!Opens(before, d)
          /\ conn.keyDCID = <<e, 0>> /\ DOMAIN conn = DOMAIN H3!NewConnection
      BY <1>4, <1>5, <2>2, <3>2, <3>3, RenamedArrives
    <3> QED BY <2>2, <3>1, <3>4, Zenon
  <2> QED BY <1>4, <2>1, <2>2
<1> HIDE DEF d, key, before, conn
<1>8. ConnsInv'
  <2> SUFFICES ASSUME NEW k \in DOMAIN conns'
               PROVE  /\ DOMAIN conns'[k] = DOMAIN H3!NewConnection
                      /\ \E c \in Conns : IsOf(c, k)'
    BY Zenon DEF ConnsInv, H3!NewConnection
  <2>1. CASE k = key
    <3>1. IsOf(e, k)'
      BY <1>1, <1>2, <1>4, <1>7, <2>1, Zenon DEF IsOf, key
    <3> QED BY <1>2, <1>7, <2>1, <3>1, Zenon
  <2>2. CASE k # key
    <3>1. k \in DOMAIN conns /\ conns'[k] = conns[k]
      BY <1>2, <2>2
    <3>2. PICK c \in Conns : IsOf(c, k)
      BY <1>5, <3>1, Zenon DEF ConnsInv
    <3>3. IsOf(c, k)'
      BY <1>1, <3>1, <3>2, Zenon DEF IsOf
    <3>4. DOMAIN conns[k] = DOMAIN H3!NewConnection
      BY <1>5, <3>1, Zenon DEF ConnsInv
    <3> QED BY <3>1, <3>3, <3>4, Zenon
  <2> QED BY <2>1, <2>2
<1>9. ListedIsSent'
  <2>1. CASE UNCHANGED hellos
    BY <1>1, <1>5, <2>1, Zenon DEF ListedIsSent
  <2>2. CASE /\ hellos' = [hellos EXCEPT ![addr[e]] = Append(@, conn.hello)]
             /\ conn.hello \in {H3!Hello(e), WithHole(e)}
    <3> SUFFICES ASSUME NEW a \in Addresses, NEW i \in DOMAIN hellos'[a]
                 PROVE  \E c \in Conns : addr[c] = a /\ hellos'[a][i] \in {H3!Hello(c), WithHole(c)}
      BY <1>1, Zenon DEF ListedIsSent
    <3>1. PICK S : hellos \in [Addresses -> Seq(S)]
      BY DEF HellosInv, H3Typed
    <3>2. hellos[a] \in Seq(S)
      BY <3>1
    <3>3. \A j \in DOMAIN hellos[a] :
            \E c \in Conns : addr[c] = a /\ hellos[a][j] \in {H3!Hello(c), WithHole(c)}
      BY <1>5, Zenon DEF ListedIsSent
    <3>4. CASE a # addr[e]
      <4>1. hellos'[a] = hellos[a]
        BY <2>2, <3>1, <3>4
      <4> QED BY <3>3, <4>1, Zenon
    <3>5. CASE a = addr[e]
      <4> DEFINE x == conn.hello
      <4>1. hellos'[a] = Append(hellos[a], x)
        BY <2>2, <3>1, <3>5
      <4>2. x \in {H3!Hello(e), WithHole(e)}
        BY <2>2
      <4> HIDE DEF x
      <4>3. \/ i \in DOMAIN hellos[a] /\ hellos'[a][i] = hellos[a][i]
            \/ hellos'[a][i] = x
        BY <3>2, <4>1
      <4> QED BY <3>3, <3>5, <4>2, <4>3, Zenon
    <3> QED BY <3>4, <3>5
  <2> QED BY <1>3, <1>7, <2>1, <2>2, Zenon
<1> QED BY <1>8, <1>9

\* Of h3sniff's counters: a request is answered once, and a close is armed by an
\* answer.
CountInv == program = "h3sniff" =>
    /\ closed \in Nat /\ open \in [Conns -> {"no", "yes", "over"}]
    /\ control \in [Conns -> 0..10]
    /\ asked \in [Conns -> 0..Asks] /\ headers \in [Conns -> BOOLEAN]
    /\ answered \in [Conns -> Nat] /\ timers \in [Conns -> Nat]
    /\ \A c \in Conns : answered[c] <= asked[c] /\ timers[c] <= answered[c]

LEMMA CountInit == StandsInit => CountInv
<1> SUFFICES ASSUME StandsInit, program = "h3sniff" PROVE CountInv
  BY DEF CountInv
<1>1. /\ closed = 0 /\ open = [c \in Conns |-> "no"] /\ control = [c \in Conns |-> 0]
      /\ asked = [c \in Conns |-> 0] /\ answered = [c \in Conns |-> 0]
      /\ headers = [c \in Conns |-> FALSE] /\ timers = [c \in Conns |-> 0]
  BY DEF StandsInit, H3!Init
<1>2. 0 \in 0..Asks /\ 0 \in 0..10
  BY StandsAssumption
<1>3. headers \in [Conns -> BOOLEAN]
  BY <1>1
<1>4. closed \in Nat /\ open \in [Conns -> {"no", "yes", "over"}]
  BY <1>1
<1>5. asked \in [Conns -> 0..Asks] /\ control \in [Conns -> 0..10]
  BY <1>1, <1>2
<1>6. /\ answered \in [Conns -> Nat] /\ timers \in [Conns -> Nat]
      /\ \A c \in Conns : answered[c] <= asked[c] /\ timers[c] <= answered[c]
  BY <1>1
<1> QED BY <1>3, <1>4, <1>5, <1>6, Zenon DEF CountInv

\* A request is answered, or a close goes off.
LEMMA AnswerCounts ==
    ASSUME StandsAssumption, CountInv, program = "h3sniff", NEW c \in Conns, H3!Answer(c)
    PROVE  CountInv'
<1>1. /\ answered[c] < asked[c] /\ answered' = [answered EXCEPT ![c] = @ + 1]
      /\ headers' = [headers EXCEPT ![c] = TRUE]
      /\ timers' = [timers EXCEPT ![c] = @ + (IF browserMode THEN 1 ELSE 0)]
      /\ UNCHANGED <<closed, open, control, asked>>
  BY DEF H3!Answer, H3!clientVars, H3!sniffVars
<1>2. PICK k \in {0, 1} : timers' = [timers EXCEPT ![c] = @ + k]
  BY <1>1, Zenon
<1>3. headers' \in [Conns -> BOOLEAN]
  BY <1>1 DEF CountInv
<1>4. asked \in [Conns -> 0..Asks] /\ answered \in [Conns -> Nat] /\ timers \in [Conns -> Nat]
      /\ \A e \in Conns : answered[e] <= asked[e] /\ timers[e] <= answered[e]
  BY DEF CountInv
<1>5. \A e \in Conns : asked[e] \in Nat /\ answered[e] \in Nat /\ timers[e] \in Nat
  BY <1>4, StandsAssumption
<1>6. answered' \in [Conns -> Nat] /\ timers' \in [Conns -> Nat]
  BY <1>1, <1>2, <1>5, <1>4
<1>7. ASSUME NEW e \in Conns PROVE answered'[e] <= asked[e] /\ timers'[e] <= answered'[e]
  BY <1>1, <1>2, <1>4, <1>5
<1> QED BY <1>1, <1>3, <1>6, <1>7, Zenon DEF CountInv

LEMMA CloseCounts ==
    ASSUME CountInv, program = "h3sniff", NEW c \in Conns, H3!CloseByStand(c)
    PROVE  CountInv'
<1>1. /\ timers[c] > 0 /\ timers' = [timers EXCEPT ![c] = @ - 1]
      /\ open' = [open EXCEPT ![c] = "over"] /\ closed' = closed + 1
      /\ UNCHANGED <<control, asked, answered, headers>>
  BY DEF H3!CloseByStand
<1>2. /\ answered \in [Conns -> Nat] /\ timers \in [Conns -> Nat] /\ closed \in Nat
      /\ open \in [Conns -> {"no", "yes", "over"}]
      /\ \A e \in Conns : timers[e] <= answered[e]
  BY DEF CountInv
<1>3. closed' \in Nat /\ open' \in [Conns -> {"no", "yes", "over"}]
  BY <1>1, <1>2
<1>4. timers' \in [Conns -> Nat]
  BY <1>1, <1>2
<1>5. \A e \in Conns : timers'[e] <= answered[e]
  BY <1>1, <1>2
<1> QED BY <1>1, <1>3, <1>4, <1>5, Zenon DEF CountInv

\* A step of h3sniff.
LEMMA SniffSteps ==
    ASSUME StandsAssumption, program = "h3sniff", program' = program,
           HellosInv, SentInv, CountInv, H3!Next
    PROVE  SentInv' /\ CountInv'
<1>1. ASSUME UNCHANGED <<addr, conns, hellos>> PROVE SentInv'
  BY <1>1 DEF SentInv, ConnsInv, IsOf, ListedIsSent
<1>2. ASSUME UNCHANGED <<closed, open, control, asked, answered, headers, timers>> PROVE CountInv'
  BY <1>2, Zenon DEF CountInv
<1>3. PICK c \in Conns :
        \/ \E n \in {1, 2} : H3!ReadFrom(c, n)
        \/ H3!AcceptConn(c) \/ H3!Ask(c) \/ H3!ClientCloses(c)
        \/ \E n \in H3!Reads : H3!ReadControl(c, n)
        \/ \E pair \in H3!ToSet(H3!Parsed(c).pairs) : H3!Store(c, pair)
        \/ H3!Answer(c) \/ H3!CloseByStand(c)
        \/ H3!OpenControl(c) \/ H3!First(c) \/ H3!Grace(c) \/ H3!AwaitSettings(c)
        \/ H3!Report(c) \/ H3!Publish(c) \/ H3!Marshal(c) \/ H3!Dies(c) \/ H3!Return(c)
  BY Zenon DEF H3!Next
<1>4. ASSUME NEW n \in {1, 2}, H3!ReadFrom(c, n) PROVE SentInv' /\ CountInv'
  <2>1. UNCHANGED <<closed, open, control, asked, answered, headers, timers>>
    BY <1>4 DEF H3!ReadFrom, H3!handleVars
  <2>2. ConnsInv' /\ ListedIsSent'
    BY <1>4, ArriveSends
  <2> QED BY <1>2, <2>1, <2>2 DEF SentInv
<1>5. ASSUME NEW to \in {"yes", "over"}, open' = [open EXCEPT ![c] = to],
             UNCHANGED <<closed, control, asked, answered, headers, timers>>
      PROVE  CountInv'
  <2>1. open' \in [Conns -> {"no", "yes", "over"}]
    BY <1>5 DEF CountInv
  <2> QED BY <1>5, <2>1, Zenon DEF CountInv
<1>6. CASE H3!AcceptConn(c)
  BY <1>1, <1>5, <1>6 DEF H3!AcceptConn, H3!sniffVars
<1>7. CASE H3!ClientCloses(c)
  BY <1>1, <1>5, <1>7 DEF H3!ClientCloses, H3!sniffVars, H3!handleVars
<1>8. CASE H3!Ask(c)
  <2>1. /\ asked[c] < Asks /\ asked' = [asked EXCEPT ![c] = @ + 1]
        /\ UNCHANGED <<closed, open, control, answered, headers, timers, addr, conns, hellos>>
    BY <1>8 DEF H3!Ask, H3!clientVars, H3!sniffVars
  <2>2. /\ asked \in [Conns -> 0..Asks] /\ answered \in [Conns -> Nat]
        /\ \A e \in Conns : answered[e] <= asked[e]
    BY DEF CountInv
  <2>3. asked' \in [Conns -> 0..Asks] /\ \A e \in Conns : answered[e] <= asked'[e]
    BY <2>1, <2>2, StandsAssumption
  <2>4. CountInv'
    BY <2>1, <2>3, Zenon DEF CountInv
  <2> QED BY <1>1, <2>1, <2>4
<1>9. ASSUME NEW n \in H3!Reads, H3!ReadControl(c, n) PROVE SentInv' /\ CountInv'
  <2>1. /\ control' = [control EXCEPT ![c] = n]
        /\ UNCHANGED <<closed, open, asked, answered, headers, timers, addr, conns, hellos>>
    BY <1>9 DEF H3!ReadControl, H3!clientVars, H3!sniffVars
  <2>2. n \in 0..10
    BY DEF H3!Reads
  <2>3. control' \in [Conns -> 0..10]
    <3>1. control \in [Conns -> 0..10]
      BY DEF CountInv
    <3> QED BY <2>1, <2>2, <3>1
  <2>4. CountInv'
    BY <2>1, <2>3, Zenon DEF CountInv
  <2> QED BY <1>1, <2>1, <2>4
<1>10. CASE H3!Answer(c)
  BY <1>1, <1>10, AnswerCounts DEF H3!Answer, H3!clientVars, H3!sniffVars
<1>11. CASE H3!CloseByStand(c)
  BY <1>1, <1>11, CloseCounts DEF H3!CloseByStand
<1>12. ASSUME H3!Quiet, headers' = headers \/ headers' = [headers EXCEPT ![c] = FALSE]
       PROVE  SentInv' /\ CountInv'
  <2>1. UNCHANGED <<addr, conns, hellos, closed, open, control, asked, answered, timers>>
    BY <1>12 DEF H3!Quiet, H3!clientVars, H3!sniffVars
  <2>2. headers' \in [Conns -> BOOLEAN]
    <3>1. headers \in [Conns -> BOOLEAN]
      BY DEF CountInv
    <3>2. CASE headers' = headers
      BY <3>1, <3>2
    <3>3. CASE headers' = [headers EXCEPT ![c] = FALSE]
      BY <3>1, <3>3
    <3> QED BY <1>12, <3>2, <3>3
  <2>3. CountInv'
    BY <2>1, <2>2, Zenon DEF CountInv
  <2> QED BY <1>1, <2>1, <2>3
<1>13. CASE \/ H3!OpenControl(c) \/ H3!AwaitSettings(c) \/ H3!Report(c)
            \/ H3!Publish(c) \/ H3!Marshal(c) \/ H3!Return(c)
  <2>1. H3!Quiet /\ headers' = headers
    BY <1>13, Zenon DEF H3!OpenControl, H3!AwaitSettings, H3!Report, H3!Publish, H3!Marshal, H3!Return
  <2> QED BY <1>12, <2>1
<1>14. CASE H3!First(c) \/ H3!Grace(c)
  <2>1. H3!Quiet /\ (headers' = headers \/ headers' = [headers EXCEPT ![c] = FALSE])
    BY <1>14, Zenon DEF H3!First, H3!Grace
  <2> QED BY <1>12, <2>1
<1>15. ASSUME NEW pair, H3!Store(c, pair) PROVE SentInv' /\ CountInv'
  BY <1>1, <1>2, <1>15 DEF H3!Store, H3!clientVars, H3!sniffVars
<1>16. CASE H3!Dies(c)
  <2>1. /\ open' = [d \in Conns |-> "over"] /\ timers' = [d \in Conns |-> 0]
        /\ UNCHANGED <<addr, conns, hellos, closed, control, asked, answered, headers>>
    BY <1>16 DEF H3!Dies, H3!sniffVars
  <2>2. /\ open' \in [Conns -> {"no", "yes", "over"}] /\ timers' \in [Conns -> Nat]
        /\ \A e \in Conns : timers'[e] = 0
    BY <2>1
  <2>3. answered \in [Conns -> Nat] /\ \A e \in Conns : answered[e] <= asked[e]
    BY DEF CountInv
  <2>4. \A e \in Conns : timers'[e] <= answered[e]
    BY <2>2, <2>3
  <2>5. CountInv'
    BY <2>1, <2>2, <2>3, <2>4, Zenon DEF CountInv
  <2> QED BY <1>1, <2>1, <2>5
<1> QED BY <1>3, <1>4, <1>6, <1>7, <1>8, <1>9, <1>10, <1>11, <1>13, <1>14, <1>15, <1>16

LEMMA SentInit == StandsInit => SentInv
<1> SUFFICES ASSUME StandsInit, program = "h3sniff" PROVE ConnsInv /\ ListedIsSent
  BY DEF SentInv
<1>1. conns = [k \in {} |-> H3!NewConnection] /\ hellos = [a \in Addresses |-> <<>>]
  BY DEF StandsInit, H3!Init
<1>2. ConnsInv
  BY <1>1 DEF ConnsInv
<1>3. \A a \in Addresses : DOMAIN hellos[a] = {}
  BY <1>1
<1> QED BY <1>2, <1>3, Zenon DEF ListedIsSent

LEMMA SentNext ==
    ASSUME StandsAssumption, HellosInv, SentInv, CountInv, [StandsNext]_standsVars
    PROVE  SentInv' /\ CountInv'
<1>1. CASE H3Next
  BY <1>1, SniffSteps DEF H3Next
<1>2. CASE FpdNext \/ HelloNext
  <2>1. program' # "h3sniff"
    BY <1>2 DEF FpdNext, HelloNext
  <2> QED BY <2>1 DEF SentInv, CountInv
<1>3. CASE UNCHANGED standsVars
  <2>1. UNCHANGED <<program, addr, conns, hellos, closed, open, control, asked, answered, headers, timers>>
    BY <1>3 DEF standsVars, h3Only
  <2>2. SentInv'
    BY <2>1 DEF SentInv, ConnsInv, IsOf, ListedIsSent
  <2>3. CountInv'
    BY <2>1, Zenon DEF CountInv
  <2> QED BY <2>2, <2>3
<1> QED BY <1>1, <1>2, <1>3 DEF StandsNext

\* What h3sniff lists under an address was sent from there: whoever shares the
\* table, no hello is listed under another's socket, and none is made up of two
\* clients' fragments (main.go:477-516).
THEOREM ListedFromThere == StandsSpec => []ListedIsSent
<1>1. SentInv => ListedIsSent
  BY Zenon DEF SentInv, ListedIsSent
<1> QED BY <1>1, SentInit, CountInit, SentNext, HellosInit, HellosNext, StandsAssumption, PTL DEF StandsSpec

------------------------------------------------------------------------------
(* The bounds of fpd, and the types of all.                                 *)

\* The bounds of fpd's tables: the clock, the entries, the reports that are kept.
BoundsInv ==
    /\ now \in 0..MaxTime
    /\ Len(info) <= MaxFlows
    /\ found \in [Handlers -> 0..MaxFlows]
    /\ Len(recent) <= MaxRecent

LEMMA RememberBounds ==
    ASSUME ReportInv, NEW h \in Handlers, Remember(h)
    PROVE  Len(recent') <= MaxRecent
<1> DEFINE all == <<rep[h]>> \o recent
           m == Min({Len(recent) + 1, MaxRecent})
<1>1. recent' = SubSeq(all, 1, m) /\ recent \in Seq(FpdReports) /\ rep[h] \in FpdReports
  BY DEF Remember, ReportInv
<1>2. all \in Seq(FpdReports) /\ Len(all) = Len(recent) + 1
  BY <1>1
<1>3. m \in 1..Len(all) /\ m <= MaxRecent
  <2>1. Len(recent) + 1 \in Nat \ {0} /\ MaxRecent \in Nat \ {0}
    BY <1>1, FpdAssumption
  <2>2. m = CHOOSE x \in {Len(recent) + 1, MaxRecent} : \A y \in {Len(recent) + 1, MaxRecent} : x <= y
    BY DEF Min
  <2>3. \E x \in {Len(recent) + 1, MaxRecent} : \A y \in {Len(recent) + 1, MaxRecent} : x <= y
    BY <2>1
  <2>4. m \in {Len(recent) + 1, MaxRecent} /\ \A y \in {Len(recent) + 1, MaxRecent} : m <= y
    BY <2>2, <2>3
  <2> QED BY <1>2, <2>1, <2>4
<1> HIDE DEF all, m
<1>4. Len(SubSeq(all, 1, m)) = m
  BY <1>2, <1>3
<1> QED BY <1>1, <1>3, <1>4

LEMMA BoundsNext ==
    ASSUME SniffInv, ReportInv, BoundsInv, [Next]_vars
    PROVE  BoundsInv'
<1>1. ASSUME UNCHANGED <<now, info, found, recent>> PROVE BoundsInv'
  BY <1>1 DEF BoundsInv
<1>2. CASE Tick
  BY <1>2, FpdAssumption DEF Tick, BoundsInv, sniffVars, reportVars
<1>3. CASE Purge
  BY <1>1, <1>3 DEF Purge, reportVars
<1>4. ASSUME NEW c \in Conns,
             \/ Accept(c) \/ FrontFails(c) \/ Put(c) \/ HandOver(c) \/ ConnContext(c)
             \/ Handshake(c) \/ Close(c)
      PROVE  BoundsInv'
  BY <1>1, <1>4 DEF Accept, FrontFails, Put, HandOver, ConnContext, Handshake, Close, sniffVars, reportVars
<1>5. ASSUME NEW c \in Conns, NEW isSyn \in BOOLEAN, Record(c, isSyn) PROVE BoundsInv'
  <2>1. /\ UNCHANGED <<now, found, recent>>
        /\ \/ \E n, e : info' = [info EXCEPT ![n] = e]
           \/ Len(info) + 1 <= MaxFlows /\ \E e : info' = Append(info, e)
    BY <1>5 DEF Record, reportVars
  <2>2. info \in Seq(Infos)
    BY DEF SniffInv
  <2>3. Len(info') <= MaxFlows
    BY <2>1, <2>2 DEF BoundsInv
  <2> QED BY <2>1, <2>3 DEF BoundsInv
<1>6. ASSUME NEW h \in Handlers, NEW c \in Conns, Request(h, c) PROVE BoundsInv'
  BY <1>6, FpdAssumption DEF Request, sniffVars, BoundsInv
<1>7. ASSUME NEW h \in Handlers, Lookup(h) PROVE BoundsInv'
  <2>1. UNCHANGED <<now, info, recent>>
    BY <1>7 DEF Lookup, sniffVars
  <2>2. \A k \in DOMAIN flows : flows[k] \in 1..MaxFlows
    <3>1. DOMAIN info = 1..Len(info) /\ Len(info) \in Nat
      BY DEF SniffInv
    <3>2. \A k \in DOMAIN flows : flows[k] \in 1..Len(info)
      BY <3>1 DEF SniffInv
    <3> QED BY <3>1, <3>2, FpdAssumption DEF BoundsInv
  <2>3. \/ UNCHANGED found
        \/ \E n \in 1..MaxFlows : found' = [found EXCEPT ![h] = n]
    BY <1>7, <2>2 DEF Lookup, Near
  <2>4. found' \in [Handlers -> 0..MaxFlows]
    BY <2>3 DEF BoundsInv
  <2> QED BY <2>1, <2>4 DEF BoundsInv
<1>8. ASSUME NEW h \in Handlers, ReadTTL(h) \/ ReadSYN(h) PROVE BoundsInv'
  BY <1>1, <1>8 DEF ReadTTL, ReadSYN, sniffVars
<1>9. ASSUME NEW h \in Handlers, Remember(h) PROVE BoundsInv'
  <2>1. Len(recent') <= MaxRecent
    BY <1>9, RememberBounds
  <2>2. UNCHANGED <<now, info>> /\ found' = [found EXCEPT ![h] = 0]
    BY <1>9 DEF Remember, sniffVars
  <2>3. 0 \in 0..MaxFlows
    BY FpdAssumption
  <2>4. found' \in [Handlers -> 0..MaxFlows]
    BY <2>2, <2>3 DEF BoundsInv
  <2> QED BY <2>1, <2>2, <2>4 DEF BoundsInv
<1>10. CASE UNCHANGED vars
  BY <1>1, <1>10 DEF vars, sniffVars, reportVars
<1> QED BY <1>2, <1>3, <1>4, <1>5, <1>6, <1>7, <1>8, <1>9, <1>10 DEF Next

LEMMA BoundsInit == ASSUME Init PROVE BoundsInv
<1>1. 0 \in 0..MaxTime /\ 0 \in 0..MaxFlows /\ 0 <= MaxFlows /\ 0 <= MaxRecent
  BY FpdAssumption
<1>2. Len(info) = 0 /\ Len(recent) = 0 /\ now = 0 /\ found = [h \in Handlers |-> 0]
  BY DEF Init
<1>3. found \in [Handlers -> 0..MaxFlows]
  BY <1>1, <1>2
<1> QED BY <1>1, <1>2, <1>3 DEF BoundsInv

LEMMA FpdTypes == ASSUME FrontInv, SniffInv, ReportInv, BoundsInv PROVE TypeOK
<1>1. DOMAIN meta \subseteq Conns
  BY DEF FrontInv, NoMetaLeft
<1>2. \A k \in DOMAIN flows : flows[k] \in DOMAIN info
  BY DEF SniffInv
<1>3. /\ pc \in [Conns -> {"off", "front", "queued", "accepted", "serving", "up", "closed"}]
      /\ client \in [Conns -> Clients]
      /\ \A c \in DOMAIN meta : meta[c] \in Metas
      /\ ctx \in [Conns -> Metas \cup {NoMeta}]
  BY Zenon DEF FrontInv
<1>4. at \in [Handlers -> {"idle", "lookup", "ttl", "syn", "built"}]
  BY DEF ReportInv
<1> QED BY <1>1, <1>2, <1>3, <1>4, Zenon DEF BoundsInv, TypeOK

LEMMA BoundsOfFpd ==
    /\ StandsInit => (program = "fpd" => BoundsInv)
    /\ FpdInv /\ (program = "fpd" => BoundsInv) /\ [StandsNext]_standsVars
         => (program = "fpd" => BoundsInv)'
<1>1. StandsInit => (program = "fpd" => BoundsInv)
  BY BoundsInit DEF StandsInit
<1>2. ASSUME FpdInv, program = "fpd" => BoundsInv, [StandsNext]_standsVars
      PROVE  (program = "fpd" => BoundsInv)'
  <2>1. program' = program
    BY <1>2 DEF StandsNext, FpdNext, H3Next, HelloNext, standsVars
  <2>2. program = "fpd" => [Next]_vars
    BY <1>2 DEF StandsNext, FpdNext, H3Next, HelloNext, standsVars, fpdOnly, vars, connVars
  <2> QED BY <1>2, <2>1, <2>2, BoundsNext DEF FpdInv
<1> QED BY <1>1, <1>2

LEMMA SniffTypes ==
    ASSUME program = "h3sniff", HellosInv, PublishedInv, SentInv, CountInv
    PROVE  H3!TypeOK
<1>1. /\ addr \in [Conns -> Addresses] /\ renames \in [Conns -> BOOLEAN]
      /\ arrived \in [Conns \X {1, 2} -> Nat]
  BY DEF HellosInv, H3Typed
<1>2. \A k \in DOMAIN conns : k[1] \in Addresses /\ DOMAIN conns[k] = DOMAIN H3!NewConnection
  <2> SUFFICES ASSUME NEW k \in DOMAIN conns
               PROVE  k[1] \in Addresses /\ DOMAIN conns[k] = DOMAIN H3!NewConnection
    OBVIOUS
  <2>1. PICK c \in Conns : IsOf(c, k)
    BY DEF SentInv, ConnsInv
  <2>2. k[1] = addr[c]
    BY <2>1 DEF IsOf
  <2> QED BY <1>1, <2>2 DEF SentInv, ConnsInv
<1>3. \A a \in Addresses : \A i \in DOMAIN hellos[a] : Len(hellos[a][i]) = 6
  <2> SUFFICES ASSUME NEW a \in Addresses, NEW i \in DOMAIN hellos[a] PROVE Len(hellos[a][i]) = 6
    OBVIOUS
  <2>1. PICK c \in Conns : hellos[a][i] \in {H3!Hello(c), WithHole(c)}
    BY Zenon DEF SentInv, ListedIsSent
  <2>2. Len(H3!Hello(c)) = 6 /\ Len(WithHole(c)) = 6
    BY StandsAssumption, HelloIs DEF WithHole
  <2> QED BY <2>1, <2>2, Zenon
<1>4. pc \in [Conns -> Stages] /\ settings \in [Conns -> SUBSET (Nat \X Nat)]
  BY DEF PublishedInv, ReportTyped
<1> QED BY <1>1, <1>2, <1>3, <1>4, Zenon DEF CountInv, H3!TypeOK, Stages

\* Whichever program runs, its variables keep their types: fpd keeps no more
\* reports than its limit and a handler holds an entry that was made; h3sniff
\* answers no request twice, and arms no close without an answer.
THEOREM StandsKeepTypes == StandsSpec => []StandsTypeOK
<1>1. /\ FpdInv /\ (program = "fpd" => BoundsInv)
      /\ HellosInv /\ PublishedInv /\ SentInv /\ CountInv
      => StandsTypeOK
  <2> SUFFICES ASSUME FpdInv, program = "fpd" => BoundsInv,
                      HellosInv, PublishedInv, SentInv, CountInv
               PROVE  StandsTypeOK
    OBVIOUS
  <2>1. program \in {"fpd", "h3sniff", "hello"}
    BY DEF FpdInv
  <2>2. program = "fpd" => TypeOK
    BY FpdTypes DEF FpdInv
  <2>3. program = "h3sniff" => H3!TypeOK
    BY SniffTypes
  <2> QED BY <2>1, <2>2, <2>3, Zenon DEF StandsTypeOK
<1> QED BY <1>1, FpdInvInit, FpdInvStep, BoundsOfFpd, HellosInit, HellosNext, PublishedInit,
           PublishedNext, SentInit, CountInit, SentNext, StandsAssumption, PTL DEF StandsSpec

==============================================================================
