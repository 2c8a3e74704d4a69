------------------------------- MODULE H3Sniff -------------------------------
(***************************************************************************)
(* cmd/h3sniff: an HTTP/3 server that reports what each client sends.  The *)
(* datagrams it reads pass a sniffer, which puts the hellos together and   *)
(* keeps them by address; a goroutine for each connection reads the        *)
(* SETTINGS and the requests, prints one report and goes on serving.  The  *)
(* SETTINGS are put pair by pair into a map, under a lock; handle takes    *)
(* the map itself under that lock and prints it later without it.          *)
(*                                                                         *)
(* A client sends its hello in two datagrams, in fragments that do not     *)
(* follow each other, and may send each again.  It may use another         *)
(* destination id in the second.  Datagrams arrive in any order.  The QUIC *)
(* stack accepts a connection whose hello it has whole.                    *)
(***************************************************************************)
EXTENDS QuicInitial

CONSTANTS
    Conns,      \* the connections, numbers below 64
    Addresses,  \* the sockets of the clients
    Served,     \* bound, of Conns: those whose handshake comes to an end
    Times,      \* bound: how often each of the two datagrams arrives
    Asks,       \* bound: requests on a connection
    browserMode

VARIABLES
    addr,      \* the client's socket of a connection
    renames,   \* the client changes the destination id after its first datagram
    arrived,   \* how often each of the two datagrams has arrived
    conns,     \* sniffer.conns
    hellos,    \* sniffer.hellos
    closed,    \* sniffer.closed
    open,      \* the connection: "no" before it is accepted, "yes", "over"
    pc,        \* where handle is
    control,   \* bytes of the control stream that were read
    settings,  \* the pairs in the map of handle
    asked,     \* requests the client has sent
    answered,  \* requests that were answered
    headers,   \* the channel of handle holds a request
    timers,    \* closes that browserMode has armed
    report     \* what was published

sniffVars == <<conns, hellos, closed>>
clientVars == <<addr, renames, arrived, open>>
handleVars == <<pc, control, settings, asked, answered, headers, timers, report>>
vars == <<clientVars, sniffVars, handleVars>>

\* The hello of a client: a handshake header, and two bytes that are its own.
Hello(c) == <<1, 0, 0, 2, c, c>>

\* The ends in the first datagram, the middle in the second; PADDING, PING.
Datagram(c, n) ==
    [dcid |-> IF n = 2 /\ renames[c] THEN <<c, 0>> ELSE <<c>>, keys |-> <<c>>,
     payload |-> IF n = 1 THEN <<6, 5, 1, c, 1, 6, 0, 64, 4, 1, 0, 0, 2>>
                 ELSE <<0, 6, 4, 1, c, 0>>]

\* Type 0; the frame 4 of five bytes: 1 -> 5 in two bytes, and 7 -> a value of
\* the client's own; another frame.
ControlStream(c) == <<0, 4, 5, 1, 64, 5, 7, c % 64, 33, 0>>
Settings(c) == {<<1, 5>>, <<7, c % 64>>}
Reads == {1, 6, 10}    \* where a read may end

\* late: the log has "the client sent no settings" before the report.
NoReport == [hello |-> <<>>, settings |-> {}, late |-> FALSE]

TypeOK ==
    /\ addr \in [Conns -> Addresses] /\ renames \in [Conns -> BOOLEAN]
    /\ arrived \in [Conns \X {1, 2} -> Nat]
    /\ \A k \in DOMAIN conns : k[1] \in Addresses /\ DOMAIN conns[k] = DOMAIN NewConnection
    /\ \A a \in Addresses : \A i \in DOMAIN hellos[a] : Len(hellos[a][i]) = 6
    /\ closed \in Nat
    /\ open \in [Conns -> {"no", "yes", "over"}]
    /\ pc \in [Conns -> {"none", "control", "first", "grace", "settings", "report",
                         "publish", "marshal", "reported", "gone", "dead"}]
    /\ control \in [Conns -> 0..10] /\ settings \in [Conns -> SUBSET (Nat \X Nat)]
    /\ asked \in [Conns -> 0..Asks] /\ headers \in [Conns -> BOOLEAN]
    /\ \A c \in Conns : answered[c] <= asked[c] /\ timers[c] <= answered[c]

Init ==
    /\ addr \in [Conns -> Addresses] /\ renames \in [Conns -> BOOLEAN]
    /\ arrived = [d \in Conns \X {1, 2} |-> 0]
    /\ conns = [k \in {} |-> NewConnection]
    /\ hellos = [a \in Addresses |-> <<>>]
    /\ closed = 0
    /\ open = [c \in Conns |-> "no"]
    /\ pc = [c \in Conns |-> "none"]
    /\ control = [c \in Conns |-> 0] /\ settings = [c \in Conns |-> {}]
    /\ asked = [c \in Conns |-> 0] /\ answered = [c \in Conns |-> 0]
    /\ headers = [c \in Conns |-> FALSE] /\ timers = [c \in Conns |-> 0]
    /\ report = [c \in Conns |-> NoReport]

------------------------------------------------------------------------------
(* The sniffer, on the way of every datagram.                              *)

\* observe: the connection is the address and the destination id of this very
\* datagram; its hello is listed whenever a datagram of it opens.  A hello with
\* a hole in it may be one that cannot be parsed.
observe(c, n) ==
    LET d == Datagram(c, n)
        key == <<addr[c], DestinationConnectionID(d)>>
        before == IF key \in DOMAIN conns THEN conns[key] ELSE NewConnection
        conn == AddInitial(before, d)
    IN /\ conns' = [k \in DOMAIN conns \cup {key} |-> IF k = key THEN conn ELSE conns[k]]
       /\ \/ /\ Opens(before, d) /\ conn.hello # NoHello /\ conn.hello[1] = 1
             /\ hellos' = [hellos EXCEPT ![addr[c]] = Append(@, conn.hello)]
          \/ /\ conn.hello # Hello(c) \/ ~Opens(before, d)
             /\ UNCHANGED hellos

Up == \A c \in Conns : pc[c] # "dead"

ReadFrom(c, n) ==
    /\ Up /\ arrived[<<c, n>>] < Times[n]
    /\ observe(c, n)
    /\ arrived' = [arrived EXCEPT ![<<c, n>>] = @ + 1]
    /\ UNCHANGED <<addr, renames, open, closed, handleVars>>

Whole(c) == arrived[<<c, 1>>] > 0 /\ arrived[<<c, 2>>] > 0

AcceptConn(c) ==
    /\ c \in Served /\ open[c] = "no" /\ Whole(c)
    /\ open' = [open EXCEPT ![c] = "yes"]
    /\ pc' = [pc EXCEPT ![c] = "control"]
    /\ UNCHANGED <<addr, renames, arrived, sniffVars, control, settings, asked, answered,
                   headers, timers, report>>

------------------------------------------------------------------------------
(* The client, after the handshake.                                        *)

Ask(c) ==
    /\ open[c] = "yes" /\ asked[c] < Asks
    /\ asked' = [asked EXCEPT ![c] = @ + 1]
    /\ UNCHANGED <<clientVars, sniffVars, pc, control, settings, answered, headers, timers, report>>

ClientCloses(c) ==
    /\ open[c] = "yes"
    /\ open' = [open EXCEPT ![c] = "over"]
    /\ UNCHANGED <<addr, renames, arrived, sniffVars, handleVars>>

------------------------------------------------------------------------------
(* The goroutines of a connection, which its context keeps.                *)

Go(c, from, to) == pc[c] = from /\ pc' = [pc EXCEPT ![c] = to]

Accepting(c) == open[c] = "yes" /\ pc[c] \notin {"none", "control", "gone"}

\* readControlStream: what the parser says of all that was read.
Parsed(c) == H3Settings(SubSeq(ControlStream(c), 1, control[c]))

ReadControl(c, n) ==
    /\ Accepting(c) /\ ~Parsed(c).ok
    /\ n > control[c] /\ (control[c] = 0 => n = 1)
    /\ control' = [control EXCEPT ![c] = n]
    /\ UNCHANGED <<clientVars, sniffVars, pc, settings, asked, answered, headers, timers, report>>

\* The callback puts the pairs into the map, in any order and one by one; with
\* the last it unlocks the map and closes settingsDone.
Store(c, pair) ==
    /\ Up /\ pair \in ToSet(Parsed(c).pairs) \ settings[c]
    /\ settings' = [settings EXCEPT ![c] = @ \cup {pair}]
    /\ UNCHANGED <<clientVars, sniffVars, pc, control, asked, answered, headers, timers, report>>

Done(c) == Parsed(c).ok /\ settings[c] = ToSet(Parsed(c).pairs)
Inserting(c) == Parsed(c).ok /\ settings[c] # {} /\ ~Done(c)

\* A request is read, offered to handle, answered; browserMode arms a close.
Answer(c) ==
    /\ Accepting(c) /\ answered[c] < asked[c]
    /\ answered' = [answered EXCEPT ![c] = @ + 1]
    /\ headers' = [headers EXCEPT ![c] = TRUE]
    /\ timers' = [timers EXCEPT ![c] = @ + (IF browserMode THEN 1 ELSE 0)]
    /\ UNCHANGED <<clientVars, sniffVars, pc, control, settings, asked, report>>

\* CloseWithError, and noteClosed whether it was open or not.
CloseByStand(c) ==
    /\ timers[c] > 0
    /\ timers' = [timers EXCEPT ![c] = @ - 1]
    /\ open' = [open EXCEPT ![c] = "over"]
    /\ closed' = closed + 1
    /\ UNCHANGED <<addr, renames, arrived, conns, hellos, pc, control, settings, asked, answered,
                   headers, report>>

------------------------------------------------------------------------------
(* handle.                                                                 *)

Quiet == UNCHANGED <<clientVars, sniffVars, control, settings, asked, answered, timers>>

OpenControl(c) == (Go(c, "control", "first") \/ Go(c, "control", "gone"))
                  /\ Quiet /\ UNCHANGED <<headers, report>>

\* A request or the SETTINGS first; or the connection or 60 seconds are over.
First(c) ==
    /\ \/ headers[c] /\ Go(c, "first", "settings") /\ headers' = [headers EXCEPT ![c] = FALSE]
       \/ Done(c) /\ Go(c, "first", "grace") /\ UNCHANGED headers
       \/ Go(c, "first", "gone") /\ UNCHANGED headers
    /\ Quiet /\ UNCHANGED report

\* Five seconds for a request.
Grace(c) ==
    /\ \/ headers[c] /\ Go(c, "grace", "settings") /\ headers' = [headers EXCEPT ![c] = FALSE]
       \/ Go(c, "grace", "settings") /\ UNCHANGED headers
    /\ Quiet /\ UNCHANGED report

\* Three seconds for the SETTINGS.
AwaitSettings(c) ==
    /\ \/ Done(c) /\ Go(c, "settings", "report") /\ UNCHANGED report
       \/ Go(c, "settings", "report") /\ report' = [report EXCEPT ![c].late = TRUE]
       \/ Go(c, "settings", "gone") /\ UNCHANGED report
    /\ Quiet /\ UNCHANGED headers

\* The hello listed last for the address.
Report(c) ==
    /\ Go(c, "report", "publish")
    /\ report' = [report EXCEPT ![c].hello =
                    IF hellos[addr[c]] = <<>> THEN <<>> ELSE Last(hellos[addr[c]])]
    /\ Quiet /\ UNCHANGED headers

\* The map itself is put into the report, under its lock.
Publish(c) ==
    /\ ~Inserting(c) /\ Go(c, "publish", "marshal")
    /\ Quiet /\ UNCHANGED <<headers, report>>

\* Mutated form of Marshal: handle returns, and its context is cancelled.
MarshalReturns(c) ==
    /\ Go(c, "marshal", "gone")
    /\ report' = [report EXCEPT ![c].settings = settings[c]]
    /\ Quiet /\ UNCHANGED headers

\* The report is printed: what the map holds by then, read without the lock.
Marshal(c) ==
    /\ Go(c, "marshal", "reported")
    /\ report' = [report EXCEPT ![c].settings = settings[c]]
    /\ Quiet /\ UNCHANGED headers

\* Go ends the program when it sees a map iterated and written at once.
Dies(c) ==
    /\ pc[c] = "marshal" /\ Parsed(c).ok /\ ~Done(c)
    /\ pc' = [d \in Conns |-> "dead"]
    /\ open' = [d \in Conns |-> "over"]
    /\ timers' = [d \in Conns |-> 0]
    /\ UNCHANGED <<addr, renames, arrived, sniffVars, control, settings, asked, answered,
                   headers, report>>

Return(c) ==
    /\ open[c] = "over"
    /\ Go(c, "reported", "gone")
    /\ Quiet /\ UNCHANGED <<headers, report>>

------------------------------------------------------------------------------
(* The answer.                                                             *)

\* The page that drives a browser has 207 bytes; every other body is "ok\n".
responseBody(isRoot) == [i \in 1..(IF browserMode /\ isRoot THEN 207 ELSE 3) |-> 32]

\* The DATA frame: its type, its length in one byte, the body.
writeResponse(body) == <<0, Len(body) % 256>> \o body

Next ==
    \E c \in Conns :
        \/ \E n \in {1, 2} : ReadFrom(c, n)
        \/ AcceptConn(c) \/ Ask(c) \/ ClientCloses(c)
        \/ \E n \in Reads : ReadControl(c, n)
        \/ \E pair \in ToSet(Parsed(c).pairs) : Store(c, pair)
        \/ Answer(c) \/ CloseByStand(c)
        \/ OpenControl(c) \/ First(c) \/ Grace(c) \/ AwaitSettings(c)
        \/ Report(c) \/ Publish(c) \/ Marshal(c) \/ Dies(c) \/ Return(c)

Spec == Init /\ [][Next]_vars

------------------------------------------------------------------------------
(* Properties.                                                             *)

Published(c) == pc[c] = "reported"

\* A hello that has arrived is in the list of its address, whoever else uses
\* the socket, if its client keeps to one destination id.
HelloSeen ==
    \A c \in Conns : Whole(c) /\ ~renames[c] =>
        \E i \in DOMAIN hellos[addr[c]] : hellos[addr[c]][i] = Hello(c)

\* A client that opens a socket per connection is reported with its own hello;
\* no pair in a report is another client's, and none is missing unless the log
\* says that there were no SETTINGS in time.
ReportIsItsOwn ==
    \A c \in Conns : Published(c) =>
        /\ report[c].settings \subseteq Settings(c)
        /\ report[c].late \/ report[c].settings = Settings(c)
        /\ ~renames[c] /\ (\A d \in Conns \ {c} : addr[d] # addr[c]) => report[c].hello = Hello(c)

\* A connection stays served after its report: a request on it is answered
\* while it is open (main.go:279).
RequestsAnswered ==
    \A c \in Conns :
        (report[c] # NoReport /\ answered[c] < asked[c]) ~>
            (answered[c] = asked[c] \/ open[c] # "yes")

\* What the comment of browserPage says (main.go:386): a browser reads the page.
\* The length of a frame is a varint, which 207 in one byte is not.
PageIsReadable ==
    \A isRoot \in BOOLEAN :
        LET body == responseBody(isRoot)
            length == ReadVarint(From(writeResponse(body), 2))
        IN length.ok /\ length.value = Len(body)

\* What the comment of Connection says (quicwire.go:74): a later Initial with
\* another destination id is read with the keys of the first.
RenamingIsRead ==
    \A c \in Conns : Whole(c) =>
        \E i \in DOMAIN hellos[addr[c]] : hellos[addr[c]][i] = Hello(c)

\* What ClientHelloMessage says (quicwire.go:183): it returns the hello when it
\* is complete.
HellosAreWhole ==
    \A a \in Addresses : \A i \in DOMAIN hellos[a] : \E c \in Conns : hellos[a][i] = Hello(c)

\* What the lock around the map is for (main.go:195-205): a report has all of
\* the SETTINGS or none.  Marshal reads the map without it.
AllOrNone == \A c \in Conns : Published(c) => report[c].settings \in {{}, Settings(c)}

\* What the field says (main.go:464): closed counts connections.
ClosedCountsConnections == closed <= Cardinality({c \in Conns : open[c] = "over"})

==============================================================================
