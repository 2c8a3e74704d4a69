-------------------------------- MODULE Stands --------------------------------
(***************************************************************************)
(* The programs that look at their clients: a behaviour is one of fpd, of  *)
(* h3sniff, or of a client of the library whose hellos fpd fingerprints;   *)
(* the variables of the others keep their first values.                    *)
(***************************************************************************)
EXTENDS FpdFront

CONSTANTS
    Addresses, Served, Times, Asks, browserMode,   \* H3Sniff
    Names, Strangers, Orders                       \* HelloSpec

\* A hello carries the number of its connection.
ASSUME StandsAssumption == Conns \subseteq Nat /\ Asks \in Nat

VARIABLES
    program,
    addr, renames, arrived, conns, hellos, closed, open, control, settings,   \* H3Sniff
    asked, answered, headers, timers, report,
    name, path, ticket, hello                                                 \* HelloSpec

fpdOnly == <<client, meta, ctx, now, sniffVars, reportVars>>
h3Only == <<addr, renames, arrived, conns, hellos, closed, open, control, settings,
            asked, answered, headers, timers, report>>
helloOnly == <<name, path, ticket, hello>>
standsVars == <<program, pc, fpdOnly, h3Only, helloOnly>>

H3 == INSTANCE H3Sniff
Own == INSTANCE HelloSpec
Lib == INSTANCE Fingerprint

\* rand.Shuffle permutes what it is given.
ASSUME OrdersAssumption ==
    \A n \in Names, g \in Own!Pairs :
        /\ Own!Slots(n, g) \in DOMAIN Orders
        /\ \A order \in Orders[Own!Slots(n, g)] : Own!Permutes(order, Own!Slots(n, g))

------------------------------------------------------------------------------
H3Idle ==
    /\ addr = [c \in Conns |-> CHOOSE a \in Addresses : TRUE] /\ renames = [c \in Conns |-> FALSE]
    /\ arrived = [d \in Conns \X {1, 2} |-> 0]
    /\ conns = [k \in {} |-> H3!NewConnection]
    /\ hellos = [a \in Addresses |-> <<>>] /\ closed = 0
    /\ open = [c \in Conns |-> "no"]
    /\ control = [c \in Conns |-> 0] /\ settings = [c \in Conns |-> {}]
    /\ asked = [c \in Conns |-> 0] /\ answered = [c \in Conns |-> 0]
    /\ headers = [c \in Conns |-> FALSE] /\ timers = [c \in Conns |-> 0]
    /\ report = [c \in Conns |-> H3!NoReport]
FpdIdle ==
    /\ client = [c \in Conns |-> CHOOSE x \in Clients : TRUE]
    /\ meta = [c \in {} |-> NoMeta] /\ ctx = [c \in Conns |-> NoMeta]
    /\ now = 0 /\ flows = [k \in {} |-> 0] /\ info = <<>>
    /\ at = [h \in Handlers |-> "idle"] /\ rep = [h \in Handlers |-> EmptyReport]
    /\ found = [h \in Handlers |-> 0] /\ recent = <<>>
HelloIdle == name = "none" /\ path = "none" /\ ticket = FALSE /\ hello = <<>>

StandsInit ==
    \/ program = "fpd" /\ Init /\ H3Idle /\ HelloIdle
    \/ program = "h3sniff" /\ H3!Init /\ FpdIdle /\ HelloIdle
    \/ /\ program = "hello" /\ Own!Init
       /\ pc = [c \in Conns |-> "none"] /\ FpdIdle /\ H3Idle

FpdNext == program = "fpd" /\ Next /\ UNCHANGED <<program, h3Only, helloOnly>>
H3Next == program = "h3sniff" /\ H3!Next /\ UNCHANGED <<program, fpdOnly, helloOnly>>
HelloNext == program = "hello" /\ Own!Next /\ UNCHANGED <<program, pc, fpdOnly, h3Only>>
StandsNext == FpdNext \/ H3Next \/ HelloNext

StandsSpec == StandsInit /\ [][StandsNext]_standsVars

\* A request that h3sniff has read is answered: its goroutine runs.
StandsFairness ==
    \A c \in Conns :
        WF_standsVars(program = "h3sniff" /\ H3!Answer(c) /\ UNCHANGED <<program, fpdOnly, helloOnly>>)

\* Whichever program runs, its variables have their types.
StandsTypeOK ==
    /\ program \in {"fpd", "h3sniff", "hello"}
    /\ program = "fpd" => TypeOK
    /\ program = "h3sniff" => H3!TypeOK

------------------------------------------------------------------------------
(* Properties.                                                             *)

\* h3sniff lists every hello that has arrived, of clients that share a socket
\* and in datagrams out of order (main.go:477-516).
HelloSeen == program = "h3sniff" => H3!HelloSeen

\* A hello of which the second datagram has not come, or cannot be opened.
WithHole(c) == <<1, 0, 0, 2, 0, c>>

\* What h3sniff lists under an address is the hello of a client there, whole or
\* with its hole, and never one of another socket (main.go:493-514).
ListedIsSent ==
    program = "h3sniff" =>
        \A a \in Addresses : \A i \in DOMAIN hellos[a] :
            \E c \in Conns : addr[c] = a /\ hellos[a][i] \in {H3!Hello(c), WithHole(c)}

\* h3sniff reports the hello and the SETTINGS of the connection, all of them if
\* they came in time (main.go:200-209, 265-278, 518-590).
ReportIsItsOwn == program = "h3sniff" => H3!ReportIsItsOwn

\* h3sniff goes on answering after its report (main.go:279).
RequestsAnswered == program = "h3sniff" => H3!RequestsAnswered

Read == Lib!ParseClientHello(hello)
Seen == parseClientHelloRecord(hello)

\* The extensions as lists of elements, short ones empty.  Names of servers
\* begin with a host name, as there is no other kind of them; protocol names are
\* bytes.
Readable(wire) ==
    /\ Len(wire.exts) \in Nat /\ DOMAIN wire.exts = 1..Len(wire.exts)
    /\ \A i \in DOMAIN wire.exts :
        LET data == wire.exts[i].data
            list == data.list
        IN /\ data.len \in Nat /\ Len(list) \in Nat /\ DOMAIN list = 1..Len(list)
           /\ data.short => list = <<>>
           /\ wire.exts[i].id = 0 /\ list # <<>> => list[1].type = 0
           /\ wire.exts[i].id = 16 => list \in Seq(Seq(Nat))

\* The lists that a fingerprint reads, and all but the names of servers: their
\* length neither program looks at.
Measured == {10, 11, 13, 16, 43}

\* What TLS allows: nothing behind the extensions, and every list as long as it
\* says.
WellFormed(wire) ==
    /\ ~wire.tail
    /\ \A i \in DOMAIN wire.exts : wire.exts[i].id \in Measured =>
        ~wire.exts[i].data.short /\ wire.exts[i].data.len = Len(wire.exts[i].data.list)

\* A hello put right: the lists end where they say, or are empty, and so does
\* the hello.
Righted(e) ==
    IF e.id \in Measured THEN [id |-> e.id, data |-> Own!Listed(parseList(e.data))] ELSE e
Tidied(wire) ==
    [version |-> wire.version, ciphers |-> wire.ciphers,
     exts |-> [i \in DOMAIN wire.exts |-> Righted(wire.exts[i])], tail |-> FALSE]

Alike(seen, read) ==
    /\ computeJA4(seen) = Lib!JA4(read)
    /\ computeJA3(seen) = Lib!JA3(read)
    /\ ja4R(seen) = Lib!JA4R(read)

\* Of a hello that TLS allows, fpd and the library read the same fingerprints,
\* whoever sent it; of any other, which the library may read to its end or not
\* at all, fpd reads those that the library reads of the hello put right
\* (ja34.go, hello.go:111-235, fingerprint.go:110-178).
FingerprintsAgree ==
    program = "hello" /\ Readable(hello) =>
        /\ WellFormed(hello) => Read # Lib!NoHello /\ Alike(Seen, Read)
        /\ Alike(Seen, Lib!ParseClientHello(Tidied(hello)))

h0 == <<48, 48>>      \* 00, no protocol
h1 == <<104, 49>>     \* h1
h2 == <<104, 50>>
h3 == <<104, 51>>

\* Ciphers, extensions without pre_shared_key, and protocol: the captures that
\* the comments and the tests of the specs name (t13d1812h1 and the others).
Captured ==
    [tcp |-> [node_24 |-> <<18, 12, h1>>, max_app |-> <<17, 11, h0>>,
              max_app_psk |-> <<17, 11, h0>>, chrome_auto |-> <<15, 16, h2>>,
              chrome_152 |-> <<15, 17, h2>>, chrome_152_psk |-> <<15, 17, h2>>,
              chrome_155 |-> <<15, 17, h2>>, chrome_156 |-> <<15, 18, h2>>,
              yandex_browser |-> <<15, 16, h2>>],
     ws |-> [chrome_152 |-> <<15, 16, h1>>],
     quic |-> [chrome_156 |-> <<3, 13, h3>>, chrome_155 |-> <<3, 12, h3>>,
               chrome_152 |-> <<3, 11, h3>>, yandex_browser |-> <<3, 11, h3>>]]

\* A hello of ours has the shape that was captured, and its pre_shared_key, if
\* it has one, at the end; one that is not of the capture is there for a
\* ticket.  Its fingerprint is that of its name on every connection, whatever the
\* order and the GREASE values, but for that pre_shared_key (spec152.go,
\* spec_*.go, quic_shape.go, websocket.go:183, http3.go:149-152).
HelloKeepsShape ==
    program = "hello" /\ Own!Own =>
        /\ Readable(hello) /\ WellFormed(hello) /\ Own!PSKIsLast
        /\ \E t \in BOOLEAN :
             LET g == <<2570, 6682>>
                 same == Own!Hello(name, path, t, g, [i \in Own!Slots(name, g) |-> i])
             IN Lib!JA4(Lib!ParseClientHello(same)) = Lib!JA4(Read)
        /\ name \in DOMAIN Captured[path] =>
             LET part == IF path = "quic" THEN Lib!JA4QUIC(Read)[1] ELSE Lib!JA4(Read)[1]
                 psk == Cardinality({i \in DOMAIN hello.exts : hello.exts[i].id = 41})
             IN /\ psk \in IF name \in {"max_app_psk", "chrome_152_psk"} THEN {1}
                           ELSE IF ticket THEN {0, 1} ELSE {0}
                /\ <<part[4], part[5] - psk, part[6]>> = Captured[path][name]

\* What the comment of shuffleExtensions says (spec152.go:133-137).
GREASEAtTheEnds == program = "hello" => Own!GREASEAtTheEnds

==============================================================================
