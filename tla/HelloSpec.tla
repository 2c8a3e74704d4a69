------------------------------ MODULE HelloSpec ------------------------------
(***************************************************************************)
(* The ClientHellos that mimic sends under a name (spec152.go and the      *)
(* spec_*.go beside it, newUConn): which extensions, in which order, with  *)
(* a ticket and without, and what becomes of them on a WebSocket or a QUIC *)
(* connection.                                                             *)
(*                                                                         *)
(* An extension is its id, the list it carries where a fingerprint reads   *)
(* it, as Fingerprint has it on the wire, and its Go type where the code   *)
(* asks for that; a protocol name is its bytes.  uTLS's Chrome preset, and *)
(* the hello of the QUIC stack, are external.  rand.Shuffle draws an order *)
(* of the places that it is given.                                         *)
(***************************************************************************)
EXTENDS Integers, Sequences, SequencesExt, Sublist

CONSTANTS
    Names,      \* the values of tls_client_hello
    Strangers,  \* hellos that other clients send
    Orders      \* bound: for a set of places, the permutations that are drawn

VARIABLES
    name,    \* the profile of the client
    path,    \* "tcp", "ws" for a WebSocket, "quic"
    ticket,  \* the session cache has a ticket for the server
    hello    \* the last hello on the wire
vars == <<name, path, ticket, hello>>

h2 == <<104, 50>>
h3 == <<104, 51>>
http11 == <<104, 116, 116, 112, 47, 49, 46, 49>>

\* uTLS writes the length of a list in front of it.
Listed(list) == [short |-> FALSE, len |-> Len(list), list |-> list]
Ext(id, list, kind) == [id |-> id, data |-> Listed(list), kind |-> kind]
Plain(id) == Ext(id, <<>>, "generic")
PlainAll(ids) == [i \in DOMAIN ids |-> Plain(ids[i])]
SNI == Ext(0, <<[type |-> 0, name |-> <<97>>]>>, "sni")
Groups(list) == Ext(10, list, "groups")
Points == Ext(11, <<0>>, "points")
Algorithms(list) == Ext(13, list, "sigalgs")
Protocols(list) == Ext(16, list, "alpn")
Versions(list) == Ext(43, list, "versions")
ALPS == Ext(17613, <<>>, "alps")
Padding == Ext(21, <<>>, "padding")
GREASE(v) == Ext(v, <<>>, "grease")
Placeholder == Ext(41, <<>>, "psk")    \* uTLS fills it, or conceals it
CapturedPSK == Plain(41)               \* a GenericExtension

Layout(ciphers, exts) == [version |-> 771, ciphers |-> ciphers, exts |-> exts, tail |-> FALSE]
With(spec, ext) == [spec EXCEPT !.exts = Append(@, ext)]

HasPlaceholder(exts) == \E i \in DOMAIN exts : exts[i].kind = "psk"

\* Appends the placeholder unless there is one.
withResumptionPSK(spec) == IF HasPlaceholder(spec.exts) THEN spec ELSE With(spec, Placeholder)

------------------------------------------------------------------------------
(* The specs.  g is the GREASE values of a connection.                     *)

\* HelloChrome_Auto of uTLS, in an order of its own.
ChromePreset(g) ==
    Layout(<<g[1], 4865, 4866, 4867, 49195, 49199, 49196, 49200, 52393, 52392, 49171, 49172,
           156, 157, 47, 53>>,
         <<GREASE(g[1]), SNI, Plain(23), Plain(65281), Groups(<<g[2], 4588, 29, 23, 24>>), Points,
           Plain(35), Protocols(<<h2, http11>>), Plain(5),
           Algorithms(<<1027, 2052, 1025, 1283, 2053, 1281, 2054, 1537>>), Plain(18), Plain(51),
           Plain(45), Versions(<<g[2], 772, 771>>), Plain(27), ALPS, Plain(65037), GREASE(g[2])>>)

PostQuantum == <<27242, 2308, 2309, 2310>>    \* a GREASE value, ML-DSA
CA34 == 51764
X12E0 == 4832

\* The post-quantum algorithms go before those of the preset.
mergeAlgorithms(ext) ==
    IF ext.kind = "sigalgs" THEN [ext EXCEPT !.data = Listed(PostQuantum \o @.list)] ELSE ext

\* The unregistered extensions go after the whole of the preset.
chromeBaseSpec(g, unregistered, withResumption) ==
    LET preset == ChromePreset(g)
        spec == [preset EXCEPT !.exts =
                    [i \in DOMAIN @ |-> mergeAlgorithms(@[i])] \o PlainAll(unregistered)]
    IN IF withResumption THEN withResumptionPSK(spec) ELSE spec

chrome152Spec(g) == chromeBaseSpec(g, <<CA34>>, TRUE)
chrome152PSKSpec(g) == With(chromeBaseSpec(g, <<CA34>>, FALSE), CapturedPSK)
chrome156Spec(g) == chromeBaseSpec(g, <<CA34, X12E0>>, TRUE)
yandexBrowserSpec(g) == chromeBaseSpec(g, <<>>, TRUE)

OldAlgorithms == <<1027, 2052, 1025, 1283, 2053, 1281, 2054, 1537, 513>>

node24Spec ==
    Layout(<<4865, 4866, 4867, 49199, 49195, 49200, 49196, 49191, 52393, 52392, 49161, 49171,
           49162, 49172, 156, 157, 47, 53>>,
         <<SNI, Plain(23), Plain(65281), Groups(<<29, 23, 24>>), Points, Plain(35),
           Protocols(<<http11>>), Algorithms(OldAlgorithms), Plain(51), Plain(45),
           Versions(<<772, 771>>), Padding>>)

node24ResumptionSpec == withResumptionPSK(node24Spec)

\* No ALPN.
maxAppBaseSpec(withResumption) ==
    LET spec == Layout(<<4865, 4866, 4867, 49195, 49196, 52393, 49199, 49200, 52392, 49161, 49162,
                       49171, 49172, 156, 157, 47, 53>>,
                     <<SNI, Plain(23), Plain(65281), Groups(<<29, 23, 24>>), Points, Plain(35),
                       Plain(5), Algorithms(OldAlgorithms), Plain(51), Plain(45),
                       Versions(<<772, 771>>)>>)
    IN IF withResumption THEN withResumptionPSK(spec) ELSE spec

maxAppSpec == maxAppBaseSpec(TRUE)
maxAppPSKSpec == With(maxAppBaseSpec(FALSE), CapturedPSK)

------------------------------------------------------------------------------
(* The order.                                                              *)

positionallyInvariant(ext) == ext.kind \in {"grease", "padding"}

\* Mutated form of IsPSK: a GenericExtension is not looked into.
IsPSKByType(ext) == ext.kind = "psk"

IsPSK(ext) == ext.kind = "psk" \/ (ext.kind = "generic" /\ ext.id = 41)

\* The extensions without the first pre_shared_key, and the places whose
\* extensions change places.
WithoutPSK(exts) ==
    LET at == {i \in DOMAIN exts : IsPSK(exts[i])}
    IN IF at = {} THEN exts ELSE RemoveAt(exts, Min(at))
Movable(rest) == {i \in DOMAIN rest : ~positionallyInvariant(rest[i])}

Permutes(order, S) ==
    /\ order \in [S -> S] /\ IsInjective(order)
    /\ \A i \in S : \E j \in S : order[j] = i

\* The first pre_shared_key is put last; of the rest, order says what comes to
\* the place of each extension that may move.
shuffleExtensions(exts, order) ==
    LET at == {i \in DOMAIN exts : IsPSK(exts[i])}
        rest == WithoutPSK(exts)
    IN [i \in DOMAIN rest |-> IF i \in Movable(rest) THEN rest[order[i]] ELSE rest[i]]
       \o (IF at = {} THEN <<>> ELSE <<exts[Min(at)]>>)

\* The spec of a name.  Every name that is not ours is a uTLS id, whose hello
\* uTLS builds in the handshake: no extensions yet.
SpecOf(n, g) ==
    CASE n = "node_24"        -> node24ResumptionSpec
      [] n = "max_app"        -> maxAppSpec
      [] n = "max_app_psk"    -> maxAppPSKSpec
      [] n \in {"chrome_152", "chrome_155"} -> chrome152Spec(g)
      [] n = "chrome_152_psk" -> chrome152PSKSpec(g)
      [] n = "chrome_156"     -> chrome156Spec(g)
      [] n = "yandex_browser" -> yandexBrowserSpec(g)
      [] n = "chrome_auto"    -> withResumptionPSK(ChromePreset(g))
      [] OTHER                -> Layout(<<>>, <<>>)

Shuffled == {"chrome_152", "chrome_155", "chrome_152_psk", "chrome_156", "yandex_browser"}
Slots(n, g) == IF n \in Shuffled THEN Movable(WithoutPSK(SpecOf(n, g).exts)) ELSE {}

\* The hello of a name before the handshake.
newUConn(n, g, order) ==
    IF n \in Shuffled THEN [SpecOf(n, g) EXCEPT !.exts = shuffleExtensions(@, order)]
    ELSE SpecOf(n, g)

narrowALPN(exts, protos) ==
    LET kept == Sublist(exts, {i \in DOMAIN exts : h2 \in ToSet(protos) \/ exts[i].kind # "alps"})
    IN [i \in DOMAIN kept |-> IF kept[i].kind = "alpn" THEN Protocols(protos) ELSE kept[i]]

------------------------------------------------------------------------------
(* QUIC.                                                                   *)

\* What the stack would send: the newest Chrome it knows, with its own
\* placeholder for a ticket.
StackSpec ==
    Layout(<<4865, 4866, 4867>>,
         <<SNI, Groups(<<4588, 29, 23, 24>>), Protocols(<<h3>>), Algorithms(OldAlgorithms),
           Plain(51), Plain(45), Versions(<<772>>), Plain(27), ALPS, Plain(57), Plain(65037),
           Plain(CA34), Plain(X12E0), Placeholder>>)

checkHTTP3Profile(n) ==
    n \in {"chrome_auto", "android_149", "chrome_152", "chrome_152_psk", "chrome_155",
           "chrome_156", "yandex_browser"}

quicShapes ==
    [n \in {"chrome_156", "chrome_155", "chrome_152", "yandex_browser"} |->
        CASE n = "chrome_156" -> <<CA34, X12E0>> [] n = "chrome_155" -> <<CA34>> [] OTHER -> <<>>]

\* The unregistered extensions that were measured, after the others, and the
\* placeholder last.
applyQUICShape(spec, shape) ==
    LET generic(e) == e.kind = "generic" /\ e.id \in {CA34, X12E0}
        offered == {spec.exts[i].id : i \in {j \in DOMAIN spec.exts : generic(spec.exts[j])}}
        kept == Sublist(spec.exts, {i \in DOMAIN spec.exts : ~generic(spec.exts[i])})
                \o PlainAll(Sublist(shape, {i \in DOMAIN shape : shape[i] \in offered}))
    IN [spec EXCEPT !.exts = Sublist(kept, {i \in DOMAIN kept : kept[i].kind # "psk"})
                             \o Sublist(kept, {i \in DOMAIN kept : kept[i].kind = "psk"})]

chromeQUICConfig(n) ==
    IF n \in DOMAIN quicShapes THEN applyQUICShape(StackSpec, quicShapes[n]) ELSE StackSpec

------------------------------------------------------------------------------
\* HelloFirefox_Auto of uTLS.
FirefoxPreset ==
    Layout(<<4865, 4867, 4866, 49195, 49199, 52393, 52392, 49196, 49200, 49162, 49161, 49171, 49172,
           156, 157, 47, 53>>,
         <<SNI, Plain(23), Plain(65281), Groups(<<29, 23, 24, 25>>), Points, Plain(35),
           Protocols(<<h2, http11>>), Plain(5), Plain(34), Plain(51), Versions(<<772, 771>>),
           Algorithms(OldAlgorithms), Plain(45), Plain(28), Plain(65037)>>)

\* The handshake: uTLS builds the hello of an id, and without a ticket it
\* conceals its placeholder.
OnTheWire(spec, t) ==
    LET built == IF spec.exts = <<>> THEN FirefoxPreset ELSE spec
    IN [built EXCEPT !.exts = Sublist(@, {i \in DOMAIN @ : t \/ @[i].kind # "psk"})]

\* dialProfileTLS up to the hello, or the QUIC stack's.
Hello(n, p, t, g, order) ==
    LET conn == newUConn(n, g, order) IN
    CASE p = "quic" -> OnTheWire(chromeQUICConfig(n), t)
      [] p = "ws"   -> OnTheWire([conn EXCEPT !.exts = narrowALPN(@, <<http11>>)], t)
      [] p = "tcp"  -> OnTheWire(conn, t)

\* A connection of the client; the server may then send it a ticket.
Connect(g, order) ==
    /\ path = "quic" => checkHTTP3Profile(name)
    /\ hello' = Hello(name, path, ticket, g, order)
    /\ ticket' \in {ticket, TRUE}
    /\ UNCHANGED <<name, path>>

Pairs == {<<2570, 6682>>, <<60138, 64250>>}

Init ==
    /\ name \in Names /\ path \in {"tcp", "ws", "quic"}
    /\ ticket = FALSE
    /\ hello \in Strangers

Next == \E g \in Pairs : \E order \in Orders[Slots(name, g)] : Connect(g, order)

------------------------------------------------------------------------------
(* Properties.                                                             *)

Own == hello \notin Strangers

\* The pre_shared_key of a hello is its last extension, and there is only one.
PSKIsLast ==
    Own => \A i \in DOMAIN hello.exts : hello.exts[i].id = 41 => i = Len(hello.exts)

\* What the comment of shuffleExtensions says (spec152.go:137): no GREASE
\* extension floats in the middle of the list; pre_shared_key apart, the second
\* one is the last.
GREASEAtTheEnds ==
    Own => \A i \in DOMAIN hello.exts :
        hello.exts[i].kind = "grease" =>
            i \in {1, Cardinality({j \in DOMAIN hello.exts : hello.exts[j].id # 41})}

\* What the comment of DialWebSocket says (websocket.go:23): the ALPN list of
\* a WebSocket is narrowed to http/1.1.
UpgradesSpeakHTTP11 ==
    Own /\ path = "ws" => \A i \in DOMAIN hello.exts :
        hello.exts[i].kind = "alpn" => hello.exts[i].data.list = <<http11>>

==============================================================================
