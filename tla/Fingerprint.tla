----------------------------- MODULE Fingerprint -----------------------------
(***************************************************************************)
(* The fingerprints of a ClientHello in mimic/fingerprint.go, which says   *)
(* what a server computes for the hellos the library sends.                *)
(*                                                                         *)
(* A hello on the wire has a version, its cipher suites, its extensions,   *)
(* and perhaps a tail, too short for one extension more.  The data of an   *)
(* extension are a list behind the length that it says of itself: short    *)
(* when they end before that length does, list the elements that are       *)
(* there, len how many of them lie within the length.  A protocol name is  *)
(* the sequence of its bytes.  Four hex digits sort as the number they     *)
(* write, and a truncated hash is taken to be the text it is the hash of.  *)
(* A sorted list says how often it has each number, and no more.           *)
(***************************************************************************)
EXTENDS Integers, Sequences, FiniteSets, SequencesExt, Sublist

ServerName == 0
SupportedGroups == 10
PointFormats == 11
SignatureAlgorithms == 13
ALPN == 16
SupportedVersions == 43

isGREASE(v) == v % 16 = 10 /\ (v \div 256) % 16 = 10

stripGREASE(s) == Sublist(s, {i \in DOMAIN s : ~isGREASE(s[i])})

Sorted(s) == [v \in ToSet(s) |-> Cardinality({i \in DOMAIN s : s[i] = v})]

\* The last extension of an id is the one that counts: each overwrites the
\* field of the one before it.  All that is there is read, whatever the length
\* in front of it says.
ListOf(wire, id) ==
    LET at == {i \in DOMAIN wire.exts : wire.exts[i].id = id}
    IN IF at = {} THEN <<>> ELSE wire.exts[Max(at)].data.list

Ids(wire) == [i \in DOMAIN wire.exts |-> wire.exts[i].id]

\* The name of the first entry, whatever its type.
parseSNI(list) == IF list = <<>> THEN <<>> ELSE list[1].name

\* No hello: the error for a tail; a slice from behind the length of a list
\* that is too short for one ends the caller.
NoHello == [ok |-> FALSE]
Fails(wire) ==
    \/ wire.tail
    \/ \E i \in DOMAIN wire.exts :
         /\ wire.exts[i].id \in {SupportedGroups, PointFormats, SignatureAlgorithms, SupportedVersions}
         /\ wire.exts[i].data.short

Fields(wire) ==
    [ok       |-> TRUE,
     version  |-> wire.version,
     ciphers  |-> wire.ciphers,
     exts     |-> Ids(wire),
     sni      |-> parseSNI(ListOf(wire, ServerName)),
     groups   |-> ListOf(wire, SupportedGroups),
     pf       |-> ListOf(wire, PointFormats),
     sigalgs  |-> ListOf(wire, SignatureAlgorithms),
     alpn     |-> ListOf(wire, ALPN),
     versions |-> ListOf(wire, SupportedVersions)]

ParseClientHello(wire) == IF Fails(wire) THEN NoHello ELSE Fields(wire)

------------------------------------------------------------------------------
\* The lists that JA3 writes one after the other.
JA3(c) ==
    << <<c.version>>, stripGREASE(c.ciphers), stripGREASE(c.exts),
       stripGREASE(c.groups), stripGREASE(c.pf) >>

tlsVersionTokens ==
    [v \in {772, 771, 770, 769, 768, 2, 65279, 65277, 65276} |->
        CASE v = 772 -> "13" [] v = 771 -> "12" [] v = 770 -> "11" [] v = 769 -> "10"
          [] v = 768 -> "s3" [] v = 2 -> "s2"
          [] v = 65279 -> "d1" [] v = 65277 -> "d2" [] v = 65276 -> "d3"]

\* The highest version that is offered, or the legacy field without the list.
ja4VersionToken(c) ==
    LET supported == stripGREASE(c.versions)
        best == IF supported = <<>> THEN c.version ELSE Max(ToSet(supported))
    IN IF best \in DOMAIN tlsVersionTokens THEN tlsVersionTokens[best] ELSE "00"

ja4SNIToken(c) == IF c.sni = <<>> THEN "i" ELSE "d"

AlphaNumeric(b) == b \in 48..57 \/ b \in 65..90 \/ b \in 97..122
HexDigit(d) == IF d < 10 THEN 48 + d ELSE 87 + d

\* Two characters of the first protocol, or of its bytes in hex.
ja4ALPNToken(c) ==
    IF c.alpn = <<>> \/ c.alpn[1] = <<>> THEN <<48, 48>>
    ELSE LET first == c.alpn[1][1]
             last == c.alpn[1][Len(c.alpn[1])]
         IN IF Len(c.alpn[1]) = 1 \/ (AlphaNumeric(first) /\ AlphaNumeric(last))
              THEN <<first, last>>
              ELSE <<HexDigit(first \div 16), HexDigit(last % 16)>>

ja4B(c) == Sorted(stripGREASE(c.ciphers))

\* The server name and ALPN are in the first part; the signature algorithms
\* keep their order.
ja4C(c) ==
    LET ids == stripGREASE(c.exts) IN
    << Sorted(Sublist(ids, {i \in DOMAIN ids : ids[i] # ServerName /\ ids[i] # ALPN})),
       stripGREASE(c.sigalgs) >>

\* Two digits.
pad2(n) == IF n > 99 THEN 99 ELSE n

ja4A(c, protocol) ==
    <<protocol, ja4VersionToken(c), ja4SNIToken(c), pad2(Len(stripGREASE(c.ciphers))),
      pad2(Len(stripGREASE(c.exts))), ja4ALPNToken(c)>>

JA4(c) == <<ja4A(c, "t"), ja4B(c), ja4C(c)>>

JA4QUIC(c) == <<ja4A(c, "q"), ja4B(c), ja4C(c)>>

\* JA4_r keeps the order of the wire, the server name and ALPN.
JA4R(c) ==
    <<ja4A(c, "t"), stripGREASE(c.ciphers), <<stripGREASE(c.exts), stripGREASE(c.sigalgs)>> >>

==============================================================================
