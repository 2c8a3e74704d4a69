------------------------------- MODULE FpdHello -------------------------------
(***************************************************************************)
(* The ClientHello as cmd/fpd sees it: the records it takes off a          *)
(* connection, what it replays of them to the TLS server, and the          *)
(* fingerprints of hello.go and ja34.go, which were written before those   *)
(* of the library.  Hellos on the wire are those of Fingerprint.           *)
(***************************************************************************)
EXTENDS Integers, Sequences, FiniteSets, SequencesExt, Sublist

------------------------------------------------------------------------------
(* Records.  A record is its type and its length; size is what the header  *)
(* of the handshake message says of the length of its body.                *)

HandshakeType == 22
NoHello == [head |-> 0, body |-> 0]    \* the error

BytesOf(records, k) == FoldFunctionOnSet(LAMBDA r, n : r.len + n, 0, records, 1..k)

\* The records needed for the whole message: it may span several.
Needed(records, size) == {k \in DOMAIN records : BytesOf(records, k) >= 4 + size}

\* The header of the last record that was read, and the message.
readHelloRecords(records, size) ==
    IF Needed(records, size) = {} THEN NoHello
    ELSE LET last == Min(Needed(records, size)) IN
         IF \E i \in 1..last : records[i].type # HandshakeType \/ records[i].len < 4 THEN NoHello
         ELSE [head |-> records[last].len, body |-> 4 + size]

\* A TLS server takes as many bytes for the message as the record's header says.
ServerReads(replay) == replay # NoHello /\ replay.head = replay.body

------------------------------------------------------------------------------
(* The fields.                                                             *)

isGREASE(v) == v % 16 = 10 /\ (v \div 256) % 16 = 10
stripGREASE(s) == Sublist(s, {i \in DOMAIN s : ~isGREASE(s[i])})
Sorted(s) == [v \in ToSet(s) |-> Cardinality({i \in DOMAIN s : s[i] = v})]
extIDs(wire) == [i \in DOMAIN wire.exts |-> wire.exts[i].id]

Absent == [short |-> TRUE, len |-> 0, list |-> <<>>]
Field(wire, id) ==
    LET at == {i \in DOMAIN wire.exts : wire.exts[i].id = id}
    IN IF at = {} THEN Absent ELSE wire.exts[Max(at)].data

\* parseList16, parseList8 and parseList8of16: what lies within the length that
\* a list says of itself, and nothing of one without it.
parseList(data) ==
    IF data.short THEN <<>>
    ELSE IF data.len < Len(data.list) THEN SubSeq(data.list, 1, data.len) ELSE data.list

\* The name of the first entry that is a host name; the length is not looked at.
parseSNI(data) ==
    LET hosts == {i \in DOMAIN data.list : data.list[i].type = 0}
    IN IF hosts = {} THEN <<>> ELSE data.list[Min(hosts)].name

\* The names before the first empty one.
parseALPN(data) ==
    LET names == parseList(data)
        empty == {i \in DOMAIN names : names[i] = <<>>}
    IN IF empty = {} THEN names ELSE SubSeq(names, 1, Min(empty) - 1)

\* Of a tail the loop over the extensions takes no notice.
parseClientHelloRecord(wire) ==
    [version |-> wire.version, ciphers |-> wire.ciphers, ids |-> extIDs(wire),
     sni |-> parseSNI(Field(wire, 0)), groups |-> parseList(Field(wire, 10)),
     pf |-> parseList(Field(wire, 11)), sigalgs |-> parseList(Field(wire, 13)),
     alpn |-> parseALPN(Field(wire, 16)), versions |-> parseList(Field(wire, 43))]

------------------------------------------------------------------------------
(* The fingerprints.                                                       *)

computeJA3(ch) ==
    << <<ch.version>>, stripGREASE(ch.ciphers), stripGREASE(ch.ids), stripGREASE(ch.groups),
       stripGREASE(ch.pf) >>

tlsVersionTokens ==
    [v \in {772, 771, 770, 769, 768, 2, 65279, 65277, 65276} |->
        CASE v = 772 -> "13" [] v = 771 -> "12" [] v = 770 -> "11" [] v = 769 -> "10"
          [] v = 768 -> "s3" [] v = 2 -> "s2"
          [] v = 65279 -> "d1" [] v = 65277 -> "d2" [] v = 65276 -> "d3"]

ja4VersionToken(ch) ==
    LET supported == Sublist(ch.versions, {i \in DOMAIN ch.versions : ~isGREASE(ch.versions[i])})
        best == IF supported = <<>> THEN ch.version ELSE Max(ToSet(supported))
    IN IF best \in DOMAIN tlsVersionTokens THEN tlsVersionTokens[best] ELSE "00"

ja4ALPNToken(ch) ==
    LET name == ch.alpn[1]
        ends == <<name[1], name[Len(name)]>>
        digit(d) == IF d < 10 THEN 48 + d ELSE 87 + d
    IN CASE ch.alpn = <<>> \/ name = <<>> -> <<48, 48>>
         [] ch.alpn # <<>> /\ Len(name) = 1 -> ends
         [] ch.alpn # <<>> /\ Len(name) > 1 ->
              IF ToSet(ends) \subseteq (48..57) \cup (65..90) \cup (97..122) THEN ends
              ELSE <<digit(ends[1] \div 16), digit(ends[2] % 16)>>

ja4B(ch) == Sorted(stripGREASE(ch.ciphers))

\* Mutated form of ja4C: GREASE ids are hashed with the others.
ja4CWithGREASE(ch) ==
    << Sorted(Sublist(ch.ids, {i \in DOMAIN ch.ids : ch.ids[i] # 0 /\ ch.ids[i] # 16})),
       stripGREASE(ch.sigalgs) >>

ja4C(ch) ==
    LET ids == stripGREASE(ch.ids) IN
    << Sorted(Sublist(ids, {i \in DOMAIN ids : ids[i] # 0 /\ ids[i] # 16})),
       stripGREASE(ch.sigalgs) >>

\* The part in clear, with the counts capped.
ja4a(ch) ==
    <<"t", ja4VersionToken(ch), IF ch.sni # <<>> THEN "d" ELSE "i",
      IF Len(stripGREASE(ch.ciphers)) > 99 THEN 99 ELSE Len(stripGREASE(ch.ciphers)),
      IF Len(stripGREASE(ch.ids)) > 99 THEN 99 ELSE Len(stripGREASE(ch.ids)),
      ja4ALPNToken(ch)>>

computeJA4(ch) == <<ja4a(ch), ja4B(ch), ja4C(ch)>>

ja4R(ch) ==
    <<ja4a(ch), stripGREASE(ch.ciphers), <<stripGREASE(ch.ids), stripGREASE(ch.sigalgs)>> >>

==============================================================================
