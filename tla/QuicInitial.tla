----------------------------- MODULE QuicInitial -----------------------------
(***************************************************************************)
(* The decoders of internal/quicwire: variable-length integers, the CRYPTO *)
(* frames of a QUIC Initial, the ClientHello put together from them and    *)
(* the SETTINGS of HTTP/3.  Bytes are numbers, a slice is a sequence.      *)
(*                                                                         *)
(* Keys and header protection are reduced to what they are for: a payload  *)
(* comes out of a datagram only under the keys it was sealed with.  Every  *)
(* integer here fits TLC's; the code masks those of eight bytes to 62.     *)
(***************************************************************************)
EXTENDS Integers, Sequences, FiniteSets, SequencesExt

NoVarint == [ok |-> FALSE, value |-> 0, size |-> 0]

Then(v, x) == v * 256 + x

\* The two high bits of the first byte say how many bytes there are.
ReadVarint(b) ==
    LET size == IF b[1] < 64 THEN 1 ELSE IF b[1] < 128 THEN 2 ELSE IF b[1] < 192 THEN 4 ELSE 8
        two == Then(b[1] % 64, b[2])
        four == Then(Then(two, b[3]), b[4])
        eight == Then(Then(Then(Then(four, b[5]), b[6]), b[7]), b[8])
    IN IF b = <<>> \/ Len(b) < size THEN NoVarint
       ELSE [ok |-> TRUE, size |-> size,
             value |-> CASE size = 1 -> b[1] [] size = 2 -> two [] size = 4 -> four [] size = 8 -> eight]

From(b, i) == SubSeq(b, i, Len(b))

\* As many bytes of b as the length says: where they end.
Block(b, id, length, start) ==
    LET next == start + length.value
        ok == id.ok /\ length.ok /\ next <= Len(b) + 1
    IN [ok |-> ok, id |-> id.value, next |-> next,
        data |-> IF ok THEN SubSeq(b, start, next - 1) ELSE <<>>]

\* A varint, a length and as many bytes, from position i on.
Field(b, i) ==
    LET id == ReadVarint(From(b, i))
        length == ReadVarint(From(b, i + id.size))
    IN Block(b, id, length, i + id.size + length.size)

------------------------------------------------------------------------------
\* A datagram is [dcid, keys, payload]; its payload opens under its own keys.
DestinationConnectionID(datagram) == datagram.dcid

InitialPayload(datagram, keys) == IF keys = datagram.keys THEN datagram.payload ELSE <<>>

\* What is taken at position i of a payload, and where to go on: a CRYPTO frame,
\* or nothing of PADDING, of PING and of every other frame, which is taken to be
\* a length and its bytes.
FrameAt(payload, i) ==
    LET type == ReadVarint(From(payload, i))
        crypto == Field(payload, i + type.size)
        other == Field(payload, i)
    IN CASE ~type.ok -> [ok |-> FALSE, found |-> <<>>, next |-> i]
         [] type.ok /\ type.value \in {0, 1} -> [ok |-> TRUE, found |-> <<>>, next |-> i + type.size]
         [] type.ok /\ type.value = 6 /\ crypto.ok ->
              [ok |-> TRUE, found |-> <<[offset |-> crypto.id, data |-> crypto.data]>>,
               next |-> crypto.next]
         [] type.ok /\ type.value = 6 /\ ~crypto.ok -> [ok |-> FALSE, found |-> <<>>, next |-> i]
         [] OTHER -> [ok |-> other.ok, found |-> <<>>, next |-> other.next]

\* What is found here and from there on, up to what cannot be read.
Onward(here, rest) == IF here.ok THEN here.found \o rest[here.next] ELSE here.found

cryptoFrames(payload) ==
    LET rest[i \in 1..Len(payload) + 1] == Onward(FrameAt(payload, i), rest)
    IN rest[1]

NoHello == <<>>

\* The fragments are laid into a stream of zeros as long as the farthest of
\* them reaches.
ClientHelloMessage(frames) ==
    LET size == Max({0} \cup {o + Len(frames[o]) : o \in DOMAIN frames})
        byte(i) == LET over == {o \in DOMAIN frames : o < i /\ i <= o + Len(frames[o])}
                   IN IF over = {} THEN 0 ELSE LET o == Min(over) IN frames[o][i - o]
        length == byte(2) * 65536 + byte(3) * 256 + byte(4)
    IN IF size < 4 \/ size < 4 + length THEN NoHello ELSE [i \in 1..4 + length |-> byte(i)]

NewConnection == [keyDCID |-> <<>>, crypto |-> [o \in {} |-> <<>>], hello |-> NoHello]

\* The fragments of a connection with those of more frames: at an offset, the last.
Fragments(before, frames) ==
    LET at(o) == {i \in DOMAIN frames : frames[i].offset = o}
    IN [o \in DOMAIN before \cup {frames[i].offset : i \in DOMAIN frames} |->
          IF at(o) = {} THEN before[o] ELSE frames[Max(at(o))].data]

\* The hello is put together anew from all the fragments.
Gathered(conn, keys, crypto) ==
    LET msg == ClientHelloMessage(crypto)
    IN [keyDCID |-> keys, crypto |-> crypto, hello |-> IF msg = NoHello THEN conn.hello ELSE msg]

\* The keys are those of the first destination id.
Keys(conn, datagram) == IF conn.keyDCID = <<>> THEN datagram.dcid ELSE conn.keyDCID

\* AddInitial says whether the datagram was one of the connection.
Opens(conn, datagram) == InitialPayload(datagram, Keys(conn, datagram)) # <<>>

\* Mutated form of AddInitial: the fragments of a datagram replace those before.
AddInitialAnew(conn, datagram) ==
    IF Opens(conn, datagram)
      THEN Gathered(conn, Keys(conn, datagram),
                    Fragments(NewConnection.crypto,
                              cryptoFrames(InitialPayload(datagram, Keys(conn, datagram)))))
      ELSE [conn EXCEPT !.keyDCID = Keys(conn, datagram)]

AddInitial(conn, datagram) ==
    IF Opens(conn, datagram)
      THEN Gathered(conn, Keys(conn, datagram),
                    Fragments(conn.crypto, cryptoFrames(InitialPayload(datagram, Keys(conn, datagram)))))
      ELSE [conn EXCEPT !.keyDCID = Keys(conn, datagram)]

------------------------------------------------------------------------------
NoSettings == [ok |-> FALSE, pairs |-> <<>>]

Cut == <<>>    \* in place of a pair: what cannot be read

\* The pair at position i of the bytes b, and where to go on.
PairAt(b, i) ==
    LET id == ReadVarint(From(b, i))
        value == ReadVarint(From(b, i + id.size))
    IN IF i > Len(b) THEN [ok |-> FALSE, found |-> <<>>, next |-> i]
       ELSE IF id.ok /\ value.ok
         THEN [ok |-> TRUE, found |-> << <<id.value, value.value>> >>, next |-> i + id.size + value.size]
       ELSE [ok |-> FALSE, found |-> <<Cut>>, next |-> i]

Pairs(b) ==
    LET rest[i \in 1..Len(b) + 1] == Onward(PairAt(b, i), rest)
    IN rest[1]

\* Mutated form of H3Settings: what has arrived of the frame is parsed.
H3SettingsEarly(raw) ==
    LET type == ReadVarint(raw)
        frame == ReadVarint(From(raw, 1 + type.size))
        length == ReadVarint(From(raw, 1 + type.size + frame.size))
        pairs == Pairs(From(raw, 1 + type.size + frame.size + length.size))
    IN IF ~type.ok \/ type.value # 0 \/ ~frame.ok \/ frame.value # 4 \/ ~length.ok THEN NoSettings
       ELSE [ok |-> TRUE, pairs |-> pairs]

\* A control stream, its SETTINGS frame first: complete, or more is needed.
H3Settings(raw) ==
    LET type == ReadVarint(raw)
        frame == Field(raw, 1 + type.size)
        pairs == Pairs(frame.data)
    IN IF \/ ~type.ok \/ type.value # 0
          \/ ~frame.ok \/ frame.id # 4
          \/ \E i \in DOMAIN pairs : pairs[i] = Cut
         THEN NoSettings ELSE [ok |-> TRUE, pairs |-> pairs]

==============================================================================
