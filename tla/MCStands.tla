------------------------------ MODULE MCStands ------------------------------
\* Stands for TLC: who the clients are, and the hellos that strangers send.
EXTENDS Stands

\* A hello in one record, and in two of which the second is the shorter.
OneRecord == <<[type |-> HandshakeType, len |-> 9]>>
TwoRecords == <<[type |-> HandshakeType, len |-> 5], [type |-> HandshakeType, len |-> 4]>>
Cl(ip, port, wire, via, records) ==
    [ip |-> ip, port |-> port, wire |-> wire, via |-> via, records |-> records]

\* Two clients behind one address; a proxied and a direct one; a health check
\* of the proxy, and a hello of two records.
NoWire == Cl(1, 2, 3, "proxy", OneRecord)
ClientPairs ==
    { <<Cl(1, 1, 1, "proxy", OneRecord), NoWire>>,
      <<Cl(1, 1, 1, "proxy", OneRecord), Cl(2, 1, 1, "direct", OneRecord)>>,
      <<Cl(1, 2, 2, "local", OneRecord), Cl(2, 1, 1, "proxy", TwoRecords)>> }
SomeClients == UNION {{pair[1], pair[2]} : pair \in ClientPairs}

\* The first datagram of a hello may come twice.
FirstTwice == <<2, 1>>

OurNames == {"node_24", "max_app", "max_app_psk", "chrome_152", "chrome_152_psk", "chrome_155",
             "chrome_156", "yandex_browser", "chrome_auto", "firefox_auto"}

E(id, list) == [id |-> id, data |-> [short |-> FALSE, len |-> Len(list), list |-> list]]
E16(names) == E(16, names)
Saying(n, ext) == [ext EXCEPT !.data.len = n]
Short(id) == [id |-> id, data |-> Absent]
Many(n) == [i \in 1..n |-> 255 + i]
\* Hellos at the edges of a fingerprint: no extension; GREASE alone; counts of
\* 99 and 100; protocol names that are empty, of one byte, not of letters, and
\* repeated; versions out of the table; a GREASE look-alike (0x0A1A).  And some
\* that TLS forbids: lists that say less or more than they are, one without its
\* length, a tail.
Hosts == E(0, <<[type |-> 0, name |-> <<97>>], [type |-> 0, name |-> <<98>>]>>)
Odd ==
    { [version |-> v, ciphers |-> c, exts |-> e, tail |-> FALSE] :
        v \in {771, 768, 1},
        c \in { <<>>, <<2570>>, Many(99), Many(100), <<49195, 2586, 4865>> },
        e \in { <<>>, <<E(2570, <<>>)>>,
                <<E16(<< <<>> >>)>>, <<E16(<< <<104>> >>)>>, <<E16(<< <<1, 250>>, <<104, 50>> >>)>>,
                <<E16(<< <<104, 50>> >>), E16(<< <<50, 33>> >>)>>,
                <<E(43, <<2570, 771, 32536>>), E(10, <<29, 14906>>), Hosts, E(13, <<2052, 1027>>),
                  E(11, <<0, 1>>)>> } }
    \cup
    { [version |-> 771, ciphers |-> <<49195, 4865>>, exts |-> e, tail |-> t] :
        t \in BOOLEAN,
        e \in { <<E(10, <<29, 23>>)>>, <<Saying(1, E(10, <<29, 23>>)), Saying(0, E(11, <<0>>))>>,
                <<Saying(1, E(13, <<2052, 1027>>)), Saying(3, E(43, <<771, 772>>))>>,
                <<Saying(1, E(43, <<771, 772>>)), Saying(0, Hosts)>>,
                <<Saying(0, E16(<< <<104, 50>> >>))>>, <<Saying(1, E16(<< <<104, 50>>, <<104>> >>))>>,
                <<Short(16), Short(0)>>, <<Short(10)>>, <<E(13, <<2052>>), Short(13)>> } }

\* The extensions that move are turned by some places, reversed or not: each
\* meets each place.
Turns == [reverse : BOOLEAN, by : {0, 1, 2, 7, 13}]
Turned(S, turn) ==
    LET s == Places(30, S)    \* no hello has more extensions
        n == Len(s)
        from(k) == 1 + (((IF turn.reverse THEN n - k ELSE k) + turn.by) % n)
    IN [i \in S |-> s[from(CHOOSE k \in 1..n : s[k] = i)]]
\* The places of the extensions that move: between the two of GREASE, and the
\* unregistered ones after them.
AllSlots == {{}, 2..17, (2..17) \cup {19}, (2..17) \cup {19, 20}}
Rotations == [S \in AllSlots |-> {Turned(S, turn) : turn \in Turns}]

------------------------------------------------------------------------------
\* The second client of h3sniff never renames, and has a socket of its own or
\* shares that of the first, who renames only there.
MCInit ==
    /\ StandsInit
    /\ program = "fpd" => <<client[1], client[2]>> \in ClientPairs
    /\ program = "h3sniff" => addr[1] = 1 /\ ~renames[2] /\ (renames[1] => addr[2] = 1)

MCSpec == MCInit /\ [][StandsNext]_standsVars /\ StandsFairness

==============================================================================
