------------------------------ MODULE MCTunnels ------------------------------
\* Tunnels for TLC: how much each side sends, and the targets.
EXTENDS Tunnels

\* Two chunks of a ClientHello and two after them.
Exchange == [up |-> 4, down |-> 2]
\* 26 bytes hold the exchange of an IPv6 address, the longest, and two more.
Bytes == [up |-> 2, down |-> 26]

\* Hosts at the limits of the length, of bytes that can be taken for a length
\* or a port, and ports at the limits of their bytes.
Of(n, b) == [i \in 1..n |-> b]
SomeHosts == {Of(n, b) : n \in {0, 1, 2, 5, 254, 255, 256, 257, 300}, b \in {0, 3, 97, 255}}
SomePorts == {-1, 0, 1, 80, 255, 256, 443, 32768, 65535, 65536}

==============================================================================
