----------------------------- MODULE MCTransport -----------------------------
\* Transport for TLC: at most Keep sockets are open at a time, and only one of
\* the clients is used for another host than Home.
EXTENDS Transport, TLC

CONSTANTS Keep, Home, Traveller

AnyCall == Permutations(Calls)
MCInit == Init /\ \A c \in Calls : host[c] = Home
MCNext ==
    /\ Next
    /\ open' <= Keep
    /\ \A c \in Calls : host'[c] = Home \/ client'[c] = Traveller
MCSpec == MCInit /\ [][MCNext]_vars

\* What an idle call was made with says nothing: Call sets it all anew.
Unused == [c \in Calls |-> IF pc[c] = "idle" THEN <<>> ELSE <<client[c], host[c], settled[c]>>]
View == <<speaksH2, h1Only, connVars, tickets, refused, pc, Unused, alpn, offered, sent>>

==============================================================================
