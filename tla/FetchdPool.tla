------------------------------ MODULE FetchdPool ------------------------------
(***************************************************************************)
(* The pool of fetchd (cmd/fetchd/main.go): clientFor makes one            *)
(* http.Client for each combination of settings, poolClient keeps the      *)
(* maxPooledClients made last, and handleFetch uses a client long after it *)
(* has left the lock, when the pool may have dropped it.                   *)
(*                                                                         *)
(* A client is its number in the order of making.  Of its transport, the   *)
(* HTTP/1.1 one of client.go, only the idle connections count: net/http    *)
(* keeps a connection for reuse when its response has been read, unless    *)
(* CloseIdleConnections was called since the last request began.  A client *)
(* of an Exact profile has the schemeRoundTripper of exact.go, which has   *)
(* no CloseIdleConnections: the call does not reach its transports.        *)
(*                                                                         *)
(* A text is a sequence of numbers, its bytes.  The text of a timeout is   *)
(* one of them: no other of its properties counts.                         *)
(***************************************************************************)
EXTENDS Integers, Sequences, FiniteSets

CONSTANTS
    Calls,       \* the handlers of /fetch
    Requests,    \* what they ask for: [profile, proxy, resolve, timeout]
    Exact,       \* the profiles whose hello is "chrome_exact"
    MaxPooled,   \* maxPooledClients
    MaxClients   \* bound: how many clients are made

ASSUME PoolAssumption ==
    MaxPooled \in Nat \ {0} /\ MaxClients \in Nat /\ Requests # {}

\* A resolve table maps hosts to addresses; a timeout is in whole seconds.
ASSUME RequestsAssumption ==
    \A r \in Requests :
        /\ r = [profile |-> r.profile, proxy |-> r.proxy,
                resolve |-> [h \in DOMAIN r.resolve |-> r.resolve[h]], timeout |-> r.timeout]
        /\ {r.profile, r.proxy} \subseteq Seq(Nat) /\ r.timeout \in Int
        /\ IsFiniteSet(DOMAIN r.resolve) /\ DOMAIN r.resolve \subseteq Seq(Nat)
        /\ \A h \in DOMAIN r.resolve : r.resolve[h] \in Seq(Nat)

VARIABLES
    clients,      \* the pool: cache key -> client
    clientOrder,  \* its keys, the oldest first
    made,         \* history: how many clients were made
    settings,     \* what each client was made with
    idle,         \* how many idle connections each client holds
    closing,      \* CloseIdleConnections was called and no request since
    pc,           \* where each handler is
    req,          \* the request it serves
    client        \* the client clientFor gave it

poolVars == <<clients, clientOrder, made, settings>>
connVars == <<idle, closing>>
callVars == <<pc, req, client>>
vars == <<poolVars, connVars, callVars>>

------------------------------------------------------------------------------
(* The key of a client.                                                    *)

\* A timeout that is not positive is the default of 30 s.
Bound(r) == IF r.timeout > 0 THEN r.timeout ELSE 30

\* What a client for r is made with.
Wanted(r) == [r EXCEPT !.timeout = Bound(r)]

Bar == 124   \* "|"
Is == 61     \* "="
Comma == 44  \* ","

\* Some order of the elements of a set: which one does not count, it is always
\* the same.
sortStrings(S) ==
    CHOOSE s \in [1..Cardinality(S) -> S] : \A h \in S : \E i \in DOMAIN s : s[i] = h

\* The table as a text, in the order of the hosts.
ResolveKey(table) ==
    LET keys == sortStrings(DOMAIN table)
        text[n \in 0..Len(keys)] ==
            IF n = 0 THEN <<>>
            ELSE text[n - 1] \o (keys[n] \o <<Is>> \o table[keys[n]] \o <<Comma>>)
    IN text[Len(keys)]

\* Mutated form of CacheKey: the timeout is not part of the key.
CacheKeyNoTimeout(r) ==
    r.profile \o <<Bar>> \o r.proxy \o <<Bar>> \o ResolveKey(r.resolve)

\* The four parts with bars between them, none of them escaped.
CacheKey(r) ==
    r.profile \o <<Bar>> \o r.proxy \o <<Bar>> \o ResolveKey(r.resolve) \o <<Bar>> \o <<Bound(r)>>

\* The parts can be told apart in the key.  Nothing in the code sees to it.
Without(text, mark) == \A i \in DOMAIN text : text[i] # mark
NoSeparators ==
    \A r \in Requests :
        /\ Without(r.proxy, Bar)
        /\ \A h \in DOMAIN r.resolve :
             /\ Without(h, Comma) /\ Without(h, Bar)
             /\ Without(r.resolve[h], Is) /\ Without(r.resolve[h], Bar)

------------------------------------------------------------------------------
TypeOK ==
    /\ made \in 0..MaxClients
    /\ settings \in [1..made -> {Wanted(r) : r \in Requests}]
    /\ clientOrder \in Seq(DOMAIN clients)
    /\ \A k \in DOMAIN clients : clients[k] \in 1..made
    /\ idle \in [1..made -> Nat]
    /\ closing \in [1..made -> BOOLEAN]
    /\ pc \in [Calls -> {"idle", "have", "busy"}]
    /\ req \in [Calls -> Requests]
    /\ client \in [Calls -> 0..made]

Init ==
    /\ clients = [k \in {} |-> 0]
    /\ clientOrder = <<>>
    /\ made = 0
    /\ settings = <<>>
    /\ idle = <<>>
    /\ closing = <<>>
    /\ pc = [c \in Calls |-> "idle"]
    /\ req = [c \in Calls |-> CHOOSE r \in Requests : TRUE]
    /\ client = [c \in Calls |-> 0]

------------------------------------------------------------------------------
\* Mutated form of PoolClient: the pool drops the client it has just made.
PoolNewestOut(key) ==
    LET order == Append(clientOrder, key)
        full == Len(order) > MaxPooled
    IN  /\ clientOrder' = IF full THEN clientOrder ELSE order
        /\ clients' = IF full THEN clients
                      ELSE [k \in DOMAIN clients \cup {key} |->
                              IF k = key THEN made + 1 ELSE clients[k]]
        /\ closing' = Append(closing, full)
        /\ idle' = Append(idle, 0)

\* Mutated form of Closable: the round tripper does not pass the call on.
NeverClosable(i) == FALSE

\* http.Client.CloseIdleConnections of client i does something.
Closable(i) == settings[i].profile \notin Exact

\* poolClient of a new key: the client just made is the last of the order, and
\* the first one goes when there are too many.  The pool grows by one at a
\* time, so the loop of the code goes round once, and the key it drops is one
\* of the pool.  CloseIdleConnections of the dropped client is part of it.
PoolClient(key) ==
    LET order == Append(clientOrder, key)
        full == Len(order) > MaxPooled
        oldest == Head(order)
        kept == IF full THEN (DOMAIN clients \cup {key}) \ {oldest}
                        ELSE DOMAIN clients \cup {key}
        dropped == IF full THEN clients[oldest] ELSE 0
        closed == IF full /\ Closable(dropped) THEN dropped ELSE 0
    IN  /\ clientOrder' = IF full THEN Tail(order) ELSE order
        /\ clients' = [k \in kept |-> IF k = key THEN made + 1 ELSE clients[k]]
        /\ closing' = [i \in 1..(made + 1) |-> IF i = closed THEN TRUE
                                                ELSE i # made + 1 /\ closing[i]]
        /\ idle' = [i \in 1..(made + 1) |-> IF i \in {closed, made + 1} THEN 0 ELSE idle[i]]

\* handleFetch up to clientFor, which holds mu throughout: the client of the
\* pool, or a new one.
Hit(c, r) ==
    /\ pc[c] = "idle"
    /\ CacheKey(r) \in DOMAIN clients
    /\ client' = [client EXCEPT ![c] = clients[CacheKey(r)]]
    /\ req' = [req EXCEPT ![c] = r]
    /\ pc' = [pc EXCEPT ![c] = "have"]
    /\ UNCHANGED <<poolVars, connVars>>

\* The profile is loaded and a client made with it, the proxy, the table and the
\* timeout; a profile that cannot be loaded, or not used, ends the call and leaves everything as it was.
Miss(c, r) ==
    /\ pc[c] = "idle"
    /\ made < MaxClients
    /\ CacheKey(r) \notin DOMAIN clients
    /\ made' = made + 1
    /\ settings' = Append(settings, Wanted(r))
    /\ PoolClient(CacheKey(r))
    /\ client' = [client EXCEPT ![c] = made + 1]
    /\ req' = [req EXCEPT ![c] = r]
    /\ pc' = [pc EXCEPT ![c] = "have"]

------------------------------------------------------------------------------
\* client.Do: an idle connection is used again or a new one dialed; either way
\* the transport stops closing the connections that become idle.
Do(c) ==
    /\ pc[c] = "have"
    /\ closing' = [closing EXCEPT ![client[c]] = FALSE]
    /\ idle' = [idle EXCEPT ![client[c]] = IF @ > 0 THEN @ - 1 ELSE 0]
    /\ pc' = [pc EXCEPT ![c] = "busy"]
    /\ UNCHANGED <<poolVars, req, client>>

\* The response is read and its body closed: the connection is kept, unless
\* the client is closing or the connection is of no more use.
Done(c) ==
    /\ pc[c] = "busy"
    /\ \/ ~closing[client[c]] /\ idle' = [idle EXCEPT ![client[c]] = @ + 1]
       \/ UNCHANGED idle
    /\ pc' = [pc EXCEPT ![c] = "idle"]
    /\ client' = [client EXCEPT ![c] = 0]
    /\ UNCHANGED <<poolVars, closing, req>>

\* Mutated form of IdleConnTimeout: connections are kept for ever.
NoIdleTimeout(i) == FALSE /\ UNCHANGED vars

\* A connection has been idle for 90 s.
IdleConnTimeout(i) ==
    /\ i <= made
    /\ idle[i] > 0
    /\ idle' = [idle EXCEPT ![i] = @ - 1]
    /\ UNCHANGED <<poolVars, closing, callVars>>

Next ==
    \/ \E c \in Calls : \E r \in Requests : Hit(c, r) \/ Miss(c, r)
    \/ \E c \in Calls : Do(c) \/ Done(c)
    \/ \E i \in 1..MaxClients : IdleConnTimeout(i)

Spec == Init /\ [][Next]_vars

\* A call runs to its end, which its client's timeout sees to, and time passes.
FairSpec ==
    /\ Spec
    /\ \A c \in Calls : WF_vars(Do(c) \/ Done(c))
    /\ \A i \in 1..MaxClients : WF_vars(IdleConnTimeout(i))

------------------------------------------------------------------------------
(* Properties.                                                             *)

\* The pool is the last MaxPooled clients made, in the order of making: none
\* is forgotten in the map, dropped early or dropped twice.
PoolIsLatest ==
    /\ Len(clientOrder) = (IF made < MaxPooled THEN made ELSE MaxPooled)
    /\ DOMAIN clients = {clientOrder[j] : j \in 1..Len(clientOrder)}
    /\ \A j \in 1..Len(clientOrder) :
         clients[clientOrder[j]] = made - Len(clientOrder) + j

\* A call runs with the settings it asked for, its timeout included, whatever
\* the calls before it asked for (main.go:108-114): the text of the key tells
\* requests apart, a default that is written out and one that is not excepted.
OwnSettings == \A c \in Calls : pc[c] # "idle" => settings[client[c]] = Wanted(req[c])

Dropped(i) == i <= made /\ i \notin {clients[k] : k \in DOMAIN clients}

\* A client leaves the pool without its idle connections (main.go:104).
DropCloses ==
    [][\A i \in DOMAIN idle : ~Dropped(i) /\ Dropped(i)' => idle'[i] = 0]_vars

InUse(i) == \E c \in Calls : pc[c] # "idle" /\ client[c] = i
LetGo(i) == i <= made /\ idle[i] = 0 /\ ~InUse(i)

\* A client that was dropped from the pool and is not in use ends up without
\* connections, also when a call was about to use it as it was dropped.
DroppedLetsGo ==
    \A i \in 1..MaxClients : Dropped(i) ~> LetGo(i)

------------------------------------------------------------------------------
(* What the documentation says, which the code does not do.                *)

\* cmd/fetchd/main.go:78-81: with the bound the daemon does not hold "one
\* client — its connections and its goroutines" for every profile it ever
\* saw, but those of the pool.
OnlyPooledHold ==
    \A i \in 1..made : Dropped(i) /\ ~InUse(i) => idle[i] = 0

\* cmd/fetchd/main.go:108-109: there is one client for each "(profile, proxy,
\* resolve, timeout) tuple".  Where a field has a separator in it two tuples may
\* share a key, and the later call the client of the earlier one: the tables
\* a -> "1", b -> "2" and a -> "1,b=2" have the same text.
OneClientPerTuple ==
    \A r, s \in Requests : CacheKey(r) = CacheKey(s) => Wanted(r) = Wanted(s)

==============================================================================
