# site-mimic: a verification development

site-mimic sends HTTP and WebSocket traffic under the TLS and HTTP identity of
a real browser. It is a Go library (`mimic`), a set of daemons and tools built
on it (`cmd`), and clients for the daemons in Python and JavaScript. This
directory holds TLA+ models of the parts of it that have state, the TLC
configurations that check them, and TLAPS proofs about them. Every definition is
translated from the source; `PROJECT.json` maps each one to the lines it stands
for and lists the hazards, the runs, the theorems and the findings. Line numbers
below are those of the repository's files.

## The system

```
 gows.py, gohttp.py, js/src           tcp clients behind a firewall
        |  HTTP on 127.0.0.1             |                    |
        v                                v                    v
   wsd     fetchd                    hello-tap            tproxyfwd
        |    |                           |                    |  SOCKS5
        v    v                           v                    v
   mimic: New, NewWebSocket          the server           a local proxy
        |  uTLS, h2 fork, net/http
        v
     the site
```

| component | state | operations | what is hard |
|---|---|---|---|
| wsd, one connection (`cmd/wsd/main.go:95-140, 261-373`) | `queue`, `closed`, `waiters`, `writeMu` | `readLoop`, recv (long poll), send, DELETE | handlers of several clients and the read goroutine meet on one mutex and one wake-up channel; clients that leave; the end of the upstream |
| wsd, registry and process (`cmd/wsd/main.go:61-94, 160-260`) | `conns`, `created`, `nextID` | dial, lookup, delete, `reap`, start, death | ids start again with the process; nothing calls `reap` |
| `gows.py` | `conn_id` of a handle, `_DAEMON_SPAWN_LOCK` | `connect`, `send`, `recv`, `close`, `ensure_daemon` | probe, spawn, request and replay against a daemon that may die between any two of them |
| JavaScript client (`js/src`) | `pendingStart`, the spawner | `request`, `fetch`, `ensureDaemon`, `callFetch` | calls interleave at every await; a deadline races its answer; a shared promise |
| fetchd (`cmd/fetchd/main.go`) | `clients`, `clientOrder` | `/fetch`, `clientFor`, `poolClient` | a client is used after the lock, when the pool may have dropped it; the key of the pool is a text put together from fields |
| client transport (`mimic/client.go`) | `h1Only`, the transports' connections | `RoundTrip`, `dialProfileTLS`, CONNECT | a second try on another transport; the mark of a host stays for ever; sockets on failed dials |
| session tickets (`mimic/resumption.go`) | `clientSessionCache`, `sessionCaches` | Get, Put | shared by all clients of a process; bounded; a ticket must not cross identities |
| hello-tap (`cmd/hello-tap/main.go`) | per connection: deadline, bytes read ahead | CONNECT or transparent, read the hello, record, relay | what was read ahead must be forwarded; deadlines outlive their phase; peers that fail or do not read |
| tproxyfwd (`cmd/tproxyfwd`) | per connection | original destination, SOCKS5, relay | framing of the proxy's answer; who ends the relay, and what the other copier holds then; peers that fail or do not read |
| header-order transport (`mimic/http1.go`) | one connection per call | `RoundTrip`, `wireBody` | deadline and cancellation of a call whose server stalls |
| WebSocket dial (`mimic/websocket.go`) | none of its own | dial, upgrade, narrowing of the hello | closing what was opened; an earlier deadline must come off |
| resource plan (`mimic/plan.go`) | `PageCache`, the walk's open document | `RunPlanSession` | sessions that share a cache; an answer is stored long after it was asked for |
| ClientHello specs (`mimic/spec*.go`, `resumption.go`, `quic_shape.go`) | none | build, shuffle, conceal, narrow, reshape | five functions in turn rearrange one list with fixed places |
| fingerprints (`mimic/fingerprint.go`, `cmd/fpd/hello.go`, `ja34.go`) | none | JA3, JA4, JA4_r, JA4 of QUIC | two pieces of code for the same numbers |
| fpd (`cmd/fpd`) | `metaStore`, the sniffer's `flows`, the recent reports | accept, read the hello, hand over, sniff, look up, report | a connection, its packets and its report are joined by address and time, and an entry is read after its lock is gone |
| h3sniff (`cmd/h3sniff`) and `internal/quicwire` | hellos by address, one goroutine's channels per connection | observe, accept, SETTINGS, report, answer | hellos in pieces over datagrams in any order, of clients that share a socket; a map that is written under a lock and printed without it |
| gateway example (`examples/zai-start-gateway`) | the last token file, one outcome per request | `/forward`, `awaitResponseHeaders` | the answer, the header timer and two contexts race, and one side must close the body |
| HTTP/3 client, exact HTTP/2, profiles, cookie file | none that lasts | one call into a fork, one file read | nothing of their own but what `HelloSpec`, `FetchdPool` and `PagePlan` take from them |
| `gohttp.py` | as `gows.py` | an adapter of requests over fetchd | as `gows.py` |
| other examples, probes, tools | none that lasts | one-shot programs, scripts | nothing |

What makes each modelled part correct is the list of properties in "What the
runs check".

## The modules

### WsdConn and FrameStream: one connection of wsd

`WsdConn` is a connection after `handleDial` has listed it: the upstream, the
goroutine of `readLoop`, and the handlers of recv, send and DELETE. A critical
section of `c.mu` or `d.mu` is one action (nothing blocks inside one); what the
code does between two of them is an action of its own, so every interleaving of
the handlers is there. `readLoop` is `ReadMessage`/`ReadError` (outside the lock)
and `StoreFrame`/`StoreError` (inside it, with `notify`). `handleRecv` is
`RecvLookup`, one of `RecvPop`, `RecvClosed`, `RecvRegister` under the lock, the
three cases of its `select`, and `RecvReply`, which discards the write's error as
the code does. The channel in `c.waiters` is the set of the calls that hold it.
`WriteMessage` is two fragments under `writeMu`; `WriteControl` does not take it.

`FrameStream` is what `GET /conn/{id}/recv` promises with no lock or channel in
sight. `WsdConn` implements it under the mapping at the end of the module: the
stream is the queue, and a call is idle, waiting or answered.

### WsdSession: the daemon, its restarts and gows.py

Handles are `WsConnection` objects; a call is probe, `ensure_daemon` (probe,
spawn, poll), request, handler, answer, and the second try. `Crash` kills the
daemon with its registry, `Boot` is a spawned process that binds the port or
finds it taken. A connection is reduced to who dialed it: `WsdConn` has the rest.
`Broken` is a request whose answer does not come: the daemon died, or the client's
own timeout (`gows.py:171`) passed while the daemon's handler goes on. `handleSend`
has no deadline and watches no context (`cmd/wsd/main.go:275-287`), and the context of
a dial may end when it is too late (194-215); so `LateDial` and `LateConn` run such a
handler when the caller has long been told that the call failed, and a dial given
up can leave a connection whose id nobody has. `late` is what handlers have yet to do
for calls that were given up, `acted` what they have done.

`Delivery` is what a client of a daemon promises of a call with no probe, spawn or
replay in sight: it is carried out as often as it was allowed to when it began,
counted over the whole life of the call and of the handlers it left behind, and
success is only told of one that was carried out. `WsdSession` implements it with
one time allowed.

### JsClient: js/src

The calls of one process and the attempts of `ensureDaemon`. Settling an attempt,
clearing `pendingStart` and resuming its callers is one step, as promise callbacks
run before anything else. The daemon may die, be spawned by this or another
process, or be restarted by a host's own spawner; `Abort` is the deadline of
`fetchText`. The daemon does not watch its request's context, so `LateHandle` may
carry the request out at any time after it; `late` has those still to come.
`JsClient` implements `Delivery` with two times allowed to a call that supervises its daemon, and one to
a call that does not.

### FetchdPool: fetchd

`Hit` and `Miss` are `clientFor` under its lock, with all of `poolClient`; `Do`
and `Done` use the client after it. Of the client's transport only the idle
connections and net/http's rule for keeping them are modelled. A request has its
fields as byte texts and a table of hosts, and `CacheKey` puts them together as
`cmd/fetchd/main.go:115-129` does, with bars, commas and equals signs between them
and nothing escaped. That two requests do not share a key by accident is therefore a
hypothesis, `NoSeparators`: no field has in it the mark that ends it.

### Transport: mimic.New and the ticket store

`Route`, `FallBack` and the two transports' `Reuse` are `RoundTrip`; `DialStart`,
`HandshakeFails`, `NotH2`, `Connected` are `dialProfileTLS`, with its early
returns and the socket each has to close. `resumptionScope` and `TicketKey` are
`resumption.go`; the store's LRU may evict any ticket, which covers every order
of use. Servers may change the protocol they pick at any time (`ServerChanges`):
a name is often served by several machines. What the transports of net/http and
of the HTTP/2 fork do with a connection is external and kept to the exchange of
one request; their own replays on stale idle connections are left out, so
`SentOnce` is about `RoundTrip`'s second try only.

### Relay, HelloTap, Tproxyfwd: the two tunnels

`Relay` is the end of both handlers: two copiers, the first of which to finish
makes the handler return and close both sockets, whatever the other one holds. A
copier ends at the end of its source (`CopyEnds`) or with an error of either socket
(`CopyFails`), and in `tproxyfwd` it half-closes its destination after both. A write
waits until the peer has `room` for it, and a peer may never read (`PeerReads`).
`HelloTap` composes it with the
CONNECT and transparent modes and the reading of the ClientHello; `Tproxyfwd`
with the SOCKS5 exchange, in bytes, because its framing is what can go wrong.
`Tunnels` instantiates both over one set of relay variables.

### Socks5Request

`buildConnectRequest` with Go's truncation to bytes, checked against what a proxy
reads (RFC 1928), for hosts and ports at the limits of their bytes.

### WireCall: a call on a connection of its own, with a clock

`wireRoundTripper` under a program that asks once, or `DialWebSocket`: `Dialed`,
`Tunnelled`, `Handshaken` are the phases of `dialProfileTLS`, each with the
deadline it arms; `Written` sends the request and only then sets the deadline and
the watch of the context, as the code does; `Answered`, `Decoded`, `CloseBody` and
`Drained` are the two wrappers of a body. `left` and `life` are the ticks left of
the socket's deadline and of the context. The server and the proxy may stall in
every phase.

### Gateway: the race of the example gateway

`/forward`: the token file and the renewal of the session id (`Envelope`, `Token`),
the goroutine that calls upstream (`DoReturns`, `GiveUp`), the handler's select
(`Receive`, `TimedOut`, `SeesCancel`), the copy of the answer and the deferred
calls. The caller may leave at any time. The channel between the two has no
buffer, so an outcome has one owner.

### PagePlan: walks over one cache

`Ask` is a step's request with its `Sec-Fetch-*` headers and `applyValidators`;
`Answer` and `Receive` separate what the server says from when a session reads it;
`Store` is `PageCache.store`. The document a walk has open is a variable of the
walk, as `RunPlanSession` has it. Two histories serve the properties: `read`, the
answers in the order in which sessions read them, and `asOf`, how many had been
read when a session made its request.

### HelloSpec, Fingerprint, FpdHello: hellos and what they are known by

`HelloSpec` has every hello of the library as a list of extensions, with the
functions that rearrange it: `shuffleExtensions`, `withResumptionPSK`, the
concealment of the placeholder, `narrowALPN`, `applyQUICShape`. A placeholder that
has a ticket is sent, on QUIC too (`mimic/http3.go:149-152`). `Fingerprint` is
`mimic/fingerprint.go`; `FpdHello` is how fpd takes records off a connection and
its own JA3 and JA4. The data of an extension are a list behind a length: the
elements that are there, how many of them the length covers, and whether they are
too short for a length. The library takes all that is there, stops with an error at
a tail, and slices behind a length that may be missing, which ends its caller
(`fingerprint.go:110-178`); fpd takes what the length covers, nothing of what is too
short, and passes over a tail (`hello.go:111-235`). Hashes stand for what they are of, names are their bytes.
What `rand.Shuffle` draws is a permutation of the places that move (`Permutes`),
one of those `Orders` has for them; uTLS shuffles the preset of `chrome_auto` itself,
which has one order here, since no code of the repository sees another. `Sublist` is what a loop leaves that appends the
elements it keeps: both pieces of code strip GREASE so.

### FpdFront: fpd around its HTTP server

`Accept`, `Put`, `HandOver`, `ConnContext`, `Handshake`, `Close` follow a connection
through `metaStore`; `Record` and `Purge` are the sniffer's goroutines; `Request`,
`Lookup`, `ReadTTL`, `ReadSYN`, `Remember` build a report, with the reads of an
entry's fields as separate steps, because they happen after the unlock.

### QuicInitial and H3Sniff

`QuicInitial` decodes over bytes: variable-length integers, CRYPTO frames, the
buffer a hello is laid into, SETTINGS. `H3Sniff` puts
datagrams of several clients through it, in any order and repeated, and models
`handle` with its waits, its report and the requests it goes on answering. The
SETTINGS go into the map pair by pair under the lock (`Store`, 195-209); `Publish`
takes the map itself under the lock (274-277) and `Marshal` prints it without
(590): what it holds by then, unless Go sees it iterated and written at once and
ends the program (`Dies`). `late` is the line of the log that says that there were
no SETTINGS in time.

### Tunnels, Callers, Stands: the compositions

A behaviour of each is one of several programs, chosen in its first state; the
variables of the others keep their first values. This is union, not product: a
run explores each program in full and no interleaving of two that share nothing.
`Tunnels` has hello-tap, tproxyfwd and the building of a CONNECT request;
`Callers` has fetchd's pool, a call of `WireCall`, the gateway and the walks of
`PagePlan`; `Stands` has fpd, h3sniff and the hellos of the library, so that the
fingerprints of fpd and of `mimic` can be stated of one and the same hello.
Their theorems are about them with their constants open; `MCTunnels`, `MCCalls`
and `MCStands` give the constants values and narrow the initial states. `MCFetchd`
has the requests for fetchd's pool, which `MCCalls` and the run `fetchd_exact`
share; `MCWsdSession` and `MCTransport` bound who may do what, as said below.

## What the runs check

| run | what it shows | bounds | states |
|---|---|---|---|
| `wsd_conn` | `EachFrameOnce`, `InOrder`: a frame is answered once, in order, or is with a client that had gone. `NoLostWakeup`: no recv sleeps on a state it should have been told of. `ClosedAfterDrain`. `OutWellFormed`, `SentIsOnTheWire`: messages do not interleave, 200 means written. `DeleteWakesRecv`. `RecvPromise`: the relay implements `FrameStream`, its fairness included | 2 callers (one may leave), 2 senders, 1 DELETE, 2 frames | 0.19 million |
| `wsd_session` | `OwnIdOrNone`: within one daemon an id never names a stranger's connection. `DeliveredOnce`: the whole of it is a `Delivery` with one time allowed, the handlers that outlive their client included, since the replay of gows.py only follows a request no handler has had in full. `CallsEnd` | 2 handles, one of them with 2 calls, 2 daemons, of each of which only the first connection is kept for 24 hours | 0.44 million |
| `js_client` | `OneAttempt`, `AttemptsAreFresh`: one start is shared and nobody awaits one that is over. `ReplayedOnce`: a request is carried out twice at most, once without a second try, and what a daemon does after the client gave up counts. `RequestsEnd` | 2 calls, 2 daemons | 0.93 million |
| `transport` | `SentOnce`, `NoSecondProbe`, `TicketsStayInScope`, `NoLeak` | 2 calls, 3 clients of 2 identities, 2 hosts, 2 tickets, 2 sockets | 1.6 million |
| `tunnels` | `HelloIsForwarded`, `Framing`. `OneStreamArrives`: closing both sockets at the first end cuts one stream and never both, unless a socket failed. `ReturnsAfterClient`, `ReturnsAfterProxy`: the handler returns after the end of either side, if no peer leaves a write waiting for good. `ProxyReadsTarget` | 4 and 2 chunks; 26 bytes from a proxy, every address type; hosts of 0 to 300 bytes, ports at every byte boundary | 0.25 million |
| `calls` | of fetchd: `PoolIsLatest`; `OwnSettings`: a call runs with the settings it asked for, whatever texts they are made into; `DropCloses`, `DroppedLetsGo`. Of a call: `NoSocketLeft` at every cut, `CancelledCallEnds` in every phase but the write. Of the gateway: `AnswerIsClosedOnce`. Of walks: `AsksAsABrowser`, each request carries the validators of the answer for its page that was read last before it, by whichever session; they are stale only where two exchanges overlapped; and the relation it states is to the page that is open in its own walk | 2 handlers, pool of 2, 3 clients, 6 requests whose texts begin alike; dial bound 2, context 3 ticks; 1 forward, each body; 2 sessions, 4 steps, 4 answers, 3 versions | 0.54 million |
| `stands` | of fpd: `NoMetaLeft`, `ReportIsOfItsClient`. Of h3sniff: `HelloSeen`; `ReportIsItsOwn`, a client with a socket of its own is reported with its hello, no pair of SETTINGS in a report is another client's, and none is missing unless the log says that they did not come in time; `RequestsAnswered`. Of hellos: `HelloKeepsShape`, each has the counts of its capture and its pre_shared_key last, one beyond the capture only for a ticket, on QUIC too; it can be read, and has one fingerprint on every connection of a name; `FingerprintsAgree`, fpd and the library read the same fingerprints out of every hello that TLS allows, and out of any other fpd reads those of the hello put right | 2 connections, 2 entries, 3 ticks, 1 report kept; 2 datagrams, one of them twice; 10 names, 3 paths, 2 GREASE pairs, 10 orders (the places that move turned by 0, 1, 2, 7 or 13, reversed or not, so that each extension meets each place), 123 odd hellos, 18 of which have lists without a length, under a wrong one, or a tail | 1.5 million |

The bounds are the smallest at which the actors of each hazard meet: two callers
for one broadcast, two senders for one mutex, two frames for an order, two daemons
for a restart, three clients for a pool of two, two clients behind one address, two walks
over one cache, two identities that share a scope
and one that does not for the tickets. `wsd_conn` splits a connection into a
polling and a sending scenario, which share the end of the connection and
nothing else in the code; the module itself, and its theorems, have no such
split. In `stands` one client of h3sniff may rename itself, on a socket it shares. In
`transport` only one client visits the second host, at most two sockets
are open, and the fields of an idle call, which `Call` overwrites, are left out
of the view. Every mutant in `PROJECT.json` is a plausible bug that breaks its
property under the run's own bounds.

**Deadlock.** Most runs turn the check off because their systems stop: bounded
clients finish, a connection ends. `transport` never stops, and keeps it.

**Fairness.** Weak fairness of a goroutine's own steps: the Go scheduler and the
event loop run what can run. Nothing makes a client call or leave, an upstream
send, a daemon die, or a deadline pass while something else can end the wait, so
`DeleteWakesRecv` and `RecvPromise` hold without the deadline's help. Assumed
beyond the code: a spawned process reaches its `listen`, a host's spawner settles,
dials end (each has a timeout), and a fetchd call ends (its client has a timeout).
Nothing makes a peer of a tunnel send, end, read or fail: `CopyFails` and
`PeerReads` are not fair. `io.Copy` writes without a deadline
(`cmd/hello-tap/main.go:117` clears it), so a peer that never reads holds its copier for
ever, and `ReturnsAfterClient` and `ReturnsAfterProxy` have `KeepsReading` as
their hypothesis: no peer leaves a write waiting for good. In `WireCall` time
passes, an expired bound is noticed and the context's watch runs; nothing makes a server or a proxy answer, and nobody has to cancel. In `H3Sniff`
only the goroutine that answers a request which has been read is fair. The
fairness of `Stands` and `Callers` is that of their parts, each over its own
actions.

## Findings

Five runs show a disagreement of the code with its own documentation.

1. `wsd_stranger`: `nextID` starts again at 1 in a restarted daemon
   (`cmd/wsd/main.go:215`) while handles keep their ids, and gows.py restarts the
   daemon on its own; an old handle then acts on another client's connection.
2. `js_replay`: a call cut off by its deadline counts as a transport failure and
   is sent again to the daemon that is still working on it (`js/src/index.ts:249`).
3. `tap_untouched`: `readClientHello` drops the five bytes it read when they do
   not begin a handshake (`cmd/hello-tap/main.go:252`), and the tunnel is relayed
   without them.
4. `fetchd_exact`: `schemeRoundTripper` has no `CloseIdleConnections`
   (`mimic/exact.go:41`), so a client dropped from the pool keeps its connections.
5. `hello_grease`: Chrome keeps its two GREASE extensions at the ends, and the
   comment of `shuffleExtensions` (`mimic/spec152.go:133-137`) says so of ours; the
   specs of chrome_152, chrome_155 and chrome_156 append an extension behind the
   second one (115), and the shuffle moves another into that last place.

Some modules end with properties that state what the documentation says and the
code does not do; they are not part of a run:
`NothingDropped` (a frame popped for a client that has left is gone,
`cmd/wsd/main.go:310`, against 37-38), `WholeBody` (a body over 8 MiB is cut without
an error, 275), `OldConnsReaped` (nothing calls `reap`, 229),
`TroubleIsWsdError` (the second try of gows.py is outside its `try`, 184),
`ZeroMeansUnanswered` and `FailuresAreTyped` (a response whose body cannot be read
has status 0, and a host's spawner can reject, against `js/README.md:95-105`),
`OtherSideStays` (the end of one direction ends the relay), `ServerIsHeard` (hello-tap waits for the
client's hello before it relays a server that speaks first), `OnlyPooledHold`
(a call that began before its client was dropped can leave a connection behind
until its 90 s pass), and `SameHelloSameScope` (chrome_155 has chrome_152's hello
but a ticket scope of its own, against `mimic/resumption.go:36-38`).

Those of the other modules:

- `SpeaksAsNegotiated` (`mimic/client.go:176-179`): the HTTP/1.1 transport offers h2
  in its hello and takes whatever the server picks (215-217); a host that refused
  h2 once and picks it later is sent HTTP/1.1 on an h2 connection.
- `CancelledWriteEnds` (`mimic/http1.go:109`): the request is written before any
  deadline or watch is set, so a server that does not read holds the caller.
- `OneDialWindow` (`mimic/client.go:119-122`): the TCP dial, the CONNECT and the
  handshake get the full bound each. That they take no more than these three is the
  theorem `DialHasThreeWindows`.
- `UpgradesSpeakHTTP11` (`mimic/websocket.go:23`): the hello of a uTLS id is built in
  the handshake, after the list of protocols was narrowed.
- `OneClientPerTuple` (`cmd/fetchd/main.go:108-109`): a field with a separator in it, a
  host, an address or a proxy, can give two requests one key, and the later one the
  client of the earlier.
- `StaleIsNeverReplayed` (`mimic/plan.go:204`): of two sessions that overlap, the one
  that reads its answer last wins.
- `EveryBodyPasses` (gateway `main.go:222-226`): a body that is JSON `null` decodes
  into a nil map, and the assignment at 256 panics.
- `EveryHelloServed` (`cmd/fpd/hello.go:38`): a hello in two records is
  replayed under the header of the last one, whose length is not the hello's, and
  the TLS server does not read it.
- `NewestFirst` (`cmd/fpd/report.go:21`): reports are listed in the order in which
  they were finished, and carry the time at which they were begun.
- `OnlyNatIsInexact` (`cmd/fpd/sniff.go:296`) and `FactsOfOneConnection`: another
  client of the address, or a packet sniffed meanwhile, answers a lookup.
- `AllOrNone` (`cmd/h3sniff/main.go:195-205`): the lock around the map keeps handle from
  taking it half filled, and not from printing it so (590).
- `PageIsReadable` (`cmd/h3sniff/main.go:386-388`): the length of the DATA frame is one
  byte (432), and that of the page, 207, is the first of eight as a varint.
- `RenamingIsRead` (`internal/quicwire/quicwire.go:74`): a later Initial with another
  destination id is a connection of its own to `observe`.
- `HellosAreWhole` (`quicwire.go:183`): a buffer with a hole in it can be listed.
- `ClosedCountsConnections` (`cmd/h3sniff/main.go:464`): every timer counts one.

Met while reading, and part of the definitions: `checkHTTP3Profile` takes
`chrome_152_psk`, which `quicShapes` does not have, so it sends the QUIC stack's own
hello; the gateway's profile sets `http1_wire_order` beside `chrome_auto`, whose
transports do not have it; `websocket.go:157` takes a name for Chrome by its prefix, so yandex_browser
is sent an upgrade without a browser's headers; `channelListener.closed` of fpd is nil.

## What is proved

The proofs hold for every value of the constants: any number of clients, calls,
frames, daemons, hosts, connections, reports, bytes. They use the assumptions
named in the modules and no others, except where the table says so.

| module | theorems | the argument |
|---|---|---|
| `WsdConnProofs` | `TypesKept`, `FramesOnce`, `FramesInOrder`, `WakeupsKept`, `ClosedIsLast` | `RecvInv`: the properties are inductive together with the types, the agreement of the program counters with their fields (`Control`) and the fact that nothing is missing while the upstream is open (`Complete`). One step per action; what an action does not touch goes through a frame lemma |
| | `WritesWellFormed` | `SendInv`: the holder of `writeMu` is the only sender inside `WriteMessage`, and between its two fragments the last thing written is its first one or a close frame |
| | `SentOnTheWire` | `WireInv`, on top of `SendInv`: the places at which a sender's last fragment stands are exactly one if it has sent and none otherwise; another sender's write, or a close frame, leaves them alone |
| | `ImplementsStream` | each step maps to a step of `FrameStream` or to none, under `RecvInv` |
| `WsdSessionProofs` | `NeverTwice` | `LedgerInv`: a call that is not past its handler has not been carried out, nor has one whose caller gave it up to a handler that still has it; the latter is over for its caller and is not tried again |
| | `DeliversOnce` | the refinement of `Delivery`, action by action: each step carries out, ends or begins one call, fails several at once on what they share, or is none of its business; a handler that outlives its client carries its call out once, by `LedgerInv`; `FoundInv`: a call whose handler has found its connection has been carried out |
| | `TypesKept` | the types with `LedgerInv`; what is on the daemon's list was issued by that daemon |
| | `IdsAreOwn` | `IdInv`: ids of the running daemon are at most `nextID`, and the registry lists each under its handle |
| `JsClientProofs` | `SharedAttempt`, `FreshAttempt` | `EnsureInv`: every attempt that runs is the one in `pendingStart`, and a call that waits does so for it |
| | `NeverThrice` | `CountInv`: what has been carried out of a call and what a daemon may still carry out of it are at most as many as its tries, and one less while this try has not reached a daemon |
| | `DeliversTwice` | the refinement of `Delivery` under `CountInv`, the types and `ReachedInv`: a call whose answer is due has been carried out |
| | `TypesKept` | the types of the daemon and of the calls, with `EnsureInv` and `CountInv` for what refers to an attempt |
| `TransportProofs` | `RequestSentOnce`, `NeverProbedAgain`, `TicketsKept` | a request is written exactly when its call is past the writing; a refused host is in `h1Only`; a ticket lies only under keys of those who may offer it, since names that share a scope share a hello |
| | `SocketsAccounted` | `LeakInv`: the sockets in hand are told by the calls' program counters, and the open ones are those, the h2 connections kept and the HTTP/1.1 ones kept idle. The sums are cardinalities of finite sets, so each action adds or removes one element |
| | `TypesKept` | `HeldInv`: the store takes a ticket in the step that evicts one, so its size stays within the bound |
| `TunnelsProofs` | `OneStreamIsWhole` | `CopyInv`: a copier has written what it has read but for the chunk it holds, from the position where the relay takes the stream over, which for hello-tap's client lies behind what was read ahead. `OverInv`: the sockets are closed by the handler before its relay, or after one copier has ended; if none has failed, that one met the end of its source and holds nothing |
| | `HelloGoesFirst`, `RecordBeforeRelay` | `TapInv`: at each step of the handler, where on the client's stream it stands, which bytes it holds ahead, and that the copier begins exactly there (`Relayed`) |
| | `ExchangeIsFramed` | `FwdInv`: the same on the proxy's stream, with the number of bytes each phase of the exchange has taken for each type of address |
| | `RequestSaysTarget` | the bytes of `buildConnectRequest`, read back by RFC 1928, for every host and port it accepts |
| | `TypesKept` | the types of either tunnel and of the relay between them; hello-tap records a connection in one step of it only |
| `CallersProofs` | `PoolIsTheLatest`, `CallsKeepSettings` | the order's keys are the map's; under `NoSeparators` the text of a key tells apart requests that differ in what a client is made from, however many hosts a table has: `KeysTell` for the clients of the pool, `HandlersTell` for the handlers that use one |
| | `ClosableIsClosed`, `DroppedIsClosed` | only the oldest client leaves the pool, and `CloseIdleConnections` is called on it in the step that drops it. The second assumes that no profile is exact; the run `fetchd_exact` shows why it must |
| | `SocketIsClosed` | `SockInv`: the phases that have a socket, and the only ones that watch the context |
| | `AnswerHasOneOwner` | `OwnerInv`: the answer is with the goroutine, the handler or nobody, and closed exactly in the last case; a handler that has returned has cancelled the call |
| | `WalksAskAsABrowser` | `PlanInv`: the answer that is due is to the request its session waits with (`DueInv`); the cache holds for each page the validators of the answer read last, and a request has those it held when it was made (`HeldInv`); an answer that was given before one that was read earlier is of an exchange which had begun by then (`OrderInv`); the document a walk has open is that of its last navigation (`WalkInv`) |
| | `DialHasThreeWindows` | `WindowInv`: a phase of a dial begins with its whole bound, so what has passed and what is left never exceed the bounds of the phases so far |
| | `CallersKeepTypes` | the types of the four programs, each with what is proved of it above |
| `StandsProofs` | `TableIsExact` | `FrontInv`: where a connection is tells whether the table has it, and the entry is its own |
| | `ReportIsHonest` | `SniffInv`: an entry's packets and its SYN came from the address it is listed under, and `EntriesStay`: it keeps that address after it is purged, so what a handler reads after the unlock still fits; `ReportInv`: so does every report under way and every one kept |
| | `ReadersAgree`, `OneFingerprint` | field by field (version, ciphers, extensions, groups, formats, signature algorithms, protocols, of which JA3, JA4 and JA4_r are made) what fpd cuts to the lengths is what the library takes of the hello put right (`Tidied`); a hello that is `WellFormed` needs no putting right and does not fail in the library |
| | `Reassembly` | after each CRYPTO frame, every byte that some frame covers is the stream's byte; a buffer without a hole is covered as a whole |
| | `EveryHelloIsSeen` | `HellosInv`: what `observe` has gathered of a connection is exactly what has come of it, whoever shares the socket, and a connection is listed once that is all of it |
| | `OwnReport` | `PublishedInv`: a connection is handled only when its hello has been listed, the last one listed of a socket that is not shared is its own; the map holds no more than the pairs of its own control stream, and all of them once `settingsDone` is closed, which handle has seen unless it is `late`; the parser finds no pair in a prefix of the stream but all or none |
| | `ListedFromThere` | `ConnsInv`: an entry of the decoder's table belongs to one client behind its address and has gathered some of what that client sent; under the second name of a client that renames itself the keys are wrong and it has gathered nothing. What the fragments of one client can be put together to is its hello, its hello with a hole, or no ClientHello |
| | `StandsKeepTypes` | `BoundsInv`: the clock, the entries and the reports of fpd stay within their bounds; `CountInv`: h3sniff answers no request twice and arms no close without an answer |
| `HelloProofs` | `JA4IgnoresOrder` | a hello is a list of extensions without a repeated id; JA4 is computed from the sorted ids, the set of what is said under each, and the counts, all of which two lists with the same elements share; both hellos must be such that the library can read them |
| | `HelloShape` | the shuffle permutes the places that are not fixed, the concealment and the narrowing change one element, `applyQUICShape` picks by id: so the extensions of every hello are, as a set, those its name, path and ticket stand for, on QUIC too, whatever was drawn; its counts are those of that set, its fingerprint does not depend on the order, and a pre_shared_key is behind every place that moves. `OursInv`: every hello of a connection was built so, with a ticket only where it had one |

Every invariant that a passing run checks is a theorem; so are the action property
`DropCloses` and the refinement `DeliveredOnce`. The step part of `RecvPromise` is
`ImplementsStream`. Every module with behaviours of its own has its type invariant proved,
by itself or in the composition that runs it.

**Facts about recursive functions.** A walk over bytes (the extensions of a
hello, the frames of a datagram) is a recursive function, and induction with an
operator as parameter is out of the provers' reach. Such a fact is proved from
the least position at which it would fail: the naturals are well founded
(`WellFoundedInduction`), the lemma `LeastOf` picks that position out of a set,
and the function's equation takes it one step on; `Walk` shows in the same way
that a function with such an equation exists.

**Assumptions on the constants.** Bounds are naturals, and those of what there must
be one of (a daemon, a ticket, a report that is kept) are not zero.
`TunnelsAssumption`: names are numbers, hosts are sequences of bytes, ports integers
(Go's `int`), what a side sends is a number of chunks; `RequestsAssumption`: what fetchd is
asked with are texts and a finite table from hosts to addresses; `CallersAssumption`: a plan has a
step, as `mimic/plan.go:235-237` demands, and the life of a context that is never cancelled
is no number of ticks; `FpdAssumption`: addresses and ports are numbers;
`StandsAssumption`: connections are numbers; `OrdersAssumption`: what `rand.Shuffle` may
draw for a hello permutes the places that move, which is all the proofs know of it;
`TransportAssumption`: the names are some of the library's. Two theorems have a
hypothesis of their own: `CallsKeepSettings` that no field of a request has a separator
in it, which `MCFetchd` assumes of the requests of the runs and nothing in fetchd
checks, and `DroppedIsClosed` that no profile is exact.

**Only model-checked.** Everything about liveness, and `FrameStream`'s fairness
with it (the prover has no rule for weak fairness here): `CallsEnd`, `RequestsEnd`,
`DeleteWakesRecv`, `ReturnsAfterClient`, `ReturnsAfterProxy`, `DroppedLetsGo`,
`CancelledCallEnds`, `RequestsAnswered`. What the five findings show, which are
counterexamples.

## What is not modelled

TLS, HTTP/2 and QUIC themselves, which are other modules: what they do is a
nondeterministic choice of the environment, or the few functions of uTLS's presets
that a hello of ours starts from. Keys and header protection of QUIC are whether a
payload opens. The payloads of extensions that no fingerprint reads, the wording of
headers and pages, QPACK, the PROXY header's bytes. `cookiejar.go` and `profile.go`
read a file once. `gohttp.py` repeats the start of a daemon that `WsdSession` has.
The probes, the other examples and the capture scripts make one call each, or walk
one plan. Outside `WireCall` timeouts are nondeterministic steps, so how long
something takes is not visible there. A read of a field of fpd's entry that races with
a write is a read of the old or of the new value; h3sniff's map, printed while it is
written, gives what it holds by then or ends the program.
`PROJECT.json` gives the reason for each component.

## Plan

In the order of importance.

1. `GohttpSession`: gohttp.py as a second client of the session model, and a third
   implementation of `Delivery`.
2. The order of headers on the wire (`mimic/http1.go`) and the extraction of a
   profile's captured headers as algorithms beside `Socks5Request`.
3. `GohttpSession`'s refinement, and the types of the two.
