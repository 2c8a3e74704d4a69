------------------------------ MODULE WsdSession ------------------------------
(***************************************************************************)
(* The wsd daemon as its Python clients meet it: the registry of           *)
(* connections (d.conns, d.created, d.nextID of cmd/wsd/main.go), the      *)
(* processes that compete for its port, and the calls of gows.py, which    *)
(* probe the daemon, start it when it is down and try a request twice.     *)
(*                                                                         *)
(* A handle is a WsConnection object of gows.py and the thread that uses   *)
(* it.  What happens inside one connection is WsdConn; here a connection   *)
(* is the handle that dialed it and whether it is dead or old.  The lock   *)
(* of ensure_daemon is left out: it binds only the threads of one process, *)
(* and each handle may be a process of its own.  Bodies are within what     *)
(* the daemon reads of them, so that it answers only a request it has in   *)
(* full.                                                                   *)
(***************************************************************************)
EXTENDS Naturals, FiniteSets

CONSTANTS
    Handles,   \* the WsConnection objects
    MaxEpoch,  \* bound: how many times the daemon is started
    MaxCalls   \* bound: how many calls a handle makes

ASSUME SessionAssumption ==
    /\ MaxEpoch \in Nat \ {0}
    /\ MaxCalls \in Nat

VARIABLES
    epoch,    \* how many daemons have bound the port so far
    alive,    \* the last of them is still running
    booting,  \* spawned processes that have not tried the port yet
    nextID,   \* d.nextID
    conns,    \* d.conns and d.created: id -> connection
    pc,       \* where each handle's call is
    op,       \* the endpoint it calls
    second,   \* it is the replay of a call
    at,       \* the daemon that took the request
    calls,    \* how many calls the handle has made
    id,       \* conn_id of the handle, 0 before its dial
    born,     \* history: the daemon that dialed it
    result,   \* of each call, how it ended for its caller
    late,     \* of each call, the endpoint whose request its caller has given
              \* up while the running daemon still has it
    acted,    \* history: of each call, how often a handler has run for it
    touched   \* history: <<h, g>> when a call of h acted on the connection of g

daemonVars == <<epoch, alive, booting, nextID, conns>>
clientVars == <<pc, op, second, at, calls, id, born, result>>
handlerVars == <<late, acted>>
vars == <<daemonVars, clientVars, handlerVars, touched>>

Ops == {"dial", "send", "recv", "delete"}
Ids == 1..(Cardinality(Handles) * MaxCalls)
Conn == [owner : Handles, dead : BOOLEAN, old : BOOLEAN]
NoConn == [owner |-> CHOOSE x : x \notin Handles, dead |-> TRUE, old |-> TRUE]

TypeOK ==
    /\ epoch \in 1..MaxEpoch
    /\ alive \in BOOLEAN
    /\ booting \in Nat
    /\ nextID \in Nat
    /\ DOMAIN conns \subseteq 1..nextID
    /\ \A i \in DOMAIN conns : conns[i] \in Conn
    /\ pc \in [Handles -> {"idle", "probe", "ensure", "poll", "open", "inside",
                           "found", "missing", "refused"}]
    /\ op \in [Handles -> Ops]
    /\ second \in [Handles -> BOOLEAN]
    /\ at \in [Handles -> 0..MaxEpoch]
    /\ calls \in [Handles -> 0..MaxCalls]
    /\ id \in [Handles -> Nat]
    /\ born \in [Handles -> 0..MaxEpoch]
    /\ result \in [Handles -> [1..MaxCalls -> {"idle", "asked", "ok", "WsdError", "other"}]]
    /\ late \in [Handles -> [1..MaxCalls -> Ops \cup {"none"}]]
    /\ acted \in [Handles -> [1..MaxCalls -> 0..2]]
    /\ touched \subseteq Handles \X Handles

NoneLate == [h \in Handles |-> [n \in 1..MaxCalls |-> "none"]]

Init ==
    /\ epoch = 1 /\ alive = TRUE /\ booting = 0
    /\ nextID = 0 /\ conns = [i \in {} |-> NoConn]
    /\ pc = [h \in Handles |-> "idle"]
    /\ op = [h \in Handles |-> "dial"]
    /\ second = [h \in Handles |-> FALSE]
    /\ at = [h \in Handles |-> 0]
    /\ calls = [h \in Handles |-> 0]
    /\ id = [h \in Handles |-> 0]
    /\ born = [h \in Handles |-> 0]
    /\ result = [h \in Handles |-> [n \in 1..MaxCalls |-> "idle"]]
    /\ late = NoneLate
    /\ acted = [h \in Handles |-> [n \in 1..MaxCalls |-> 0]]
    /\ touched = {}

------------------------------------------------------------------------------
(* The daemon process.                                                     *)

\* The daemon dies, and with it the connections it holds and the requests it
\* has not answered.
Crash ==
    /\ alive
    /\ epoch < MaxEpoch
    /\ alive' = FALSE
    /\ conns' = [i \in {} |-> NoConn]
    /\ late' = NoneLate
    /\ UNCHANGED <<epoch, booting, nextID, clientVars, acted, touched>>

\* A spawned process binds the port and starts with an empty registry, or
\* finds it taken and exits through log.Fatal.
Boot ==
    /\ booting > 0
    /\ booting' = booting - 1
    /\ IF alive \/ epoch = MaxEpoch
         THEN UNCHANGED <<epoch, alive, nextID, conns>>
         ELSE /\ epoch' = epoch + 1
              /\ alive' = TRUE
              /\ nextID' = 0
              /\ conns' = [i \in {} |-> NoConn]
    /\ UNCHANGED <<clientVars, handlerVars, touched>>

\* An upstream ends its connection: readLoop returns, the entry stays.
UpstreamDies(i) ==
    /\ i \in DOMAIN conns
    /\ ~conns[i].dead
    /\ conns' = [conns EXCEPT ![i].dead = TRUE]
    /\ UNCHANGED <<epoch, alive, booting, nextID, clientVars, handlerVars, touched>>

\* 24 hours pass since the connection was dialed.
GrowsOld(i) ==
    /\ i \in DOMAIN conns
    /\ ~conns[i].old
    /\ conns' = [conns EXCEPT ![i].old = TRUE]
    /\ UNCHANGED <<epoch, alive, booting, nextID, clientVars, handlerVars, touched>>

\* reap, which nothing calls: no step of Next is one of these.
reap ==
    /\ conns' = [i \in {j \in DOMAIN conns : ~conns[j].old} |-> conns[i]]
    /\ UNCHANGED <<epoch, alive, booting, nextID, clientVars, handlerVars, touched>>

------------------------------------------------------------------------------
(* A call of gows.py.                                                      *)

Goto(h, where) == pc' = [pc EXCEPT ![h] = where]

\* The call ends; res is what its caller sees.
Finish(h, res) ==
    /\ Goto(h, "idle")
    /\ result' = [result EXCEPT ![h][calls[h]] = res]
    /\ UNCHANGED <<op, second, at, calls>>

\* connect, or send, recv, close on a handle that has connected.
Call(h) ==
    /\ pc[h] = "idle"
    /\ calls[h] < MaxCalls
    /\ calls' = [calls EXCEPT ![h] = @ + 1]
    /\ \E o \in Ops :
         /\ (o = "dial") <=> (id[h] = 0)
         /\ op' = [op EXCEPT ![h] = o]
    /\ second' = [second EXCEPT ![h] = FALSE]
    /\ at' = [at EXCEPT ![h] = 0]
    /\ result' = [result EXCEPT ![h][calls[h] + 1] = "asked"]
    /\ Goto(h, "probe")
    /\ UNCHANGED <<id, born, daemonVars, handlerVars, touched>>

\* _healthz_once before the call; a slow answer counts as none.
Probe(h) ==
    /\ pc[h] = "probe"
    /\ \/ alive /\ Goto(h, "open")
       \/ Goto(h, "ensure")
    /\ UNCHANGED <<op, second, at, calls, id, born, result, daemonVars, handlerVars, touched>>

\* What ensure_daemon returned: ignored before the first try, and the end
\* of the call before the second.
Ensured(h, ok) ==
    IF second[h] /\ ~ok
      THEN Finish(h, "WsdError")
      ELSE Goto(h, "open") /\ UNCHANGED <<op, second, at, calls, result>>

\* ensure_daemon: probe once more, then spawn a process or fail to.
Ensure(h) ==
    /\ pc[h] = "ensure"
    /\ \/ /\ alive
          /\ Ensured(h, TRUE)
          /\ UNCHANGED booting
       \/ /\ booting' = booting + 1
          /\ Goto(h, "poll")
          /\ UNCHANGED <<op, second, at, calls, result>>
       \/ /\ Ensured(h, FALSE)
          /\ UNCHANGED booting
    /\ UNCHANGED <<epoch, alive, nextID, conns, id, born, handlerVars, touched>>

\* Mutated form of Poll: no bound on the number of polls.
PollForever(h) ==
    /\ pc[h] = "poll"
    /\ alive
    /\ Ensured(h, TRUE)
    /\ UNCHANGED <<id, born, daemonVars, handlerVars, touched>>

\* _spawn_daemon polls until a daemon answers, sixteen times at most.
Poll(h) ==
    /\ pc[h] = "poll"
    /\ \/ alive /\ Ensured(h, TRUE)
       \/ ~alive /\ Ensured(h, FALSE)
    /\ UNCHANGED <<id, born, daemonVars, handlerVars, touched>>

\* The request could not be sent, which urllib reports as an URLError.  The
\* first one leads to a restart and a second try; the second try is outside
\* the try block and its exception reaches the caller as it is.
Refused(h) ==
    IF second[h]
      THEN Finish(h, "other")
      ELSE /\ second' = [second EXCEPT ![h] = TRUE]
           /\ Goto(h, "ensure")
           /\ UNCHANGED <<op, at, calls, result>>

\* The daemon accepts the connection of the request, or nothing listens.
Open(h) ==
    /\ pc[h] = "open"
    /\ IF alive
         THEN /\ Goto(h, "inside")
              /\ at' = [at EXCEPT ![h] = epoch]
              /\ UNCHANGED <<op, second, calls, result>>
         ELSE Refused(h)
    /\ UNCHANGED <<id, born, daemonVars, handlerVars, touched>>

Served(h) == alive /\ at[h] = epoch

\* The handler of call n of h has run.
Acted(h, n) == acted' = [acted EXCEPT ![h][n] = @ + 1]

\* d.conns with a connection of h under the next id.
Listing(h) ==
    [j \in DOMAIN conns \cup {nextID + 1} |->
       IF j = nextID + 1 THEN [owner |-> h, dead |-> FALSE, old |-> FALSE] ELSE conns[j]]

\* d.conns after the handler of endpoint o has been at the connection of h.
Without(h, o) ==
    IF o = "delete" THEN [i \in DOMAIN conns \ {id[h]} |-> conns[i]] ELSE conns

\* Mutated form of HandleDial: the counter is not advanced.
HandleDialReusesID(h) ==
    /\ pc[h] = "inside" /\ op[h] = "dial" /\ Served(h)
    /\ conns' = Listing(h)
    /\ id' = [id EXCEPT ![h] = nextID + 1]
    /\ born' = [born EXCEPT ![h] = epoch]
    /\ Goto(h, "found")
    /\ Acted(h, calls[h])
    /\ UNCHANGED <<nextID, epoch, alive, booting, op, second, at, calls, result, late, touched>>

\* handleDial lists the new connection under the next id.  The id is the
\* handle's once the answer arrives (see Reply, Broken).
HandleDial(h) ==
    /\ pc[h] = "inside" /\ op[h] = "dial" /\ Served(h)
    /\ nextID' = nextID + 1
    /\ conns' = Listing(h)
    /\ id' = [id EXCEPT ![h] = nextID + 1]
    /\ born' = [born EXCEPT ![h] = epoch]
    /\ Goto(h, "found")
    /\ Acted(h, calls[h])
    /\ UNCHANGED <<epoch, alive, booting, op, second, at, calls, result, late, touched>>

\* The upstream cannot be dialed, or refuses the upgrade: 502.
HandleDialFails(h) ==
    /\ pc[h] = "inside" /\ op[h] = "dial" /\ Served(h)
    /\ Goto(h, "refused")
    /\ Acted(h, calls[h])
    /\ UNCHANGED <<op, second, at, calls, id, born, result, daemonVars, late, touched>>

\* connFromPath and then the handler of send, recv or delete.
HandleConn(h) ==
    /\ pc[h] = "inside" /\ op[h] # "dial" /\ Served(h)
    /\ IF id[h] \in DOMAIN conns
         THEN /\ \/ Goto(h, "found")
                 \/ op[h] = "send" /\ conns[id[h]].dead /\ Goto(h, "refused")
              /\ touched' = touched \cup {<<h, conns[id[h]].owner>>}
              /\ conns' = Without(h, op[h])
         ELSE /\ Goto(h, "missing")
              /\ UNCHANGED <<conns, touched>>
    /\ Acted(h, calls[h])
    /\ UNCHANGED <<epoch, alive, booting, nextID, op, second, at, calls, id, born, result, late>>

\* The answer reaches the client.  A refusal is an HTTPError, which only the
\* first try turns into a WsdError.
Reply(h) ==
    /\ pc[h] \in {"found", "missing", "refused"} /\ Served(h)
    /\ Finish(h, IF pc[h] = "found" THEN "ok" ELSE IF second[h] THEN "other" ELSE "WsdError")
    /\ UNCHANGED <<id, born, daemonVars, handlerVars, touched>>

\* Mutated form of Broken: a client that gives up tries once more.
BrokenRetries(h) ==
    /\ pc[h] \in {"inside", "found", "missing", "refused"}
    /\ Refused(h)
    /\ UNCHANGED <<id, born, daemonVars, handlerVars, touched>>

\* The daemon died under the request, or the client's timeout passes.  While
\* the request is still being sent, both are an URLError like a refused
\* connection, and no handler will have the request in full; once the client
\* waits for the answer, they are errors _daemon_json does not catch, and a
\* daemon that lives goes on with the request.  A dial that was not answered
\* leaves no handle.
Broken(h) ==
    /\ pc[h] \in {"inside", "found", "missing", "refused"}
    /\ \/ /\ Finish(h, "other")
          /\ late' = IF pc[h] = "inside" /\ Served(h)
                       THEN [late EXCEPT ![h][calls[h]] = op[h]] ELSE late
       \/ /\ pc[h] = "inside"
          /\ Refused(h)
          /\ UNCHANGED late
    /\ IF op[h] = "dial"
         THEN id' = [id EXCEPT ![h] = 0] /\ born' = [born EXCEPT ![h] = 0]
         ELSE UNCHANGED <<id, born>>
    /\ UNCHANGED <<daemonVars, acted, touched>>

------------------------------------------------------------------------------
(* The daemon and a request whose client has left.                         *)

LateEnds(h, n) ==
    /\ late' = [late EXCEPT ![h][n] = "none"]
    /\ Acted(h, n)
    /\ UNCHANGED <<epoch, alive, booting, clientVars>>

\* handleDial of a client that has left: the context of its request, which
\* ends when the server notices, fails the dial, or is too late to; then the
\* connection is listed and nobody knows its id.
LateDial(h, n) ==
    /\ late[h][n] = "dial"
    /\ \/ nextID' = nextID + 1 /\ conns' = Listing(h)
       \/ UNCHANGED <<nextID, conns>>
    /\ LateEnds(h, n)
    /\ UNCHANGED touched

\* send, recv and delete of a client that has left.  handleSend has no context
\* and no deadline: the message may wait for writeMu and go out long after.
\* The id in the path is still id[h]: a handle that has one keeps it.
LateConn(h, n) ==
    /\ late[h][n] \in {"send", "recv", "delete"}
    /\ IF id[h] \in DOMAIN conns
         THEN /\ touched' = touched \cup {<<h, conns[id[h]].owner>>}
              /\ conns' = Without(h, late[h][n])
         ELSE UNCHANGED <<conns, touched>>
    /\ LateEnds(h, n)
    /\ UNCHANGED nextID

------------------------------------------------------------------------------
step(h) ==
    \/ Probe(h) \/ Ensure(h) \/ Poll(h) \/ Open(h)
    \/ HandleDial(h) \/ HandleDialFails(h) \/ HandleConn(h)
    \/ Reply(h) \/ Broken(h)

Next ==
    \/ Crash
    \/ Boot
    \/ \E i \in Ids : UpstreamDies(i) \/ GrowsOld(i)
    \/ \E h \in Handles : Call(h) \/ step(h)
    \/ \E h \in Handles, n \in 1..MaxCalls : LateDial(h, n) \/ LateConn(h, n)

Spec == Init /\ [][Next]_vars

\* Clients and spawned processes run; nothing makes a client call.
FairSpec == Spec /\ WF_vars(Boot) /\ \A h \in Handles : WF_vars(step(h))

------------------------------------------------------------------------------
(* Properties.                                                             *)

\* As long as the daemon that dialed a handle runs, its id names the handle's
\* own connection or none.
OwnIdOrNone ==
    \A h \in Handles :
        alive /\ id[h] # 0 /\ born[h] = epoch /\ id[h] \in DOMAIN conns =>
            conns[id[h]].owner = h

\* A call is carried out at most once: it is replayed only when no handler
\* has seen it or ever will, so that no message is sent twice and no second
\* connection is left behind by a dial.
CarriedOutOnce == \A h \in Handles, n \in 1..MaxCalls : acted[h][n] <= 1

\* Every call ends, whatever the daemon does.
CallsEnd == \A h \in Handles : pc[h] # "idle" ~> pc[h] = "idle"

\* To its callers gows.py is a Delivery that carries a call out once: whoever is
\* told of success had it carried out, and a call is not carried out again, not
\* even by a handler that runs after its client has left.
EveryCall == Handles \X (1..MaxCalls)
Status == [c \in EveryCall |->
             IF result[c[1]][c[2]] \in {"WsdError", "other"} THEN "failed"
             ELSE result[c[1]][c[2]]]
Promise == INSTANCE Delivery WITH
    Calls <- EveryCall,
    Limit <- 1,
    status <- Status,
    allowed <- [c \in EveryCall |-> 1],
    done <- [c \in EveryCall |-> acted[c[1]][c[2]]]

DeliveredOnce == Promise!Spec

------------------------------------------------------------------------------
(* What the documentation says, which the code does not do.                *)

\* gows.py:220, "One daemon-side WebSocket": a call on a WsConnection acts on
\* the connection that was dialed for it.
OneConnection == \A p \in touched : p[1] = p[2]

\* gows.py:244, "Raises WsdError on daemon/transport trouble".
TroubleIsWsdError == \A h \in Handles, n \in 1..MaxCalls : result[h][n] # "other"

\* cmd/wsd/main.go:229, "reap closes daemon-side state for connections idle
\* past the age cap".
OldConnsReaped ==
    \A i \in Ids :
        (i \in DOMAIN conns /\ conns[i].old /\ conns[i].dead)
            ~> ~(i \in DOMAIN conns /\ conns[i].old /\ conns[i].dead)

==============================================================================
