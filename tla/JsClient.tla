------------------------------- MODULE JsClient -------------------------------
(***************************************************************************)
(* The JavaScript client of fetchd (js/src): what send of index.ts does    *)
(* around a request, the shared attempt of ensureDaemon, and the calls of  *)
(* callFetch under their deadline, while the daemon dies, is started by    *)
(* this process or by another one, or is restarted by the spawner a host   *)
(* has set with setDaemonSpawner.                                          *)
(*                                                                         *)
(* One process: its calls interleave at every await.  A promise that       *)
(* settles runs its callbacks before anything else happens, in the order   *)
(* they were registered, so settling an attempt, clearing pendingStart and *)
(* resuming the calls that wait for it are one step.  Nobody reads what an *)
(* attempt came to after that, so the model forgets it.                    *)
(***************************************************************************)
EXTENDS Naturals, Sequences

CONSTANTS
    Calls,      \* the calls of request()
    MaxEpoch    \* bound: how many times a daemon binds the port

ASSUME JsAssumption == MaxEpoch \in Nat \ {0}

VARIABLES
    epoch,     \* how many daemons have bound the port so far
    alive,     \* the last of them is still running
    booting,   \* spawned processes that have not tried the port yet
    attempts,  \* what each attempt of ensureDaemon is doing
    pending,   \* pendingStart: an attempt, or 0 for null
    pc,        \* where each call is
    waits,     \* the attempt a call awaits
    supervise, \* autoStartEnabled() when the call began
    second,    \* the call is at its second callFetch
    at,        \* the daemon that took the request
    late,      \* how many requests a call has given up that the daemon still has
    executed,  \* history: how often daemons have carried the request out
    answered,  \* history: the daemon answered the current callFetch
    result     \* how the call ended: for its caller, and the error's status

daemonVars == <<epoch, alive, booting>>
ensureVars == <<attempts, pending>>
callVars == <<pc, waits, supervise, second, at, executed, answered, result>>
vars == <<daemonVars, ensureVars, callVars, late>>

Running == {"probe", "spawn", "poll"}
Settled == {"true", "false", "rejected"}   \* what a running attempt can settle with
Results == {"none", "ok", "typed", "typed0", "raw"}
InFlight == {"inside", "executed", "rejected", "headers"}

TypeOK ==
    /\ epoch \in 0..MaxEpoch
    /\ alive \in BOOLEAN
    /\ booting \in Nat
    /\ attempts \in Seq(Running \cup {"settled"})
    /\ pending \in {0} \cup DOMAIN attempts
    /\ pc \in [Calls -> {"idle", "probe", "ensure", "wait", "fetch", "done"} \cup InFlight]
    /\ waits \in [Calls -> Nat]
    /\ \A c \in Calls : pc[c] = "wait" => waits[c] \in DOMAIN attempts
    /\ supervise \in [Calls -> BOOLEAN]
    /\ second \in [Calls -> BOOLEAN]
    /\ at \in [Calls -> 0..MaxEpoch]
    /\ late \in [Calls -> 0..2]
    /\ executed \in [Calls -> 0..2]
    /\ answered \in [Calls -> BOOLEAN]
    /\ result \in [Calls -> Results]

NoneLate == [c \in Calls |-> 0]

\* The client starts with a daemon running or with none.
Init ==
    /\ alive \in BOOLEAN /\ epoch = (IF alive THEN 1 ELSE 0) /\ booting = 0
    /\ attempts = <<>> /\ pending = 0
    /\ pc = [c \in Calls |-> "idle"]
    /\ waits = [c \in Calls |-> 0]
    /\ supervise = [c \in Calls |-> TRUE]
    /\ second = [c \in Calls |-> FALSE]
    /\ at = [c \in Calls |-> 0]
    /\ late = NoneLate
    /\ executed = [c \in Calls |-> 0]
    /\ answered = [c \in Calls |-> FALSE]
    /\ result = [c \in Calls |-> "none"]

------------------------------------------------------------------------------
(* The daemon.                                                             *)

\* The daemon dies with the requests it has not answered.
Crash ==
    /\ alive
    /\ alive' = FALSE
    /\ late' = NoneLate
    /\ UNCHANGED <<epoch, booting, ensureVars, callVars>>

\* Another process spawns a daemon.
OtherSpawns ==
    /\ epoch < MaxEpoch
    /\ booting = 0
    /\ booting' = 1
    /\ UNCHANGED <<epoch, alive, ensureVars, callVars, late>>

\* A spawned process binds the port, or finds it taken and exits.
Boot ==
    /\ booting > 0
    /\ booting' = booting - 1
    /\ IF alive \/ epoch = MaxEpoch
         THEN UNCHANGED <<epoch, alive>>
         ELSE epoch' = epoch + 1 /\ alive' = TRUE
    /\ UNCHANGED <<ensureVars, callVars, late>>

------------------------------------------------------------------------------
(* ensureDaemon.                                                           *)

Goto(c, where) == pc' = [pc EXCEPT ![c] = where]

NewAttempt == Len(attempts) + 1

\* The calls that await attempt a.
Awaiting(a) == {c \in Calls : pc[c] = "wait" /\ waits[c] = a}

\* What send does with what ensureDaemon came to: the first time the boolean
\* is ignored, the second time a false ends the call.  A rejection, which only
\* a host's own spawner can cause, goes through to the caller.
Resumed(c, res) ==
    IF res = "rejected" THEN "raw"
    ELSE IF res = "false" /\ second[c] THEN "typed0"
    ELSE "none"

\* Mutated form of Settle: pendingStart is cleared after a success only.
SettleKeepsFailure(a, res) ==
    /\ attempts' = [attempts EXCEPT ![a] = "settled"]
    /\ pending' = IF pending = a /\ res = "true" THEN 0 ELSE pending
    /\ pc' = [c \in Calls |->
                IF c \notin Awaiting(a) THEN pc[c]
                ELSE IF Resumed(c, res) = "none" THEN "fetch" ELSE "done"]
    /\ result' = [c \in Calls |-> IF c \in Awaiting(a) THEN Resumed(c, res) ELSE result[c]]
    /\ UNCHANGED <<waits, supervise, second, at, executed, answered>>

\* Attempt a settles: pendingStart is cleared, then its callers resume.
Settle(a, res) ==
    /\ attempts' = [attempts EXCEPT ![a] = "settled"]
    /\ pending' = IF pending = a THEN 0 ELSE pending
    /\ pc' = [c \in Calls |->
                IF c \notin Awaiting(a) THEN pc[c]
                ELSE IF Resumed(c, res) = "none" THEN "fetch" ELSE "done"]
    /\ result' = [c \in Calls |-> IF c \in Awaiting(a) THEN Resumed(c, res) ELSE result[c]]
    /\ UNCHANGED <<waits, supervise, second, at, executed, answered>>

\* Mutated form of EnsureDaemon: every caller begins an attempt of its own.
EnsureDaemonAlone(c) ==
    /\ pc[c] = "ensure"
    /\ attempts' = Append(attempts, "probe")
    /\ pending' = NewAttempt
    /\ waits' = [waits EXCEPT ![c] = NewAttempt]
    /\ Goto(c, "wait")
    /\ UNCHANGED <<supervise, second, at, executed, answered, result, daemonVars, late>>

\* ensureDaemon: join the attempt that runs, or begin one.
EnsureDaemon(c) ==
    /\ pc[c] = "ensure"
    /\ IF pending # 0
         THEN /\ waits' = [waits EXCEPT ![c] = pending]
              /\ UNCHANGED ensureVars
         ELSE /\ attempts' = Append(attempts, "probe")
              /\ pending' = NewAttempt
              /\ waits' = [waits EXCEPT ![c] = NewAttempt]
    /\ Goto(c, "wait")
    /\ UNCHANGED <<supervise, second, at, executed, answered, result, daemonVars, late>>

\* healthz inside the attempt; an answer after 1.5 s counts as none.
AttemptProbe(a) ==
    /\ attempts[a] = "probe"
    /\ \/ alive /\ Settle(a, "true")
       \/ /\ attempts' = [attempts EXCEPT ![a] = "spawn"]
          /\ UNCHANGED <<pending, callVars>>
    /\ UNCHANGED <<daemonVars, late>>

\* spawnFetchd: no binary, no log file or no process; or a process.
SpawnFetchd(a) ==
    /\ attempts[a] = "spawn"
    /\ \/ Settle(a, "false") /\ UNCHANGED booting
       \/ /\ booting' = booting + 1
          /\ attempts' = [attempts EXCEPT ![a] = "poll"]
          /\ UNCHANGED <<pending, callVars>>
    /\ UNCHANGED <<epoch, alive, late>>

\* The spawner of a host: it fails, throws, or restarts the daemon, which
\* ends the one that may be running.
HostSpawner(a) ==
    /\ attempts[a] = "spawn"
    /\ \/ \E res \in {"false", "rejected"} : Settle(a, res) /\ UNCHANGED <<epoch, alive, late>>
       \/ /\ epoch < MaxEpoch
          /\ epoch' = epoch + 1
          /\ alive' = TRUE
          /\ late' = NoneLate
          /\ Settle(a, "true")
    /\ UNCHANGED booting

\* Mutated form of SpawnPoll: no bound on the polls.
SpawnPollForever(a) ==
    /\ attempts[a] = "poll"
    /\ alive /\ Settle(a, "true")
    /\ UNCHANGED <<daemonVars, late>>

\* Sixteen polls at most, half a second apart.
SpawnPoll(a) ==
    /\ attempts[a] = "poll"
    /\ \/ alive /\ Settle(a, "true")
       \/ ~alive /\ Settle(a, "false")
    /\ UNCHANGED <<daemonVars, late>>

attemptStep(a) == AttemptProbe(a) \/ SpawnFetchd(a) \/ HostSpawner(a) \/ SpawnPoll(a)

------------------------------------------------------------------------------
(* send and callFetch.                                                     *)

Request(c) ==
    /\ pc[c] = "idle"
    /\ \E s \in BOOLEAN :
         /\ supervise' = [supervise EXCEPT ![c] = s]
         /\ Goto(c, IF s THEN "probe" ELSE "fetch")
    /\ UNCHANGED <<waits, second, at, executed, answered, result, daemonVars, ensureVars, late>>

\* healthz before the call.
Probe(c) ==
    /\ pc[c] = "probe"
    /\ \/ alive /\ Goto(c, "fetch")
       \/ Goto(c, "ensure")
    /\ UNCHANGED <<waits, supervise, second, at, executed, answered, result,
                   daemonVars, ensureVars, late>>

\* The call ends; res is what its caller sees.
Finish(c, res) ==
    /\ Goto(c, "done")
    /\ result' = [result EXCEPT ![c] = res]
    /\ UNCHANGED <<waits, supervise, second, at, executed, answered>>

\* callFetch throws without a status: once, and under supervision, this leads
\* to ensureDaemon and a second callFetch.
TransportFailure(c) ==
    IF supervise[c] /\ ~second[c]
      THEN /\ second' = [second EXCEPT ![c] = TRUE]
           /\ Goto(c, "ensure")
           /\ UNCHANGED <<waits, supervise, at, executed, answered, result>>
      ELSE Finish(c, "typed0")

\* The daemon accepts the connection of the call, or nothing listens.
Open(c) ==
    /\ pc[c] = "fetch"
    /\ IF alive
         THEN /\ at' = [at EXCEPT ![c] = epoch]
              /\ answered' = [answered EXCEPT ![c] = FALSE]
              /\ Goto(c, "inside")
              /\ UNCHANGED <<waits, supervise, second, executed, result>>
         ELSE TransportFailure(c)
    /\ UNCHANGED <<daemonVars, ensureVars, late>>

Served(c) == alive /\ at[c] = epoch

\* fetchd carries the request out, or rejects it (its token, its fields).
Handle(c) ==
    /\ pc[c] = "inside" /\ Served(c)
    /\ \/ /\ executed' = [executed EXCEPT ![c] = @ + 1]
          /\ Goto(c, "executed")
       \/ /\ Goto(c, "rejected")
          /\ UNCHANGED executed
    /\ UNCHANGED <<waits, supervise, second, at, answered, result, daemonVars, ensureVars, late>>

\* The status line of a 200 reaches the client, or the whole of a short 4xx.
Answer(c) ==
    /\ Served(c)
    /\ \/ /\ pc[c] = "executed"
          /\ answered' = [answered EXCEPT ![c] = TRUE]
          /\ Goto(c, "headers")
          /\ UNCHANGED <<waits, supervise, second, at, executed, result>>
       \/ pc[c] = "rejected" /\ Finish(c, "typed")
    /\ UNCHANGED <<daemonVars, ensureVars, late>>

\* The body of the 200 is read: a response, or the failure of the target,
\* which request throws with the target's status or with none.
Body(c) ==
    /\ pc[c] = "headers"
    /\ \E res \in {"ok", "typed", "typed0"} : Finish(c, res)
    /\ UNCHANGED <<daemonVars, ensureVars, late>>

\* The daemon dies under the call.
Lost(c) ==
    /\ pc[c] \in InFlight /\ ~Served(c)
    /\ TransportFailure(c)
    /\ UNCHANGED <<daemonVars, ensureVars, late>>

\* Mutated form of Abort: every call that timed out is replayed, however often.
AbortRetriesAlways(c) ==
    /\ pc[c] \in InFlight
    /\ Goto(c, "ensure")
    /\ UNCHANGED <<waits, supervise, second, at, executed, answered, result,
                   daemonVars, ensureVars, late>>

\* The timer of fetchText aborts the call, which may have got as far as the
\* status line.  A daemon that has the whole request and has not handled it yet
\* still will: handleFetch does not look at the context of its request.
Abort(c) ==
    /\ pc[c] \in InFlight
    /\ TransportFailure(c)
    /\ \/ late' = late
       \/ pc[c] = "inside" /\ Served(c) /\ late' = [late EXCEPT ![c] = @ + 1]
    /\ UNCHANGED <<daemonVars, ensureVars>>

\* fetchd carries out, or rejects, a request that was given up.
LateHandle(c) ==
    /\ late[c] > 0
    /\ late' = [late EXCEPT ![c] = @ - 1]
    /\ \/ executed' = [executed EXCEPT ![c] = @ + 1]
       \/ UNCHANGED executed
    /\ UNCHANGED <<pc, waits, supervise, second, at, answered, result, daemonVars, ensureVars>>

callStep(c) ==
    \/ Probe(c) \/ EnsureDaemon(c) \/ Open(c) \/ Handle(c)
    \/ Answer(c) \/ Body(c) \/ Lost(c) \/ Abort(c)

------------------------------------------------------------------------------
Next ==
    \/ Crash
    \/ OtherSpawns
    \/ Boot
    \/ \E a \in DOMAIN attempts : attemptStep(a)
    \/ \E c \in Calls : Request(c) \/ callStep(c) \/ LateHandle(c)

Spec == Init /\ [][Next]_vars

\* The event loop and the spawned processes run; a deadline that has passed
\* is noticed.  A host's spawner is assumed to settle.
FairSpec ==
    /\ Spec
    /\ WF_vars(Boot)
    /\ WF_vars(\E a \in DOMAIN attempts : attemptStep(a))
    /\ \A c \in Calls : WF_vars(callStep(c))

------------------------------------------------------------------------------
(* Properties.                                                             *)

\* Callers that find the daemon down at the same time start it once between
\* them: no two attempts of ensureDaemon run at the same time.
OneAttempt ==
    \A a, b \in DOMAIN attempts :
        attempts[a] \in Running /\ attempts[b] \in Running => a = b

\* Nobody is handed an old result: the attempt in pendingStart runs, and so
\* does the one a call awaits, which is therefore still there to wake it.
AttemptsAreFresh ==
    /\ pending # 0 => attempts[pending] \in Running
    /\ \A c \in Calls : pc[c] = "wait" => attempts[waits[c]] \in Running

\* A request is carried out twice at most, and once by a client that does not
\* supervise the daemon or that has seen no failure; what the daemon does with
\* a request after the client has given it up counts.
ReplayedOnce ==
    \A c \in Calls :
        executed[c] <= (IF supervise[c] /\ second[c] THEN 2 ELSE 1)

\* Every request ends, whatever the daemons and the spawners come to.
RequestsEnd == \A c \in Calls : pc[c] # "idle" ~> pc[c] = "done"

\* To its callers the client is a Delivery that carries a call out once, or
\* twice where it supervises the daemon.
Status == [c \in Calls |->
             IF pc[c] = "idle" THEN "idle"
             ELSE IF pc[c] # "done" THEN "asked"
             ELSE IF result[c] = "ok" THEN "ok" ELSE "failed"]
Allowed == [c \in Calls |-> IF supervise[c] THEN 2 ELSE 1]
Promise == INSTANCE Delivery WITH
    Calls <- Calls,
    Limit <- 2,
    status <- Status,
    allowed <- Allowed,
    done <- executed

DeliveredTwice == Promise!Spec

------------------------------------------------------------------------------
(* What the documentation says, which the code does not do.                *)

\* js/README.md:125, "when the daemon is dead, starts it and replays the
\* request once": a call is not replayed while the daemon that took it runs.
ReplayOnlyWhenDead ==
    [][\A c \in Calls : second'[c] /\ ~second[c] => ~Served(c)]_vars

\* js/README.md:105, "`error.status` is the status the daemon answered with,
\* and `0` when the daemon never answered at all."
ZeroMeansUnanswered == \A c \in Calls : result[c] = "typed0" => ~answered[c]

\* js/README.md:95, "Every failure raises `SiteMimicError`".
FailuresAreTyped == \A c \in Calls : result[c] # "raw"

==============================================================================
