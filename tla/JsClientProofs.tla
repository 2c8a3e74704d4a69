---------------------------- MODULE JsClientProofs ----------------------------
(***************************************************************************)
(* Proofs about JsClient, for any number of calls and any MaxEpoch.        *)
(*                                                                         *)
(* OneAttempt is not inductive: that a new attempt finds none running needs *)
(* pendingStart to name every attempt that runs.  EnsureInv says so, and    *)
(* that the calls which wait do so for that attempt; it needs the types of *)
(* the three variables ensureDaemon works on, and no others.               *)
(*                                                                         *)
(* ReplayedOnce needs to know where a call is: one that has not reached a  *)
(* daemon in its present try has been carried out once less, the requests  *)
(* it has given up included (CountInv).                                    *)
(***************************************************************************)
EXTENDS JsClient, TLAPS

EnsureInv ==
    /\ attempts \in Seq(Running \cup {"settled"})
    /\ pending \in Nat
    /\ DOMAIN pc = Calls
    /\ DOMAIN waits = Calls
    /\ pending # 0 => pending \in DOMAIN attempts /\ attempts[pending] \in Running
    /\ \A a \in DOMAIN attempts : attempts[a] \in Running => a = pending
    /\ \A c \in Calls : pc[c] = "wait" => pending # 0 /\ waits[c] = pending

\* What every step of the daemon, and of a call that stays clear of
\* ensureDaemon, leaves alone.
AwayFromEnsure ==
    /\ UNCHANGED <<attempts, pending, waits>>
    /\ DOMAIN pc' = Calls
    /\ \A c \in Calls : pc'[c] = "wait" => pc[c] = "wait"

LEMMA AwayKeeps == ASSUME EnsureInv, AwayFromEnsure PROVE EnsureInv'
  BY DEF EnsureInv, AwayFromEnsure

LEMMA SettleKeeps ==
    ASSUME EnsureInv, NEW a \in DOMAIN attempts, attempts[a] \in Running,
           NEW res \in Settled, Settle(a, res)
    PROVE  EnsureInv'
<1>1. a = pending /\ pending' = 0
  BY DEF EnsureInv, Settle
<1>2. attempts' = [attempts EXCEPT ![a] = "settled"] /\ waits' = waits
  BY DEF Settle
<1>3. attempts' \in Seq(Running \cup {"settled"}) /\ DOMAIN attempts' = DOMAIN attempts
  BY <1>2 DEF EnsureInv
<1>4. \A b \in DOMAIN attempts' : attempts'[b] \notin Running
  BY <1>1, <1>2, <1>3 DEF EnsureInv, Running
<1>5. \A c \in Calls : pc'[c] # "wait"
  BY <1>1 DEF EnsureInv, Settle, Awaiting
<1>6. DOMAIN pc' = Calls
  BY DEF Settle
<1> QED
  BY <1>1, <1>2, <1>3, <1>4, <1>5, <1>6 DEF EnsureInv

\* An attempt that goes on without settling.
LEMMA GoesOnKeeps ==
    ASSUME EnsureInv, NEW a \in DOMAIN attempts, attempts[a] \in Running,
           NEW st \in Running, attempts' = [attempts EXCEPT ![a] = st],
           UNCHANGED <<pending, callVars>>
    PROVE  EnsureInv'
<1>1. attempts' \in Seq(Running \cup {"settled"}) /\ DOMAIN attempts' = DOMAIN attempts
  BY DEF EnsureInv
<1>2. pending' = pending /\ pc' = pc /\ waits' = waits
  BY DEF callVars
<1>3. a = pending
  BY DEF EnsureInv
<1> QED
  BY <1>1, <1>2, <1>3 DEF EnsureInv

LEMMA AttemptKeeps ==
    ASSUME EnsureInv, NEW a \in DOMAIN attempts, attemptStep(a)
    PROVE  EnsureInv'
<1>1. attempts[a] \in Running
  BY DEF attemptStep, AttemptProbe, SpawnFetchd, HostSpawner, SpawnPoll, Running
<1>2. \/ \E res \in Settled : Settle(a, res)
      \/ /\ \E st \in Running : attempts' = [attempts EXCEPT ![a] = st]
         /\ UNCHANGED <<pending, callVars>>
  BY DEF attemptStep, AttemptProbe, SpawnFetchd, HostSpawner, SpawnPoll, Running, Settled
<1> QED
  BY <1>1, <1>2, SettleKeeps, GoesOnKeeps

LEMMA EnsureDaemonKeeps ==
    ASSUME EnsureInv, NEW c \in Calls, EnsureDaemon(c)
    PROVE  EnsureInv'
<1>1. DOMAIN pc' = Calls /\ DOMAIN waits' = Calls
  BY DEF EnsureDaemon, Goto, EnsureInv
<1>2. \A d \in Calls \ {c} : pc'[d] = pc[d] /\ waits'[d] = waits[d]
  BY DEF EnsureDaemon, Goto, EnsureInv
<1>3. CASE pending # 0
  <2>1. UNCHANGED <<attempts, pending>> /\ waits'[c] = pending
    BY <1>3 DEF EnsureDaemon, ensureVars, EnsureInv
  <2> QED
    BY <1>1, <1>2, <1>3, <2>1 DEF EnsureInv
<1>4. CASE pending = 0
  <2>1. /\ attempts' = Append(attempts, "probe")
        /\ pending' = Len(attempts) + 1
        /\ waits'[c] = Len(attempts) + 1
    BY <1>4 DEF EnsureDaemon, NewAttempt, EnsureInv
  <2>2. /\ attempts' \in Seq(Running \cup {"settled"})
        /\ DOMAIN attempts' = 1..(Len(attempts) + 1)
        /\ attempts'[Len(attempts) + 1] = "probe"
        /\ \A b \in DOMAIN attempts : attempts'[b] = attempts[b]
    BY <2>1 DEF EnsureInv, Running
  <2>3. \A b \in DOMAIN attempts : attempts[b] \notin Running
    BY <1>4 DEF EnsureInv
  <2>4. Len(attempts) \in Nat /\ DOMAIN attempts = 1..Len(attempts)
    BY DEF EnsureInv
  <2>5. \A b \in DOMAIN attempts' : attempts'[b] \in Running => b = pending'
    BY <2>1, <2>2, <2>3, <2>4
  <2>6. pending' \in Nat /\ pending' # 0 /\ pending' \in DOMAIN attempts'
    BY <2>1, <2>2, <2>4
  <2>7. attempts'[pending'] \in Running
    BY <2>1, <2>2 DEF Running
  <2>8. \A d \in Calls : pc'[d] = "wait" => waits'[d] = pending'
    BY <1>2, <1>4, <2>1 DEF EnsureInv
  <2> QED
    BY <1>1, <2>2, <2>5, <2>6, <2>7, <2>8 DEF EnsureInv
<1> QED
  BY <1>3, <1>4

\* The steps of a call other than EnsureDaemon.
LEMMA CallKeeps ==
    ASSUME EnsureInv, NEW c \in Calls,
           Request(c) \/ (callStep(c) /\ ~EnsureDaemon(c)) \/ LateHandle(c)
    PROVE  EnsureInv'
<1>1. DOMAIN pc = Calls
  BY DEF EnsureInv
<1>2. AwayFromEnsure
  BY <1>1 DEF AwayFromEnsure, Request, callStep, Probe, Open, Handle, Answer, Body, Lost, Abort,
              LateHandle, TransportFailure, Finish, Goto, ensureVars, callVars
<1> QED
  BY <1>2, AwayKeeps

LEMMA EnsureNext == ASSUME EnsureInv, [Next]_vars PROVE EnsureInv'
<1>1. CASE UNCHANGED vars \/ Crash \/ OtherSpawns \/ Boot
  <2>1. AwayFromEnsure
    BY <1>1 DEF AwayFromEnsure, vars, ensureVars, callVars, Crash, OtherSpawns, Boot, EnsureInv
  <2> QED
    BY <2>1, AwayKeeps
<1>2. CASE \E a \in DOMAIN attempts : attemptStep(a)
  BY <1>2, AttemptKeeps
<1>3. CASE \E c \in Calls : Request(c) \/ callStep(c) \/ LateHandle(c)
  BY <1>3, EnsureDaemonKeeps, CallKeeps
<1> QED
  BY <1>1, <1>2, <1>3 DEF Next

\* What ensureDaemon keeps, from which both of its promises follow.
LEMMA EnsureInvariant == Spec => []EnsureInv
<1>1. Init => EnsureInv
  BY DEF Init, EnsureInv
<1> QED
  BY <1>1, EnsureNext, PTL DEF Spec

\* Callers that find the daemon down start it once between them: no two
\* attempts of ensureDaemon run at once (js/src/daemon.ts).
THEOREM SharedAttempt == Spec => []OneAttempt
<1>1. EnsureInv => OneAttempt
  BY DEF EnsureInv, OneAttempt
<1> QED
  BY <1>1, EnsureInvariant, PTL

\* The attempt in pendingStart runs, and so does the one a call awaits: nobody
\* is handed the result of a start that is over, and nobody waits for an
\* attempt that will never wake it.
THEOREM FreshAttempt == Spec => []AttemptsAreFresh
<1>1. EnsureInv => AttemptsAreFresh
  BY DEF EnsureInv, AttemptsAreFresh
<1> QED
  BY <1>1, EnsureInvariant, PTL

------------------------------------------------------------------------------
\* Requests of a call that a daemon has carried out, or may yet.
Sent(c) == executed[c] + late[c]

\* A call has been carried out, or may still be, at most once per callFetch that
\* reached a daemon.
CountInv ==
    /\ DOMAIN pc = Calls /\ DOMAIN second = Calls /\ DOMAIN supervise = Calls
    /\ executed \in [Calls -> Nat]
    /\ late \in [Calls -> Nat]
    /\ \A c \in Calls :
         /\ second[c] \in BOOLEAN
         /\ second[c] => supervise[c]
         /\ pc[c] = "idle" => ~second[c]
         /\ Sent(c) <= (IF second[c] THEN 2 ELSE 1)
         /\ pc[c] \in {"idle", "probe", "ensure", "wait", "fetch", "inside"} =>
              Sent(c) <= (IF second[c] THEN 1 ELSE 0)

\* Steps that do not touch the count, or take the requests from a daemon that
\* dies, move a call on or end it.
MovesOn ==
    /\ DOMAIN pc' = Calls
    /\ UNCHANGED <<supervise, second, executed>>
    /\ late' \in {late, NoneLate}
    /\ \A c \in Calls :
         pc'[c] = pc[c] \/ pc'[c] = "done" \/
         (pc'[c] # "idle" /\ pc[c] \in {"probe", "ensure", "wait", "fetch", "inside"}) \/
         pc'[c] = "headers"

LEMMA MovesOnKeeps == ASSUME CountInv, MovesOn PROVE CountInv'
<1>1. late' \in [Calls -> Nat] /\ \A c \in Calls : late'[c] \in {late[c], 0}
  BY DEF CountInv, MovesOn, NoneLate
<1>2. ASSUME NEW c \in Calls PROVE Sent(c)' <= Sent(c) /\ Sent(c) \in Nat
  <2>1. executed[c] \in Nat /\ late[c] \in Nat /\ executed'[c] = executed[c]
    BY DEF CountInv, MovesOn
  <2> QED
    BY <1>1, <2>1 DEF Sent
<1>3. \A c \in Calls : Sent(c)' \in Nat
  BY <1>1 DEF CountInv, MovesOn, Sent
<1> QED
  BY <1>1, <1>2, <1>3 DEF CountInv, MovesOn

\* A callFetch fails; where it had brought its request to a daemon, that one may
\* keep it.
LEMMA FailureKeeps ==
    ASSUME CountInv, NEW c \in Calls, pc[c] # "idle", TransportFailure(c),
           late' = late \/ (pc[c] = "inside" /\ late' = [late EXCEPT ![c] = @ + 1])
    PROVE  CountInv'
<1>1. executed[c] \in Nat /\ late[c] \in Nat /\ second[c] \in BOOLEAN /\ executed' = executed
  BY DEF CountInv, TransportFailure, Finish
<1>2. late' \in [Calls -> Nat] /\ \A d \in Calls \ {c} : late'[d] = late[d]
  BY <1>1 DEF CountInv
<1>3. Sent(c)' \in Nat /\ Sent(c)' <= (IF second[c] THEN 2 ELSE 1)
  <2>1. CASE late' = late
    BY <1>1, <2>1 DEF CountInv, Sent
  <2>2. CASE pc[c] = "inside" /\ late' = [late EXCEPT ![c] = @ + 1]
    <3>1. late'[c] = late[c] + 1 /\ Sent(c) <= (IF second[c] THEN 1 ELSE 0)
      BY <2>2 DEF CountInv
    <3> QED
      BY <1>1, <3>1 DEF Sent
  <2> QED
    BY <2>1, <2>2
<1>4. ASSUME NEW d \in Calls \ {c} PROVE Sent(d)' = Sent(d)
  BY <1>1, <1>2 DEF Sent
<1>5. CASE supervise[c] /\ ~second[c]
  <2>1. /\ second' = [second EXCEPT ![c] = TRUE]
        /\ pc' = [pc EXCEPT ![c] = "ensure"]
        /\ UNCHANGED supervise
    BY <1>5 DEF TransportFailure, Goto
  <2>2. /\ second'[c] = TRUE /\ pc'[c] = "ensure"
        /\ \A d \in Calls \ {c} : second'[d] = second[d] /\ pc'[d] = pc[d]
        /\ DOMAIN pc' = Calls /\ DOMAIN second' = Calls
    BY <2>1 DEF CountInv
  <2>3. Sent(c)' <= 1 /\ Sent(c)' <= 2
    BY <1>3, <1>5
  <2>4. ASSUME NEW d \in Calls
        PROVE  /\ second'[d] \in BOOLEAN
               /\ second'[d] => supervise'[d]
               /\ pc'[d] = "idle" => ~second'[d]
               /\ Sent(d)' <= (IF second'[d] THEN 2 ELSE 1)
               /\ pc'[d] \in {"idle", "probe", "ensure", "wait", "fetch", "inside"} =>
                    Sent(d)' <= (IF second'[d] THEN 1 ELSE 0)
    <3>1. CASE d = c
      BY <1>5, <2>1, <2>2, <2>3, <3>1
    <3>2. CASE d # c
      BY <1>4, <2>1, <2>2, <3>2 DEF CountInv
    <3> QED
      BY <3>1, <3>2
  <2>5. DOMAIN pc' = Calls /\ DOMAIN second' = Calls /\ DOMAIN supervise' = Calls
    BY <2>1, <2>2 DEF CountInv
  <2>6. executed' \in [Calls -> Nat] /\ late' \in [Calls -> Nat]
    BY <1>1, <1>2 DEF CountInv
  <2> QED
    BY <2>4, <2>5, <2>6, Zenon DEF CountInv
<1>6. CASE ~(supervise[c] /\ ~second[c])
  <2>1. pc' = [pc EXCEPT ![c] = "done"] /\ UNCHANGED <<supervise, second>>
    BY <1>6 DEF TransportFailure, Finish, Goto
  <2>2. pc'[c] = "done" /\ DOMAIN pc' = Calls /\ \A d \in Calls \ {c} : pc'[d] = pc[d]
    BY <2>1 DEF CountInv
  <2> QED
    BY <1>1, <1>2, <1>3, <1>4, <2>1, <2>2 DEF CountInv
<1> QED
  BY <1>5, <1>6

\* A handler runs, or rejects: for the call itself or for what it has given up.
LEMMA HandledKeeps ==
    ASSUME CountInv, NEW c \in Calls, NEW w, pc'[c] = w, w # "idle",
           DOMAIN pc' = Calls, \A d \in Calls \ {c} : pc'[d] = pc[d],
           w = pc[c] \/ w \in {"executed", "rejected"},
           UNCHANGED <<supervise, second>>,
           executed' = executed \/ executed' = [executed EXCEPT ![c] = @ + 1],
           \/ pc[c] = "inside" /\ w \in {"executed", "rejected"} /\ late' = late
           \/ w = pc[c] /\ late[c] > 0 /\ late' = [late EXCEPT ![c] = @ - 1]
    PROVE  CountInv'
<1>1. executed[c] \in Nat /\ late[c] \in Nat /\ second[c] \in BOOLEAN
  BY DEF CountInv
<1>2. /\ executed' \in [Calls -> Nat] /\ executed'[c] \in {executed[c], executed[c] + 1}
      /\ \A d \in Calls \ {c} : executed'[d] = executed[d]
  BY <1>1 DEF CountInv
<1>3. late' \in [Calls -> Nat] /\ \A d \in Calls \ {c} : late'[d] = late[d]
  BY <1>1 DEF CountInv
<1>4. ASSUME NEW d \in Calls \ {c} PROVE Sent(d)' = Sent(d) /\ pc'[d] = pc[d]
  BY <1>2, <1>3 DEF Sent, CountInv
<1>5. pc'[c] = w /\ DOMAIN pc' = Calls
  OBVIOUS
<1>6. CASE pc[c] = "inside" /\ w \in {"executed", "rejected"} /\ late' = late
  <2>1. Sent(c)' <= (IF second[c] THEN 2 ELSE 1)
    <3>1. Sent(c) <= (IF second[c] THEN 1 ELSE 0)
      BY <1>6 DEF CountInv
    <3> QED
      BY <1>1, <1>2, <1>6, <3>1 DEF Sent
  <2> QED
    BY <1>2, <1>3, <1>4, <1>5, <1>6, <2>1 DEF CountInv
<1>7. CASE w = pc[c] /\ late[c] > 0 /\ late' = [late EXCEPT ![c] = @ - 1]
  <2>1. Sent(c)' <= Sent(c) /\ Sent(c)' \in Nat /\ Sent(c) \in Nat
    <3>1. late'[c] = late[c] - 1
      BY <1>7 DEF CountInv
    <3> QED
      BY <1>1, <1>2, <1>7, <3>1 DEF Sent
  <2>2. Sent(c)' <= (IF second[c] THEN 2 ELSE 1)
    BY <1>1, <2>1 DEF CountInv
  <2>3. pc[c] \in {"idle", "probe", "ensure", "wait", "fetch", "inside"} =>
           Sent(c)' <= (IF second[c] THEN 1 ELSE 0)
    BY <1>1, <2>1 DEF CountInv
  <2> QED
    BY <1>2, <1>3, <1>4, <1>5, <1>7, <2>2, <2>3 DEF CountInv
<1> QED
  BY <1>6, <1>7

LEMMA CallCounts ==
    ASSUME CountInv, NEW c \in Calls, Request(c) \/ callStep(c) \/ LateHandle(c)
    PROVE  CountInv'
<1>1. CASE Request(c)
  <2>1. PICK s \in BOOLEAN :
          /\ supervise' = [supervise EXCEPT ![c] = s]
          /\ pc' = [pc EXCEPT ![c] = IF s THEN "probe" ELSE "fetch"]
    BY <1>1 DEF Request, Goto
  <2>2. UNCHANGED <<second, executed, late>> /\ pc[c] = "idle"
    BY <1>1 DEF Request
  <2> QED
    BY <2>1, <2>2 DEF CountInv, Sent
<1>2. CASE Probe(c) \/ EnsureDaemon(c)
  BY <1>2, MovesOnKeeps DEF Probe, EnsureDaemon, Goto, MovesOn, CountInv
<1>3. CASE Open(c)
  <2>1. CASE alive
    BY <1>3, <2>1, MovesOnKeeps DEF Open, Goto, MovesOn, CountInv
  <2>2. CASE ~alive
    BY <1>3, <2>2, FailureKeeps DEF Open
  <2> QED
    BY <2>1, <2>2
<1>4. CASE Handle(c)
  <2>1. PICK w \in {"executed", "rejected"} :
          pc'[c] = w /\ DOMAIN pc' = Calls /\ \A d \in Calls \ {c} : pc'[d] = pc[d]
    BY <1>4 DEF Handle, Goto, CountInv
  <2>2. /\ pc[c] = "inside" /\ UNCHANGED <<supervise, second, late>>
        /\ executed' = executed \/ executed' = [executed EXCEPT ![c] = @ + 1]
    BY <1>4 DEF Handle
  <2> QED
    BY <2>1, <2>2, HandledKeeps
<1>5. CASE Answer(c) \/ Body(c)
  BY <1>5, MovesOnKeeps DEF Answer, Body, Finish, Goto, MovesOn, CountInv
<1>6. CASE Lost(c) \/ Abort(c)
  <2>1. /\ pc[c] # "idle" /\ TransportFailure(c)
        /\ late' = late \/ (pc[c] = "inside" /\ late' = [late EXCEPT ![c] = @ + 1])
    BY <1>6 DEF Lost, Abort, InFlight
  <2> QED
    BY <2>1, FailureKeeps
<1>7. CASE LateHandle(c)
  <2>1. UNCHANGED <<pc, supervise, second>> /\ DOMAIN pc = Calls
    BY <1>7 DEF LateHandle, CountInv
  <2>2. /\ late[c] > 0 /\ late' = [late EXCEPT ![c] = @ - 1]
        /\ executed' = executed \/ executed' = [executed EXCEPT ![c] = @ + 1]
    BY <1>7 DEF LateHandle
  <2>3. CASE pc[c] # "idle"
    BY <2>1, <2>2, <2>3, HandledKeeps
  <2>4. CASE pc[c] = "idle"
    <3>1. Sent(c) <= 0 /\ executed[c] \in Nat /\ late[c] \in Nat
      BY <2>4 DEF CountInv
    <3> QED
      BY <2>2, <3>1 DEF Sent
  <2> QED
    BY <2>3, <2>4
<1> QED
  BY <1>1, <1>2, <1>3, <1>4, <1>5, <1>6, <1>7 DEF callStep

LEMMA AttemptCounts ==
    ASSUME CountInv, NEW a \in DOMAIN attempts, attemptStep(a)
    PROVE  CountInv'
<1>1. UNCHANGED <<supervise, second, executed>> /\ DOMAIN pc' = Calls /\ late' \in {late, NoneLate}
  BY DEF attemptStep, AttemptProbe, SpawnFetchd, HostSpawner, SpawnPoll, Settle, callVars, CountInv
<1>2. \A c \in Calls : pc'[c] = pc[c] \/ pc'[c] = "done" \/ (pc'[c] = "fetch" /\ pc[c] = "wait")
  BY DEF attemptStep, AttemptProbe, SpawnFetchd, HostSpawner, SpawnPoll, Settle, Awaiting, callVars
<1> QED
  BY <1>1, <1>2, MovesOnKeeps DEF MovesOn

\* What is known of the count at each step of a call.
LEMMA CountInvariant == Spec => []CountInv
<1>1. Init => CountInv
  BY DEF Init, CountInv, Sent, NoneLate
<1>2. CountInv /\ [Next]_vars => CountInv'
  <2> SUFFICES ASSUME CountInv, [Next]_vars PROVE CountInv'
    OBVIOUS
  <2>1. CASE UNCHANGED vars \/ Crash \/ OtherSpawns \/ Boot
    BY <2>1, MovesOnKeeps DEF vars, callVars, Crash, OtherSpawns, Boot, CountInv, MovesOn
  <2>2. CASE \E a \in DOMAIN attempts : attemptStep(a)
    BY <2>2, AttemptCounts
  <2>3. CASE \E c \in Calls : Request(c) \/ callStep(c) \/ LateHandle(c)
    BY <2>3, CallCounts
  <2> QED
    BY <2>1, <2>2, <2>3 DEF Next
<1> QED
  BY <1>1, <1>2, PTL DEF Spec

\* A request is carried out twice at most, and once without supervision or
\* without a failure (send, js/src/index.ts), what fetchd does after the client
\* has given up included.
THEOREM NeverThrice == Spec => []ReplayedOnce
<1>1. CountInv => ReplayedOnce
  <2> SUFFICES ASSUME CountInv, NEW c \in Calls
               PROVE  executed[c] <= (IF supervise[c] /\ second[c] THEN 2 ELSE 1)
    BY DEF ReplayedOnce
  <2>1. executed[c] \in Nat /\ late[c] \in Nat /\ executed[c] <= Sent(c)
    BY DEF CountInv, Sent
  <2>2. Sent(c) <= (IF second[c] THEN 2 ELSE 1) /\ (second[c] => supervise[c]) /\ second[c] \in BOOLEAN
    BY DEF CountInv
  <2>3. Sent(c) \in Nat
    BY <2>1 DEF Sent
  <2> QED
    BY <2>1, <2>2, <2>3
<1> QED
  BY <1>1, CountInvariant, PTL

------------------------------------------------------------------------------
\* The types that EnsureInv and CountInv leave open.
DaemonTypes == epoch \in 0..MaxEpoch /\ alive \in BOOLEAN /\ booting \in Nat
CallTypes ==
    /\ pc \in [Calls -> {"idle", "probe", "ensure", "wait", "fetch", "done"} \cup InFlight]
    /\ waits \in [Calls -> Nat]
    /\ supervise \in [Calls -> BOOLEAN]
    /\ second \in [Calls -> BOOLEAN]
    /\ at \in [Calls -> 0..MaxEpoch]
    /\ answered \in [Calls -> BOOLEAN]
    /\ result \in [Calls -> Results]

LEMMA DaemonTypesNext == ASSUME DaemonTypes, [Next]_vars PROVE DaemonTypes'
<1> USE DEF DaemonTypes
<1> DEFINE Starts == epoch # MaxEpoch /\ epoch' = epoch + 1 /\ alive' = TRUE
<1>1. CASE UNCHANGED vars \/ Crash \/ OtherSpawns
  <2>1. booting' \in Nat
    BY <1>1 DEF vars, daemonVars, Crash, OtherSpawns
  <2>2. epoch' = epoch /\ alive' \in {alive, FALSE}
    BY <1>1, Zenon DEF vars, daemonVars, Crash, OtherSpawns
  <2> QED
    BY <2>1, <2>2
<1>2. ASSUME UNCHANGED <<epoch, alive>> \/ Starts PROVE epoch' \in 0..MaxEpoch /\ alive' \in BOOLEAN
  <2>1. CASE UNCHANGED <<epoch, alive>>
    BY <2>1
  <2>2. CASE Starts
    <3>1. epoch' \in 0..MaxEpoch
      BY <2>2, JsAssumption
    <3> QED
      BY <2>2, <3>1
  <2> QED
    BY <1>2, <2>1, <2>2
<1>3. CASE Boot
  <2>1. booting' \in Nat
    BY <1>3 DEF Boot
  <2>2. UNCHANGED <<epoch, alive>> \/ Starts
    BY <1>3, Zenon DEF Boot
  <2> QED
    BY <1>2, <2>1, <2>2
<1>5. ASSUME NEW a \in DOMAIN attempts, attemptStep(a) PROVE DaemonTypes'
  <2>1. booting' = booting \/ booting' = booting + 1
    BY <1>5, Zenon DEF attemptStep, AttemptProbe, SpawnFetchd, HostSpawner, SpawnPoll, daemonVars
  <2>2. UNCHANGED <<epoch, alive>> \/ (epoch < MaxEpoch /\ epoch' = epoch + 1 /\ alive' = TRUE)
    BY <1>5, Zenon DEF attemptStep, AttemptProbe, SpawnFetchd, HostSpawner, SpawnPoll, daemonVars
  <2>3. ASSUME epoch < MaxEpoch PROVE epoch # MaxEpoch
    <3>1. epoch \in Nat /\ MaxEpoch \in Nat
      BY JsAssumption
    <3> QED
      BY <2>3, <3>1
  <2>4. UNCHANGED <<epoch, alive>> \/ Starts
    BY <2>2, <2>3, Zenon
  <2>5. booting' \in Nat
    BY <2>1
  <2>6. epoch' \in 0..MaxEpoch /\ alive' \in BOOLEAN
    BY <1>2, <2>4, Zenon
  <2> QED
    BY <2>5, <2>6, Zenon
<1>4. ASSUME NEW c \in Calls, Request(c) \/ callStep(c) \/ LateHandle(c) PROVE DaemonTypes'
  BY <1>4 DEF Request, callStep, Probe, EnsureDaemon, Open, Handle, Answer, Body, Lost, Abort,
              LateHandle, daemonVars
<1> QED
  BY <1>1, <1>3, <1>4, <1>5 DEF Next

LEMMA FinishTypes ==
    ASSUME CallTypes, NEW c \in Calls, NEW res \in Results, Finish(c, res)
    PROVE  CallTypes'
  BY DEF CallTypes, Finish, Goto

LEMMA FailureTypes ==
    ASSUME CallTypes, NEW c \in Calls, TransportFailure(c)
    PROVE  CallTypes'
<1>1. CASE supervise[c] /\ ~second[c]
  BY <1>1 DEF TransportFailure, Goto, CallTypes
<1>2. CASE ~(supervise[c] /\ ~second[c])
  BY <1>2, FinishTypes DEF TransportFailure, Results
<1> QED
  BY <1>1, <1>2

\* What a settled attempt does to the calls that wait for it.
LEMMA SettleTypes ==
    ASSUME CallTypes, NEW a, NEW res \in Settled, Settle(a, res)
    PROVE  CallTypes'
<1>1. /\ pc' = [c \in Calls |->
                  IF c \notin Awaiting(a) THEN pc[c]
                  ELSE IF Resumed(c, res) = "none" THEN "fetch" ELSE "done"]
      /\ result' = [c \in Calls |-> IF c \in Awaiting(a) THEN Resumed(c, res) ELSE result[c]]
      /\ UNCHANGED <<waits, supervise, second, at, answered>>
  BY DEF Settle
<1>2. \A c \in Calls : Resumed(c, res) \in Results
  BY DEF Resumed, Results
<1> QED
  BY <1>1, <1>2 DEF CallTypes

LEMMA CallTypesNext ==
    ASSUME CallTypes, EnsureInv, DaemonTypes, [Next]_vars
    PROVE  CallTypes'
<1>1. CASE UNCHANGED vars \/ Crash \/ OtherSpawns \/ Boot
  BY <1>1 DEF vars, callVars, Crash, OtherSpawns, Boot, CallTypes
<1>2. ASSUME NEW a \in DOMAIN attempts, attemptStep(a) PROVE CallTypes'
  <2>1. UNCHANGED callVars \/ \E res \in Settled : Settle(a, res)
    BY <1>2 DEF attemptStep, AttemptProbe, SpawnFetchd, HostSpawner, SpawnPoll, Settled
  <2> QED
    BY <2>1, SettleTypes DEF CallTypes, callVars
<1>3. ASSUME NEW c \in Calls, Request(c) \/ Probe(c) PROVE CallTypes'
  BY <1>3 DEF Request, Probe, Goto, CallTypes
<1>4. ASSUME NEW c \in Calls, EnsureDaemon(c) PROVE CallTypes'
  <2>1. PICK a \in Nat : waits' = [waits EXCEPT ![c] = a]
    BY <1>4 DEF EnsureDaemon, EnsureInv, NewAttempt
  <2> QED
    BY <1>4, <2>1 DEF EnsureDaemon, Goto, CallTypes
<1>5. ASSUME NEW c \in Calls, Open(c) PROVE CallTypes'
  <2>1. CASE alive
    BY <1>5, <2>1 DEF Open, Goto, CallTypes, DaemonTypes, InFlight
  <2>2. CASE ~alive
    BY <1>5, <2>2, FailureTypes DEF Open
  <2> QED
    BY <2>1, <2>2
<1>6. ASSUME NEW c \in Calls, Handle(c) PROVE CallTypes'
  BY <1>6 DEF Handle, Goto, CallTypes, InFlight
<1>7. ASSUME NEW c \in Calls, Answer(c) PROVE CallTypes'
  <2>1. CASE Finish(c, "typed")
    BY <2>1, FinishTypes DEF Results
  <2>2. CASE ~Finish(c, "typed")
    BY <1>7, <2>2 DEF Answer, Goto, CallTypes, InFlight
  <2> QED
    BY <2>1, <2>2
<1>8. ASSUME NEW c \in Calls, Body(c) PROVE CallTypes'
  BY <1>8, FinishTypes DEF Body, Results
<1>9. ASSUME NEW c \in Calls, Lost(c) \/ Abort(c) PROVE CallTypes'
  BY <1>9, FailureTypes DEF Lost, Abort
<1>10. ASSUME NEW c \in Calls, LateHandle(c) PROVE CallTypes'
  BY <1>10 DEF LateHandle, CallTypes
<1> QED
  BY <1>1, <1>2, <1>3, <1>4, <1>5, <1>6, <1>7, <1>8, <1>9, <1>10 DEF Next, callStep

LEMMA CallTypesInvariant == Spec => [](DaemonTypes /\ CallTypes)
<1>1. Init => DaemonTypes /\ CallTypes
  BY JsAssumption DEF Init, DaemonTypes, CallTypes, Results
<1>2. EnsureInv /\ DaemonTypes /\ CallTypes /\ [Next]_vars => DaemonTypes' /\ CallTypes'
  BY DaemonTypesNext, CallTypesNext
<1> QED
  BY <1>1, <1>2, EnsureInvariant, PTL DEF Spec

\* Every variable of the client keeps its type; in particular the attempt a
\* call awaits is one that was begun, and pendingStart is null or one of them.
THEOREM TypesKept == Spec => []TypeOK
<1>1. EnsureInv /\ CountInv /\ DaemonTypes /\ CallTypes => TypeOK
  <2> SUFFICES ASSUME EnsureInv, CountInv, DaemonTypes, CallTypes PROVE TypeOK
    OBVIOUS
  <2>1. executed \in [Calls -> 0..2] /\ late \in [Calls -> 0..2]
    <3>1. executed \in [Calls -> Nat] /\ late \in [Calls -> Nat]
      BY DEF CountInv
    <3>2. ASSUME NEW c \in Calls PROVE executed[c] \in 0..2 /\ late[c] \in 0..2
      <4>1. executed[c] \in Nat /\ late[c] \in Nat /\ Sent(c) <= (IF second[c] THEN 2 ELSE 1)
        BY DEF CountInv
      <4> QED
        BY <4>1 DEF Sent
    <3> QED
      BY <3>1, <3>2
  <2>2. pending \in {0} \cup DOMAIN attempts
    BY DEF EnsureInv
  <2>3. \A c \in Calls : pc[c] = "wait" => waits[c] \in DOMAIN attempts
    BY DEF EnsureInv
  <2> QED
    BY <2>1, <2>2, <2>3 DEF EnsureInv, DaemonTypes, CallTypes, TypeOK
<1> QED
  BY <1>1, EnsureInvariant, CountInvariant, CallTypesInvariant, PTL

------------------------------------------------------------------------------
(* JsClient implements Delivery.                                           *)

\* A call whose answer is due, or has begun, has been carried out.
ReachedInv == \A c \in Calls : pc[c] \in {"executed", "headers"} => executed[c] # 0

\* Every invariant the refinement needs.
DeliveryInv == CountInv /\ CallTypes /\ ReachedInv

LEMMA ReachedNext == ASSUME CountInv, CallTypes, ReachedInv, [Next]_vars PROVE ReachedInv'
<1> USE DEF ReachedInv
<1>1. DOMAIN pc = Calls /\ DOMAIN executed = Calls
  BY DEF CallTypes, CountInv
<1>2. ASSUME UNCHANGED executed,
             \A c \in Calls : pc'[c] = pc[c] \/ pc'[c] \notin {"executed", "headers"}
      PROVE  ReachedInv'
  BY <1>2
<1>3. CASE UNCHANGED vars \/ Crash \/ OtherSpawns \/ Boot
  BY <1>2, <1>3 DEF vars, callVars, Crash, OtherSpawns, Boot
<1>4. ASSUME NEW a \in DOMAIN attempts, attemptStep(a) PROVE ReachedInv'
  BY <1>2, <1>4 DEF attemptStep, AttemptProbe, SpawnFetchd, HostSpawner, SpawnPoll, Settle, callVars
<1>5. ASSUME NEW c \in Calls,
             Request(c) \/ Probe(c) \/ EnsureDaemon(c) \/ Open(c) \/ Body(c) \/ Lost(c) \/ Abort(c)
      PROVE  ReachedInv'
  BY <1>1, <1>2, <1>5 DEF Request, Probe, EnsureDaemon, Open, Body, Lost, Abort, TransportFailure,
                          Finish, Goto
<1>6. ASSUME NEW c \in Calls, Handle(c) PROVE ReachedInv'
  <2>1. CASE executed' = [executed EXCEPT ![c] = @ + 1] /\ pc' = [pc EXCEPT ![c] = "executed"]
    <3>1. executed[c] \in Nat /\ executed'[c] = executed[c] + 1
      BY <1>1, <2>1 DEF CountInv
    <3>2. executed'[c] # 0
      BY <3>1
    <3> QED
      BY <1>1, <2>1, <3>2
  <2>2. CASE UNCHANGED executed /\ pc' = [pc EXCEPT ![c] = "rejected"]
    BY <1>1, <1>2, <2>2
  <2> QED
    BY <1>6, <2>1, <2>2 DEF Handle, Goto
<1>7. ASSUME NEW c \in Calls, Answer(c) PROVE ReachedInv'
  <2>1. executed' = executed
    BY <1>7 DEF Answer, Finish
  <2>2. \/ pc[c] = "executed" /\ pc' = [pc EXCEPT ![c] = "headers"]
        \/ pc' = [pc EXCEPT ![c] = "done"]
    BY <1>7 DEF Answer, Finish, Goto
  <2> QED
    BY <1>1, <2>1, <2>2
<1>8. ASSUME NEW c \in Calls, LateHandle(c) PROVE ReachedInv'
  <2>1. /\ pc' = pc /\ executed[c] \in Nat
        /\ executed' = executed \/ executed' = [executed EXCEPT ![c] = executed[c] + 1]
    BY <1>8 DEF LateHandle, CountInv
  <2>2. executed[c] + 1 # 0
    BY <2>1
  <2> QED
    BY <1>1, <2>1, <2>2
<1> QED
  BY <1>3, <1>4, <1>5, <1>6, <1>7, <1>8 DEF Next, callStep

\* A call that goes on, and one that ends.
LEMMA GoesOn ==
    ASSUME CallTypes, NEW c \in Calls, pc[c] \notin {"idle", "done"}, NEW where,
           where \notin {"idle", "done"}, pc' = [pc EXCEPT ![c] = where],
           UNCHANGED <<supervise, result>>
    PROVE  Status' = Status /\ Allowed' = Allowed /\ Status[c] = "asked"
  BY DEF CallTypes, Status, Allowed

LEMMA Ends ==
    ASSUME CallTypes, NEW c \in Calls, pc[c] \notin {"idle", "done"}, NEW res, Finish(c, res)
    PROVE  /\ Status' = [Status EXCEPT ![c] = IF res = "ok" THEN "ok" ELSE "failed"]
           /\ Status[c] = "asked" /\ Allowed' = Allowed /\ executed' = executed
<1>1. /\ pc' = [pc EXCEPT ![c] = "done"] /\ result' = [result EXCEPT ![c] = res]
      /\ executed' = executed /\ supervise' = supervise
  BY DEF Finish, Goto
<1>2. DOMAIN pc = Calls /\ DOMAIN result = Calls
  BY DEF CallTypes
<1>3. ASSUME NEW d \in Calls
      PROVE  Status'[d] = [Status EXCEPT ![c] = IF res = "ok" THEN "ok" ELSE "failed"][d]
  <2>1. CASE d = c
    BY <1>1, <1>2, <2>1 DEF Status
  <2>2. CASE d # c
    BY <1>1, <1>2, <2>2 DEF Status
  <2> QED
    BY <2>1, <2>2
<1>4. Status' = [Status EXCEPT ![c] = IF res = "ok" THEN "ok" ELSE "failed"]
  BY <1>3 DEF Status
<1>5. Status[c] = "asked" /\ Allowed' = Allowed
  BY <1>1 DEF Status, Allowed
<1> QED
  BY <1>1, <1>4, <1>5

\* Some calls fail, all of them at once.
LEMMA FailsTogether ==
    ASSUME NEW C \in SUBSET Calls, \A c \in C : Status[c] = "asked",
           Status' = [c \in Calls |-> IF c \in C THEN "failed" ELSE Status[c]],
           UNCHANGED <<Allowed, executed>>
    PROVE  Promise!Next
<1>1. Promise!Fail(C)
  BY DEF Promise!Fail
<1> QED
  BY <1>1 DEF Promise!Next

LEMMA FailsAlone ==
    ASSUME CallTypes, NEW c \in Calls, pc[c] \notin {"idle", "done"}, NEW res, res # "ok", Finish(c, res)
    PROVE  Promise!Next
<1>1. /\ Status' = [Status EXCEPT ![c] = "failed"] /\ Status[c] = "asked"
      /\ UNCHANGED <<Allowed, executed>>
  BY Ends
<1>2. Status' = [d \in Calls |-> IF d \in {c} THEN "failed" ELSE Status[d]]
  BY <1>1 DEF Status
<1> QED
  BY <1>1, <1>2, FailsTogether

LEMMA FailureDelivers ==
    ASSUME CallTypes, NEW c \in Calls, pc[c] \notin {"idle", "done"}, TransportFailure(c)
    PROVE  [Promise!Next]_(Promise!vars)
<1>1. CASE supervise[c] /\ ~second[c]
  BY <1>1, GoesOn DEF TransportFailure, Goto, Promise!vars
<1>2. CASE ~(supervise[c] /\ ~second[c])
  BY <1>2, FailsAlone DEF TransportFailure
<1> QED
  BY <1>1, <1>2

\* The calls that wait for an attempt go on, or fail with it.
LEMMA SettleDelivers ==
    ASSUME CallTypes, NEW a, NEW res \in Settled, Settle(a, res)
    PROVE  Promise!Next
<1> DEFINE C == {c \in Awaiting(a) : Resumed(c, res) # "none"}
<1>1. /\ pc' = [c \in Calls |->
                  IF c \notin Awaiting(a) THEN pc[c]
                  ELSE IF Resumed(c, res) = "none" THEN "fetch" ELSE "done"]
      /\ result' = [c \in Calls |-> IF c \in Awaiting(a) THEN Resumed(c, res) ELSE result[c]]
      /\ executed' = executed /\ supervise' = supervise
  BY DEF Settle
<1>2. C \in SUBSET Calls /\ \A c \in Awaiting(a) : c \in Calls /\ pc[c] = "wait"
  BY DEF Awaiting
<1>3. \A c \in Calls : Resumed(c, res) # "ok"
  BY DEF Resumed
<1>4. \A c \in C : Status[c] = "asked"
  BY <1>2 DEF Status
<1>5. ASSUME NEW c \in Calls PROVE Status'[c] = IF c \in C THEN "failed" ELSE Status[c]
  <2>1. CASE c \notin Awaiting(a)
    BY <1>1, <2>1 DEF Status
  <2>2. CASE c \in Awaiting(a) /\ Resumed(c, res) = "none"
    BY <1>1, <1>2, <2>2 DEF Status
  <2>3. CASE c \in Awaiting(a) /\ Resumed(c, res) # "none"
    <3>1. pc'[c] = "done" /\ result'[c] # "ok"
      BY <1>1, <1>3, <2>3
    <3> QED
      BY <2>3, <3>1 DEF Status
  <2> QED
    BY <2>1, <2>2, <2>3
<1>6. Status' = [c \in Calls |-> IF c \in C THEN "failed" ELSE Status[c]]
  BY <1>5 DEF Status
<1>7. Allowed' = Allowed
  BY <1>1 DEF Allowed
<1> HIDE DEF C
<1> QED
  BY <1>1, <1>2, <1>4, <1>6, <1>7, FailsTogether

LEMMA Delivers == ASSUME DeliveryInv, [Next]_vars PROVE [Promise!Next]_(Promise!vars)
<1>1. CallTypes /\ CountInv /\ ReachedInv
  BY DEF DeliveryInv
<1>2. CASE UNCHANGED vars \/ Crash \/ OtherSpawns \/ Boot
  BY <1>2 DEF vars, callVars, Crash, OtherSpawns, Boot, Status, Allowed, Promise!vars
<1>3. ASSUME NEW a \in DOMAIN attempts, attemptStep(a) PROVE [Promise!Next]_(Promise!vars)
  <2>1. UNCHANGED callVars \/ \E res \in Settled : Settle(a, res)
    BY <1>3 DEF attemptStep, AttemptProbe, SpawnFetchd, HostSpawner, SpawnPoll, Settled
  <2>2. CASE UNCHANGED callVars
    BY <2>2 DEF callVars, Status, Allowed, Promise!vars
  <2> QED
    BY <1>1, <2>1, <2>2, SettleDelivers
<1>4. ASSUME NEW c \in Calls, Request(c) PROVE [Promise!Next]_(Promise!vars)
  <2>1. PICK s \in BOOLEAN :
          /\ supervise' = [supervise EXCEPT ![c] = s]
          /\ pc' = [pc EXCEPT ![c] = IF s THEN "probe" ELSE "fetch"]
    BY <1>4 DEF Request, Goto
  <2>2. pc[c] = "idle" /\ UNCHANGED <<executed, result>>
    BY <1>4 DEF Request
  <2>4. Status[c] = "idle" /\ Status' = [Status EXCEPT ![c] = "asked"]
    BY <1>1, <2>1, <2>2 DEF Status, CallTypes
  <2>5. Allowed' = [Allowed EXCEPT ![c] = IF s THEN 2 ELSE 1]
    BY <1>1, <2>1 DEF Allowed, CallTypes
  <2>6. (IF s THEN 2 ELSE 1) \in 1..2
    OBVIOUS
  <2>7. Promise!Ask(c)
    BY <2>2, <2>4, <2>5, <2>6 DEF Promise!Ask
  <2> QED
    BY <2>7 DEF Promise!Next
<1>5. ASSUME NEW c \in Calls, Probe(c) \/ EnsureDaemon(c) PROVE [Promise!Next]_(Promise!vars)
  BY <1>1, <1>5, GoesOn DEF Probe, EnsureDaemon, Goto, Promise!vars
<1>6. ASSUME NEW c \in Calls, Open(c) PROVE [Promise!Next]_(Promise!vars)
  <2>1. pc[c] \notin {"idle", "done"}
    BY <1>6 DEF Open
  <2>2. TransportFailure(c) \/ (pc' = [pc EXCEPT ![c] = "inside"] /\ UNCHANGED <<supervise, result, executed>>)
    BY <1>6 DEF Open, Goto
  <2> QED
    BY <1>1, <2>1, <2>2, FailureDelivers, GoesOn DEF Promise!vars
<1>7. ASSUME NEW c \in Calls, Handle(c) PROVE [Promise!Next]_(Promise!vars)
  <2>1. pc[c] = "inside" /\ UNCHANGED <<supervise, result>>
    BY <1>7 DEF Handle
  <2>2. CASE executed' = [executed EXCEPT ![c] = @ + 1] /\ pc' = [pc EXCEPT ![c] = "executed"]
    <3>1. Status' = Status /\ Allowed' = Allowed /\ Status[c] = "asked"
      BY <1>1, <2>1, <2>2, GoesOn
    <3>2. executed[c] < Allowed[c]
      <4>1. executed[c] \in Nat /\ executed[c] <= (IF second[c] THEN 1 ELSE 0) /\ (second[c] => supervise[c])
        BY <1>1, <2>1 DEF CountInv, Sent
      <4>2. Allowed[c] = IF supervise[c] THEN 2 ELSE 1
        BY DEF Allowed
      <4> QED
        BY <4>1, <4>2
    <3>3. Promise!CarryOut(c)
      BY <2>2, <3>1, <3>2 DEF Promise!CarryOut
    <3> QED
      BY <3>3 DEF Promise!Next
  <2>3. CASE UNCHANGED executed /\ pc' = [pc EXCEPT ![c] = "rejected"]
    BY <1>1, <2>1, <2>3, GoesOn DEF Promise!vars
  <2> QED
    BY <1>7, <2>2, <2>3 DEF Handle, Goto
<1>8. ASSUME NEW c \in Calls, Answer(c) PROVE [Promise!Next]_(Promise!vars)
  <2>1. \/ /\ pc[c] = "executed" /\ pc' = [pc EXCEPT ![c] = "headers"]
           /\ UNCHANGED <<supervise, result, executed>>
        \/ pc[c] = "rejected" /\ Finish(c, "typed")
    BY <1>8 DEF Answer, Goto
  <2> QED
    BY <1>1, <2>1, GoesOn, FailsAlone DEF Promise!vars
<1>9. ASSUME NEW c \in Calls, Body(c) PROVE [Promise!Next]_(Promise!vars)
  <2>1. pc[c] = "headers" /\ \E res \in {"ok", "typed", "typed0"} : Finish(c, res)
    BY <1>9 DEF Body
  <2>2. CASE Finish(c, "ok")
    <3>1. Status' = [Status EXCEPT ![c] = "ok"] /\ Status[c] = "asked" /\ UNCHANGED <<Allowed, executed>>
      BY <1>1, <2>1, <2>2, Ends
    <3>2. executed[c] > 0
      BY <1>1, <2>1 DEF ReachedInv, CountInv
    <3>3. Promise!Succeed(c)
      BY <3>1, <3>2 DEF Promise!Succeed
    <3> QED
      BY <3>3 DEF Promise!Next
  <2> QED
    BY <1>1, <2>1, <2>2, FailsAlone
<1>10. ASSUME NEW c \in Calls, Lost(c) \/ Abort(c) PROVE [Promise!Next]_(Promise!vars)
  BY <1>1, <1>10, FailureDelivers DEF Lost, Abort, InFlight
<1>11. ASSUME NEW c \in Calls, LateHandle(c) PROVE [Promise!Next]_(Promise!vars)
  <2>1. UNCHANGED <<pc, supervise, result>>
    BY <1>11 DEF LateHandle
  <2>2. Status' = Status /\ Allowed' = Allowed
    BY <2>1 DEF Status, Allowed
  <2>3. CASE executed' = [executed EXCEPT ![c] = @ + 1]
    <3>1. executed[c] \in Nat /\ late[c] \in Nat /\ late[c] > 0
      BY <1>1, <1>11 DEF CountInv, LateHandle
    <3>2. Status[c] # "idle"
      <4>1. pc[c] # "idle"
        BY <1>1, <3>1 DEF CountInv, Sent
      <4> QED
        BY <4>1 DEF Status
    <3>3. executed[c] < Allowed[c]
      <4>1. Sent(c) <= (IF second[c] THEN 2 ELSE 1) /\ (second[c] => supervise[c])
        BY <1>1 DEF CountInv
      <4>2. Allowed[c] = IF supervise[c] THEN 2 ELSE 1
        BY DEF Allowed
      <4> QED
        BY <3>1, <4>1, <4>2 DEF Sent
    <3>4. Promise!CarryOut(c)
      BY <2>2, <2>3, <3>2, <3>3 DEF Promise!CarryOut
    <3> QED
      BY <3>4 DEF Promise!Next
  <2>4. CASE UNCHANGED executed
    BY <2>2, <2>4 DEF Promise!vars
  <2> QED
    BY <1>11, <2>3, <2>4 DEF LateHandle
<1> QED
  BY <1>2, <1>3, <1>4, <1>5, <1>6, <1>7, <1>8, <1>9, <1>10, <1>11 DEF Next, callStep

\* To its callers the JavaScript client is a Delivery: a call is carried out
\* twice at most, once where it does not supervise the daemon, what fetchd does
\* after the client has given up included, and success is only reported of a call that was carried out
\* (js/src/index.ts, send).
THEOREM DeliversTwice == Spec => DeliveredTwice
<1>1. Init => Promise!Init /\ ReachedInv
  <2> SUFFICES ASSUME Init PROVE Promise!Init /\ ReachedInv
    OBVIOUS
  <2>1. Status = [c \in Calls |-> "idle"] /\ Allowed = [c \in Calls |-> 2]
    BY DEF Init, Status, Allowed
  <2>2. executed = [c \in Calls |-> 0] /\ ReachedInv
    BY DEF Init, ReachedInv
  <2> QED
    BY <2>1, <2>2 DEF Promise!Init
<1>2. CountInv /\ CallTypes /\ ReachedInv /\ [Next]_vars => ReachedInv'
  BY ReachedNext
<1>3. CountInv /\ CallTypes /\ ReachedInv /\ [Next]_vars => [Promise!Next]_(Promise!vars)
  BY Delivers DEF DeliveryInv
<1> QED
  BY <1>1, <1>2, <1>3, CountInvariant, CallTypesInvariant, PTL DEF Spec, DeliveredTwice, Promise!Spec

==============================================================================
