--------------------------- MODULE WsdSessionProofs ---------------------------
(***************************************************************************)
(* Theorems about WsdSession, for any number of clients, calls and daemon  *)
(* restarts.                                                               *)
(***************************************************************************)
EXTENDS WsdSession, TLAPS

NotYetServed == {"probe", "ensure", "poll", "open", "inside"}
Answers == {"found", "missing", "refused"}
Endings == {"idle", "asked", "ok", "WsdError", "other"}

LedgerTypes ==
    /\ pc \in [Handles -> {"idle"} \cup NotYetServed \cup Answers]
    /\ op \in [Handles -> Ops]
    /\ calls \in [Handles -> 0..MaxCalls]
    /\ result \in [Handles -> [1..MaxCalls -> Endings]]
    /\ late \in [Handles -> [1..MaxCalls -> Ops \cup {"none"}]]
    /\ acted \in [Handles -> [1..MaxCalls -> 0..1]]

\* Call n of h: a request its client has given up has met no handler, nor has
\* one the client still tries to bring to the daemon; and a call is in one of
\* the two hands only.
Ledger(h, n) ==
    /\ n > calls[h] <=> result[h][n] = "idle"
    /\ n > calls[h] => acted[h][n] = 0
    /\ late[h][n] # "none" => n <= calls[h] /\ acted[h][n] = 0
    /\ n = calls[h] /\ pc[h] # "idle" => late[h][n] = "none" /\ result[h][n] = "asked"
    /\ n = calls[h] /\ pc[h] \in NotYetServed => acted[h][n] = 0
    /\ n = calls[h] /\ pc[h] = "found" => acted[h][n] = 1

LedgerInv ==
    /\ LedgerTypes
    /\ \A h \in Handles : pc[h] # "idle" => calls[h] # 0
    /\ \A h \in Handles, n \in 1..MaxCalls : Ledger(h, n)

ledgerVars == <<pc, op, calls, result, late, acted>>

\* What the steps of Next do to the ledger.
Moves(h) ==
    /\ pc[h] \in NotYetServed
    /\ \E w \in NotYetServed : pc' = [pc EXCEPT ![h] = w]
    /\ UNCHANGED <<op, calls, result, late, acted>>
Stops(h) ==
    /\ pc[h] # "idle"
    /\ pc' = [pc EXCEPT ![h] = "idle"]
    /\ \E res \in {"ok", "WsdError", "other"} :
         /\ res = "ok" => pc[h] = "found"
         /\ result' = [result EXCEPT ![h][calls[h]] = res]
    /\ \/ late' = late
       \/ pc[h] = "inside" /\ late' = [late EXCEPT ![h][calls[h]] = op[h]]
    /\ UNCHANGED <<op, calls, acted>>
Serves(h) ==
    /\ pc[h] = "inside"
    /\ \E w \in Answers : pc' = [pc EXCEPT ![h] = w]
    /\ acted' = [acted EXCEPT ![h][calls[h]] = @ + 1]
    /\ UNCHANGED <<op, calls, result, late>>
Lingers(h, n) ==
    /\ late[h][n] # "none"
    /\ late' = [late EXCEPT ![h][n] = "none"]
    /\ acted' = [acted EXCEPT ![h][n] = @ + 1]
    /\ UNCHANGED <<pc, op, calls, result>>
Elsewhere ==
    /\ late' \in {late, NoneLate}
    /\ UNCHANGED <<pc, op, calls, result, acted>>

LEMMA StepShape ==
    ASSUME LedgerTypes, [Next]_vars
    PROVE  \/ Elsewhere
           \/ \E h \in Handles : Call(h) \/ Moves(h) \/ Stops(h) \/ Serves(h)
           \/ \E h \in Handles, n \in 1..MaxCalls : Lingers(h, n)
<1>1. CASE Crash
    BY <1>1 DEF Crash, Elsewhere, clientVars
<1>2. CASE Boot \/ (\E i \in Ids : UpstreamDies(i) \/ GrowsOld(i)) \/ UNCHANGED vars
    BY <1>2 DEF Boot, UpstreamDies, GrowsOld, Elsewhere, vars, clientVars, handlerVars
<1>3. ASSUME NEW h \in Handles, pc[h] \in NotYetServed, Refused(h), UNCHANGED handlerVars
      PROVE  Moves(h) \/ Stops(h)
    BY <1>3 DEF Refused, Finish, Goto, Moves, Stops, NotYetServed, handlerVars
<1>4. ASSUME NEW h \in Handles, NEW ok \in BOOLEAN, pc[h] \in NotYetServed, Ensured(h, ok), UNCHANGED handlerVars
      PROVE  Moves(h) \/ Stops(h)
    BY <1>4 DEF Ensured, Finish, Goto, Moves, Stops, NotYetServed, handlerVars
<1>5. ASSUME NEW h \in Handles, Probe(h) PROVE Moves(h)
    BY <1>5 DEF Probe, Goto, Moves, NotYetServed, handlerVars
<1>6. ASSUME NEW h \in Handles, Ensure(h) \/ Poll(h) PROVE Moves(h) \/ Stops(h)
  <2>1. pc[h] \in NotYetServed /\ UNCHANGED handlerVars
    BY <1>6 DEF Ensure, Poll, NotYetServed
  <2>2. \/ \E ok \in BOOLEAN : Ensured(h, ok)
        \/ Goto(h, "poll") /\ UNCHANGED <<op, second, at, calls, result>>
    BY <1>6 DEF Ensure, Poll
  <2>3. CASE Goto(h, "poll") /\ UNCHANGED <<op, second, at, calls, result>>
    BY <2>1, <2>3 DEF Goto, Moves, NotYetServed, handlerVars
  <2> QED BY <1>4, <2>1, <2>2, <2>3
<1>7. ASSUME NEW h \in Handles, Open(h) PROVE Moves(h) \/ Stops(h)
  <2>1. pc[h] \in NotYetServed /\ UNCHANGED handlerVars
    BY <1>7 DEF Open, NotYetServed
  <2>2. Refused(h) \/ (Goto(h, "inside") /\ UNCHANGED <<op, calls, result>>)
    BY <1>7 DEF Open
  <2>3. CASE Goto(h, "inside") /\ UNCHANGED <<op, calls, result>>
    BY <2>1, <2>3 DEF Goto, Moves, NotYetServed, handlerVars
  <2> QED BY <1>3, <2>1, <2>2, <2>3
<1>8. ASSUME NEW h \in Handles, HandleDial(h) \/ HandleDialFails(h) \/ HandleConn(h) PROVE Serves(h)
    BY <1>8 DEF HandleDial, HandleDialFails, HandleConn, Goto, Acted, Serves, Answers
<1>9. ASSUME NEW h \in Handles, Reply(h) PROVE Stops(h)
    BY <1>9 DEF Reply, Finish, Goto, Stops, handlerVars
<1>10. ASSUME NEW h \in Handles, Broken(h) PROVE Moves(h) \/ Stops(h)
  <2>1. CASE Finish(h, "other")
    BY <1>10, <2>1 DEF Broken, Finish, Goto, Stops
  <2>2. CASE pc[h] = "inside" /\ Refused(h) /\ UNCHANGED late
    BY <1>3, <1>10, <2>2 DEF Broken, NotYetServed, handlerVars
  <2> QED BY <1>10, <2>1, <2>2 DEF Broken
<1>11. ASSUME NEW h \in Handles, NEW n \in 1..MaxCalls, LateDial(h, n) \/ LateConn(h, n) PROVE Lingers(h, n)
    BY <1>11 DEF LateDial, LateConn, LateEnds, Lingers, Acted, clientVars
<1> QED BY <1>1, <1>2, <1>5, <1>6, <1>7, <1>8, <1>9, <1>10, <1>11 DEF Next, step

\* A table of calls, and how it differs from another in one entry.
Table(S) == [Handles -> [1..MaxCalls -> S]]
Differs(f, e, h, k, v) ==
    \A g \in Handles, n \in 1..MaxCalls : e[g][n] = IF g = h /\ n = k THEN v ELSE f[g][n]

LEMMA OneEntry ==
    ASSUME NEW S, NEW f \in Table(S), NEW h \in Handles, NEW k \in 1..MaxCalls, NEW v \in S,
           NEW e, e = [f EXCEPT ![h][k] = v]
    PROVE  e \in Table(S) /\ Differs(f, e, h, k, v)
BY DEF Table, Differs

LEMMA LedgerInit == Init => LedgerInv
BY SessionAssumption DEF Init, LedgerInv, LedgerTypes, Ledger, NoneLate, NotYetServed, Endings, Ops

LEMMA CallLedger == ASSUME LedgerInv, NEW h \in Handles, Call(h) PROVE LedgerInv'
<1>1. calls[h] + 1 \in 1..MaxCalls /\ calls[h] \in Nat
    BY SessionAssumption DEF LedgerInv, LedgerTypes, Call
<1>2. /\ calls' = [calls EXCEPT ![h] = calls[h] + 1] /\ pc[h] = "idle"
      /\ pc' = [pc EXCEPT ![h] = "probe"]
      /\ result' = [result EXCEPT ![h][calls[h] + 1] = "asked"]
      /\ UNCHANGED <<late, acted>>
      /\ \E o \in Ops : op' = [op EXCEPT ![h] = o]
    BY <1>1 DEF Call, Goto, handlerVars, LedgerInv, LedgerTypes
<1>3. /\ result' \in [Handles -> [1..MaxCalls -> Endings]]
      /\ \A g \in Handles, n \in 1..MaxCalls :
            result'[g][n] = IF g = h /\ n = calls[h] + 1 THEN "asked" ELSE result[g][n]
  <2>1. result \in Table(Endings) /\ "asked" \in Endings
    BY DEF LedgerInv, LedgerTypes, Table, Endings
  <2>0. calls[h] + 1 \in 1..MaxCalls /\ result' = [result EXCEPT ![h][calls[h] + 1] = "asked"]
    BY <1>1, <1>2
  <2>2. result' \in Table(Endings) /\ Differs(result, result', h, calls[h] + 1, "asked")
    BY <2>0, <2>1, OneEntry, Zenon
  <2> QED BY <2>2 DEF Table, Differs
<1>4. LedgerTypes'
    BY <1>1, <1>2, <1>3 DEF LedgerInv, LedgerTypes, NotYetServed
<1>5. ASSUME NEW g \in Handles, NEW n \in 1..MaxCalls PROVE Ledger(g, n)'
  <2>1. Ledger(g, n) /\ calls[g] \in Nat
    BY DEF LedgerInv, LedgerTypes
  <2>2. /\ calls'[g] = IF g = h THEN calls[h] + 1 ELSE calls[g]
        /\ pc'[g] = IF g = h THEN "probe" ELSE pc[g]
        /\ result'[g][n] = IF g = h /\ n = calls[h] + 1 THEN "asked" ELSE result[g][n]
        /\ late'[g][n] = late[g][n] /\ acted'[g][n] = acted[g][n]
    BY <1>2, <1>3 DEF LedgerInv, LedgerTypes
  <2> QED BY <1>1, <1>2, <2>1, <2>2 DEF Ledger, NotYetServed
<1>6. \A g \in Handles : pc'[g] # "idle" => calls'[g] # 0
    BY <1>1, <1>2 DEF LedgerInv, LedgerTypes
<1> QED BY <1>4, <1>5, <1>6 DEF LedgerInv

LEMMA MovesLedger == ASSUME LedgerInv, NEW h \in Handles, Moves(h) PROVE LedgerInv'
<1>1. PICK w \in NotYetServed : pc' = [pc EXCEPT ![h] = w]
    BY DEF Moves
<1>2. pc[h] \in NotYetServed /\ UNCHANGED <<op, calls, result, late, acted>>
    BY DEF Moves
<1>3. LedgerTypes'
    BY <1>1, <1>2 DEF LedgerInv, LedgerTypes
<1>4. ASSUME NEW g \in Handles, NEW n \in 1..MaxCalls PROVE Ledger(g, n)'
  <2>1. Ledger(g, n)
    BY DEF LedgerInv
  <2>2. pc'[g] = IF g = h THEN w ELSE pc[g]
    BY <1>1 DEF LedgerInv, LedgerTypes
  <2> QED BY <1>2, <2>1, <2>2 DEF Ledger, NotYetServed
<1>5. \A g \in Handles : pc'[g] # "idle" => calls'[g] # 0
    BY <1>1, <1>2 DEF LedgerInv, LedgerTypes, NotYetServed
<1> QED BY <1>3, <1>4, <1>5 DEF LedgerInv

LEMMA StopsLedger == ASSUME LedgerInv, NEW h \in Handles, Stops(h) PROVE LedgerInv'
<1>1. calls[h] \in 1..MaxCalls /\ pc[h] # "idle"
    BY SessionAssumption DEF LedgerInv, LedgerTypes, Stops
<1>2. /\ pc' = [pc EXCEPT ![h] = "idle"] /\ UNCHANGED <<op, calls, acted>>
      /\ \E res \in {"ok", "WsdError", "other"} : result' = [result EXCEPT ![h][calls[h]] = res]
    BY DEF Stops
<1>3. /\ result' \in [Handles -> [1..MaxCalls -> Endings]]
      /\ \A g \in Handles, n \in 1..MaxCalls :
            IF g = h /\ n = calls[h] THEN result'[g][n] # "idle" ELSE result'[g][n] = result[g][n]
  <2>1. PICK res \in {"ok", "WsdError", "other"} : result' = [result EXCEPT ![h][calls[h]] = res]
    BY <1>2
  <2>2. res \in Endings /\ res # "idle" /\ result \in Table(Endings)
    BY DEF LedgerInv, LedgerTypes, Endings, Table
  <2>3. result' \in Table(Endings) /\ Differs(result, result', h, calls[h], res)
    BY <1>1, <2>1, <2>2, OneEntry
  <2> QED BY <2>2, <2>3 DEF Table, Differs
<1>4. /\ late' \in [Handles -> [1..MaxCalls -> Ops \cup {"none"}]]
      /\ \A g \in Handles, n \in 1..MaxCalls :
            late'[g][n] = late[g][n] \/ (g = h /\ n = calls[h] /\ pc[h] = "inside")
  <2>1. CASE late' = late
    BY <2>1 DEF LedgerInv, LedgerTypes
  <2>2. CASE pc[h] = "inside" /\ late' = [late EXCEPT ![h][calls[h]] = op[h]]
    <3>1. op[h] \in Ops \cup {"none"} /\ late \in Table(Ops \cup {"none"})
      BY DEF LedgerInv, LedgerTypes, Table
    <3>2. late' \in Table(Ops \cup {"none"}) /\ Differs(late, late', h, calls[h], op[h])
      BY <1>1, <2>2, <3>1, OneEntry
    <3> QED BY <2>2, <3>2 DEF Table, Differs
  <2> QED BY <2>1, <2>2 DEF Stops
<1>5. LedgerTypes'
    BY <1>2, <1>3, <1>4 DEF LedgerInv, LedgerTypes
<1>6. ASSUME NEW g \in Handles, NEW n \in 1..MaxCalls PROVE Ledger(g, n)'
  <2>1. Ledger(g, n) /\ calls[g] \in Nat /\ calls[h] \in Nat
    BY DEF LedgerInv, LedgerTypes
  <2>2. /\ pc'[g] = IF g = h THEN "idle" ELSE pc[g]
        /\ calls'[g] = calls[g] /\ acted'[g][n] = acted[g][n]
    BY <1>2 DEF LedgerInv, LedgerTypes
  <2>3. CASE g = h /\ n = calls[h]
    BY <1>1, <1>3, <1>4, <2>1, <2>2, <2>3 DEF Ledger, NotYetServed
  <2>4. CASE ~(g = h /\ n = calls[h])
    <3>1. result'[g][n] = result[g][n] /\ late'[g][n] = late[g][n]
      BY <1>3, <1>4, <2>4
    <3> QED BY <2>1, <2>2, <2>4, <3>1 DEF Ledger, NotYetServed
  <2> QED BY <2>3, <2>4
<1>7. \A g \in Handles : pc'[g] # "idle" => calls'[g] # 0
    BY <1>2 DEF LedgerInv, LedgerTypes
<1> QED BY <1>5, <1>6, <1>7 DEF LedgerInv

LEMMA ServesLedger == ASSUME LedgerInv, NEW h \in Handles, Serves(h) PROVE LedgerInv'
<1>1. /\ calls[h] \in 1..MaxCalls /\ acted[h][calls[h]] = 0 /\ pc[h] = "inside"
      /\ UNCHANGED <<op, calls, result, late>>
    BY SessionAssumption DEF LedgerInv, LedgerTypes, Ledger, Serves, NotYetServed
<1>2. PICK w \in Answers : pc' = [pc EXCEPT ![h] = w]
    BY DEF Serves
<1>3. /\ acted' \in [Handles -> [1..MaxCalls -> 0..1]]
      /\ \A g \in Handles, n \in 1..MaxCalls :
            acted'[g][n] = IF g = h /\ n = calls[h] THEN 1 ELSE acted[g][n]
  <2>1. acted' = [acted EXCEPT ![h][calls[h]] = 1]
    BY <1>1 DEF Serves
  <2>2. acted \in Table(0..1) /\ 1 \in 0..1
    BY DEF LedgerInv, LedgerTypes, Table
  <2>3. calls[h] \in 1..MaxCalls
    BY <1>1
  <2>4. acted' \in Table(0..1) /\ Differs(acted, acted', h, calls[h], 1)
    BY <2>1, <2>2, <2>3, OneEntry, Zenon
  <2> QED BY <2>4 DEF Table, Differs
<1>4. LedgerTypes'
    BY <1>1, <1>2, <1>3 DEF LedgerInv, LedgerTypes
<1>5. ASSUME NEW g \in Handles, NEW n \in 1..MaxCalls PROVE Ledger(g, n)'
  <2>1. Ledger(g, n) /\ calls[g] \in Nat
    BY DEF LedgerInv, LedgerTypes
  <2>2. /\ pc'[g] = IF g = h THEN w ELSE pc[g]
        /\ acted'[g][n] = IF g = h /\ n = calls[h] THEN 1 ELSE acted[g][n]
    BY <1>2, <1>3 DEF LedgerInv, LedgerTypes
  <2>3. w \notin NotYetServed /\ w # "idle"
    BY DEF Answers, NotYetServed
  <2> QED BY <1>1, <2>1, <2>2, <2>3 DEF Ledger
<1>6. \A g \in Handles : pc'[g] # "idle" => calls'[g] # 0
    BY <1>1, <1>2 DEF LedgerInv, LedgerTypes
<1> QED BY <1>4, <1>5, <1>6 DEF LedgerInv

LEMMA LingersLedger ==
    ASSUME LedgerInv, NEW h \in Handles, NEW k \in 1..MaxCalls, Lingers(h, k)
    PROVE  LedgerInv'
<1>1. /\ late[h][k] # "none" /\ acted[h][k] = 0 /\ k <= calls[h]
      /\ UNCHANGED <<pc, op, calls, result>>
    BY DEF LedgerInv, Ledger, Lingers
<1>2. /\ acted' \in [Handles -> [1..MaxCalls -> 0..1]]
      /\ \A g \in Handles, n \in 1..MaxCalls :
            acted'[g][n] = IF g = h /\ n = k THEN 1 ELSE acted[g][n]
  <2>1. acted' = [acted EXCEPT ![h][k] = 1]
    BY <1>1 DEF Lingers
  <2>2. acted \in Table(0..1) /\ 1 \in 0..1
    BY DEF LedgerInv, LedgerTypes, Table
  <2>3. acted' \in Table(0..1) /\ Differs(acted, acted', h, k, 1)
    BY <2>1, <2>2, OneEntry
  <2> QED BY <2>3 DEF Table, Differs
<1>3. /\ late' \in [Handles -> [1..MaxCalls -> Ops \cup {"none"}]]
      /\ \A g \in Handles, n \in 1..MaxCalls :
            late'[g][n] = IF g = h /\ n = k THEN "none" ELSE late[g][n]
  <2>1. late' = [late EXCEPT ![h][k] = "none"]
    BY DEF Lingers
  <2>2. late \in Table(Ops \cup {"none"}) /\ "none" \in Ops \cup {"none"}
    BY DEF LedgerInv, LedgerTypes, Table
  <2>3. late' \in Table(Ops \cup {"none"}) /\ Differs(late, late', h, k, "none")
    BY <2>1, <2>2, OneEntry
  <2> QED BY <2>3 DEF Table, Differs
<1>4. LedgerTypes'
    BY <1>1, <1>2, <1>3 DEF LedgerInv, LedgerTypes
<1>5. ASSUME NEW g \in Handles, NEW n \in 1..MaxCalls PROVE Ledger(g, n)'
  <2>1. Ledger(g, n) /\ Ledger(h, k) /\ calls[g] \in Nat
    BY DEF LedgerInv, LedgerTypes
  <2>2. /\ acted'[g][n] = IF g = h /\ n = k THEN 1 ELSE acted[g][n]
        /\ late'[g][n] = IF g = h /\ n = k THEN "none" ELSE late[g][n]
    BY <1>2, <1>3
  <2>3. CASE g = h /\ n = k
    BY <1>1, <2>1, <2>2, <2>3 DEF Ledger, NotYetServed
  <2>4. CASE ~(g = h /\ n = k)
    BY <1>1, <2>1, <2>2, <2>4 DEF Ledger
  <2> QED BY <2>3, <2>4
<1> QED BY <1>1, <1>4, <1>5 DEF LedgerInv

LEMMA ElsewhereLedger == ASSUME LedgerInv, Elsewhere PROVE LedgerInv'
<1>1. UNCHANGED <<pc, op, calls, result, acted>>
    BY DEF Elsewhere
<1>2. /\ late' \in [Handles -> [1..MaxCalls -> Ops \cup {"none"}]]
      /\ \A g \in Handles, n \in 1..MaxCalls : late'[g][n] \in {late[g][n], "none"}
  <2>1. CASE late' = late
    BY <2>1 DEF LedgerInv, LedgerTypes
  <2>2. CASE late' = NoneLate
    BY <2>2 DEF NoneLate
  <2> QED BY <2>1, <2>2 DEF Elsewhere
<1>3. \A g \in Handles, n \in 1..MaxCalls : Ledger(g, n)'
    BY <1>1, <1>2 DEF LedgerInv, Ledger
<1> QED BY <1>1, <1>2, <1>3 DEF LedgerInv, LedgerTypes

LEMMA LedgerNext == ASSUME LedgerInv, [Next]_vars PROVE LedgerInv'
<1>1. LedgerTypes
    BY DEF LedgerInv
<1> QED
    BY <1>1, StepShape, CallLedger, MovesLedger, StopsLedger, ServesLedger, LingersLedger, ElsewhereLedger

\* gows.py replays a request only when no daemon has carried it out or will.
THEOREM NeverTwice == Spec => []CarriedOutOnce
<1>1. Init => LedgerInv
    BY LedgerInit
<1>2. LedgerInv /\ [Next]_vars => LedgerInv'
    BY LedgerNext
<1>3. LedgerInv => CarriedOutOnce
  <2> SUFFICES ASSUME LedgerInv, NEW h \in Handles, NEW n \in 1..MaxCalls PROVE acted[h][n] <= 1
    BY DEF CarriedOutOnce
  <2>1. acted[h][n] \in 0..1
    BY DEF LedgerInv, LedgerTypes
  <2> QED BY <2>1
<1> QED BY <1>1, <1>2, <1>3, PTL DEF Spec

------------------------------------------------------------------------------
\* Ids dialed by the running daemon are different, and none is ahead of its
\* counter; the registry lists each under the handle that dialed it.
IdInv ==
    /\ epoch \in Nat
    /\ nextID \in Nat
    /\ id \in [Handles -> Nat]
    /\ born \in [Handles -> Nat]
    /\ \A i \in DOMAIN conns : i \in 1..nextID /\ conns[i] \in Conn
    /\ \A h \in Handles : born[h] <= epoch
    /\ \A h \in Handles : id[h] # 0 /\ born[h] = epoch =>
          /\ id[h] <= nextID
          /\ id[h] \in DOMAIN conns => conns[id[h]].owner = h

LEMMA IdInvNext ==
    ASSUME IdInv, [Next]_vars
    PROVE  IdInv'
<1> USE DEF IdInv
<1>1. ASSUME UNCHANGED <<epoch, nextID, conns, id, born>> PROVE IdInv'
    BY <1>1
<1>2. ASSUME NEW h \in Handles,
             Call(h) \/ Probe(h) \/ Ensure(h) \/ Poll(h) \/ Open(h) \/ HandleDialFails(h) \/ Reply(h)
      PROVE  IdInv'
    BY <1>1, <1>2 DEF Call, Probe, Ensure, Poll, Open, HandleDialFails, Reply, daemonVars
<1>2a. ASSUME NEW h \in Handles, nextID' = nextID + 1, epoch' = epoch, conns' = Listing(h),
              \/ UNCHANGED <<id, born>>
              \/ id' = [id EXCEPT ![h] = nextID + 1] /\ born' = [born EXCEPT ![h] = epoch]
       PROVE  IdInv'
  <2>1. /\ DOMAIN conns' = DOMAIN conns \cup {nextID + 1}
        /\ conns'[nextID + 1].owner = h /\ conns'[nextID + 1] \in Conn
        /\ \A j \in DOMAIN conns : j # nextID + 1 => conns'[j] = conns[j]
    BY <1>2a DEF Listing, Conn
  <2>2. \A g \in Handles : id[g] # 0 /\ born[g] = epoch => id[g] # nextID + 1 /\ id[g] <= nextID + 1
    OBVIOUS
  <2>3. \A i \in DOMAIN conns' : i \in 1..nextID' /\ conns'[i] \in Conn
    BY <1>2a, <2>1
  <2>4. CASE UNCHANGED <<id, born>>
    BY <1>2a, <2>1, <2>2, <2>3, <2>4
  <2>5. CASE id' = [id EXCEPT ![h] = nextID + 1] /\ born' = [born EXCEPT ![h] = epoch]
    BY <1>2a, <2>1, <2>2, <2>3, <2>5
  <2> QED BY <1>2a, <2>4, <2>5
<1>2b. ASSUME UNCHANGED <<epoch, nextID, id, born>>, DOMAIN conns' \subseteq DOMAIN conns,
              \A j \in DOMAIN conns' : conns'[j] = conns[j]
       PROVE  IdInv'
    BY <1>2b
<1>3. ASSUME NEW h \in Handles, HandleDial(h) PROVE IdInv'
    BY <1>2a, <1>3 DEF HandleDial
<1>4. ASSUME NEW h \in Handles, HandleConn(h) PROVE IdInv'
    BY <1>2b, <1>4 DEF HandleConn, Without
<1>4a. ASSUME NEW h \in Handles, NEW n \in 1..MaxCalls, LateDial(h, n) PROVE IdInv'
  <2>1. UNCHANGED <<epoch, id, born>>
    BY <1>4a DEF LateDial, LateEnds, clientVars
  <2>2. CASE nextID' = nextID + 1 /\ conns' = Listing(h)
    BY <1>2a, <2>1, <2>2
  <2>3. CASE UNCHANGED <<nextID, conns>>
    BY <1>1, <2>1, <2>3
  <2> QED BY <1>4a, <2>2, <2>3 DEF LateDial
<1>4b. ASSUME NEW h \in Handles, NEW n \in 1..MaxCalls, LateConn(h, n) PROVE IdInv'
    BY <1>2b, <1>4b DEF LateConn, LateEnds, Without, clientVars
<1>5. ASSUME NEW h \in Handles, Broken(h) PROVE IdInv'
    BY <1>5 DEF Broken, daemonVars
<1>6. CASE Crash
    BY <1>6 DEF Crash, clientVars
<1>7. CASE Boot
    BY <1>7 DEF Boot, clientVars
<1>8. ASSUME NEW i \in Ids, UpstreamDies(i) \/ GrowsOld(i) PROVE IdInv'
  <2>1. UNCHANGED <<epoch, nextID, id, born>>
    BY <1>8 DEF UpstreamDies, GrowsOld, clientVars
  <2>2. i \in DOMAIN conns /\ conns[i] \in Conn
    BY <1>8 DEF UpstreamDies, GrowsOld
  <2>3. PICK c \in Conn : c.owner = conns[i].owner /\ conns' = [conns EXCEPT ![i] = c]
    <3>1. CASE UpstreamDies(i)
      BY <2>2, <3>1 DEF UpstreamDies, Conn
    <3>2. CASE GrowsOld(i)
      BY <2>2, <3>2 DEF GrowsOld, Conn
    <3> QED BY <1>8, <3>1, <3>2
  <2>4. /\ DOMAIN conns' = DOMAIN conns
        /\ \A j \in DOMAIN conns : conns'[j].owner = conns[j].owner /\ conns'[j] \in Conn
    BY <2>2, <2>3
  <2> QED BY <2>1, <2>4
<1>9. CASE UNCHANGED vars
    BY <1>1, <1>9 DEF vars, daemonVars, clientVars
<1> QED BY <1>2, <1>3, <1>4, <1>4a, <1>4b, <1>5, <1>6, <1>7, <1>8, <1>9 DEF Next, step

\* While the daemon that dialed a handle runs, no other connection is ever
\* listed under the handle's id.
THEOREM IdsAreOwn == Spec => []OwnIdOrNone
<1>1. Init => IdInv
    BY DEF Init, IdInv
<1>2. IdInv /\ [Next]_vars => IdInv'
    BY IdInvNext
<1>3. IdInv => OwnIdOrNone
    BY DEF IdInv, OwnIdOrNone
<1> QED BY <1>1, <1>2, <1>3, PTL DEF Spec

------------------------------------------------------------------------------
\* One step for each action: what a daemon, and what a call, may change.
LEMMA TypesNext ==
    ASSUME TypeOK, LedgerInv', [Next]_vars
    PROVE  TypeOK'
<1>1. epoch \in 1..MaxEpoch /\ MaxEpoch \in Nat
    BY SessionAssumption DEF TypeOK
<1> DEFINE Calling == second \in [Handles -> BOOLEAN] /\ at \in [Handles -> 0..MaxEpoch]
           Owning == id \in [Handles -> Nat] /\ born \in [Handles -> 0..MaxEpoch]
           Listed ==
             /\ epoch \in 1..MaxEpoch /\ alive \in BOOLEAN
             /\ booting \in Nat /\ nextID \in Nat
             /\ DOMAIN conns \subseteq 1..nextID
             /\ \A i \in DOMAIN conns : conns[i] \in Conn
           Met == touched \subseteq Handles \X Handles
<1>3. Calling /\ Owning /\ Listed /\ Met
    BY DEF TypeOK
<1>4. SUFFICES Calling' /\ Owning' /\ Listed' /\ Met'
  <2>1. acted' \in [Handles -> [1..MaxCalls -> 0..2]]
    BY DEF LedgerInv, LedgerTypes
  <2> QED BY <2>1 DEF TypeOK, LedgerInv, LedgerTypes, NotYetServed, Answers, Endings
<1>5. ASSUME UNCHANGED <<second, at>> PROVE Calling'
    BY <1>3, <1>5
<1>6. ASSUME UNCHANGED <<id, born>> PROVE Owning'
    BY <1>3, <1>6
<1>7. ASSUME UNCHANGED daemonVars PROVE Listed'
    BY <1>3, <1>7 DEF daemonVars
<1>8. ASSUME NEW h \in Handles, NEW res, Finish(h, res) PROVE Calling'
    BY <1>5, <1>8 DEF Finish
<1>9. ASSUME NEW h \in Handles, Refused(h) PROVE Calling'
    BY <1>3, <1>8, <1>9 DEF Refused
<1>10. ASSUME NEW h \in Handles, NEW ok, Ensured(h, ok) PROVE Calling'
    BY <1>5, <1>8, <1>10 DEF Ensured
<1>a. ASSUME NEW h \in Handles, nextID' = nextID + 1, UNCHANGED <<epoch, alive, booting>>, conns' = Listing(h)
      PROVE  Listed'
  <2>1. /\ DOMAIN conns' = DOMAIN conns \cup {nextID + 1}
        /\ conns'[nextID + 1] \in Conn
        /\ \A j \in DOMAIN conns : j # nextID + 1 => conns'[j] = conns[j]
    BY <1>a DEF Listing, Conn
  <2> QED BY <1>3, <1>a, <2>1
<1>b. ASSUME UNCHANGED <<epoch, alive, booting, nextID>>, DOMAIN conns' \subseteq DOMAIN conns,
             \A j \in DOMAIN conns' : conns'[j] = conns[j]
      PROVE  Listed'
    BY <1>3, <1>b
<1>c. ASSUME NEW h \in Handles,
             \/ id[h] \in DOMAIN conns /\ touched' = touched \cup {<<h, conns[id[h]].owner>>}
             \/ touched' = touched
      PROVE  Met'
    BY <1>3, <1>c DEF Conn
<1>11. ASSUME NEW h \in Handles, Call(h) PROVE Calling' /\ Owning' /\ Listed' /\ Met'
  <2>1. Calling'
    BY <1>1, <1>3, <1>11 DEF Call
  <2> QED BY <1>3, <1>6, <1>7, <1>11, <2>1 DEF Call
<1>12. ASSUME NEW h \in Handles, Probe(h) \/ HandleDialFails(h) PROVE Calling' /\ Owning' /\ Listed' /\ Met'
    BY <1>3, <1>5, <1>6, <1>7, <1>12 DEF Probe, HandleDialFails
<1>13. ASSUME NEW h \in Handles, Ensure(h) \/ Poll(h) PROVE Calling' /\ Owning' /\ Listed' /\ Met'
  <2>1. Calling'
    BY <1>5, <1>10, <1>13 DEF Ensure, Poll
  <2>2. /\ UNCHANGED <<epoch, alive, nextID, conns, id, born, touched>>
        /\ booting' \in {booting, booting + 1}
    BY <1>13 DEF Ensure, Poll, daemonVars
  <2> QED BY <1>3, <1>6, <2>1, <2>2
<1>14. ASSUME NEW h \in Handles, Open(h) PROVE Calling' /\ Owning' /\ Listed' /\ Met'
  <2>1. Calling'
    <3>1. CASE Refused(h)
      BY <1>9, <3>1
    <3>2. CASE at' = [at EXCEPT ![h] = epoch] /\ UNCHANGED second
      BY <1>1, <1>3, <3>2
    <3> QED BY <1>14, <3>1, <3>2 DEF Open
  <2> QED BY <1>3, <1>6, <1>7, <1>14, <2>1 DEF Open
<1>15. ASSUME NEW h \in Handles, HandleDial(h) PROVE Calling' /\ Owning' /\ Listed' /\ Met'
  <2>1. Calling' /\ Met'
    BY <1>3, <1>5, <1>15 DEF HandleDial
  <2>2. Owning'
    <3>1. id' = [id EXCEPT ![h] = nextID + 1] /\ born' = [born EXCEPT ![h] = epoch]
      BY <1>15 DEF HandleDial
    <3> QED BY <1>1, <1>3, <3>1
  <2>3. Listed'
    BY <1>15, <1>a DEF HandleDial
  <2> QED BY <2>1, <2>2, <2>3
<1>16. ASSUME NEW h \in Handles, HandleConn(h) PROVE Calling' /\ Owning' /\ Listed' /\ Met'
  <2>1. Calling' /\ Owning'
    BY <1>5, <1>6, <1>16 DEF HandleConn
  <2>2. Listed'
    BY <1>16, <1>b DEF HandleConn, Without
  <2>3. Met'
    BY <1>16, <1>c DEF HandleConn
  <2> QED BY <2>1, <2>2, <2>3
<1>16a. ASSUME NEW h \in Handles, NEW n \in 1..MaxCalls, LateDial(h, n)
        PROVE  Calling' /\ Owning' /\ Listed' /\ Met'
  <2>1. Calling' /\ Owning' /\ Met' /\ UNCHANGED <<epoch, alive, booting>>
    BY <1>3, <1>5, <1>6, <1>16a DEF LateDial, LateEnds, clientVars
  <2>2. CASE nextID' = nextID + 1 /\ conns' = Listing(h)
    BY <1>a, <2>1, <2>2
  <2>3. CASE UNCHANGED <<nextID, conns>>
    BY <1>7, <2>1, <2>3 DEF daemonVars
  <2> QED BY <1>16a, <2>1, <2>2, <2>3 DEF LateDial
<1>16b. ASSUME NEW h \in Handles, NEW n \in 1..MaxCalls, LateConn(h, n)
        PROVE  Calling' /\ Owning' /\ Listed' /\ Met'
  <2>1. Calling' /\ Owning'
    BY <1>5, <1>6, <1>16b DEF LateConn, LateEnds, clientVars
  <2>2. Listed'
    BY <1>16b, <1>b DEF LateConn, LateEnds, Without
  <2>3. Met'
    BY <1>16b, <1>c DEF LateConn
  <2> QED BY <2>1, <2>2, <2>3
<1>17. ASSUME NEW h \in Handles, Reply(h) PROVE Calling' /\ Owning' /\ Listed' /\ Met'
    BY <1>3, <1>6, <1>7, <1>8, <1>17 DEF Reply
<1>18. ASSUME NEW h \in Handles, Broken(h) PROVE Calling' /\ Owning' /\ Listed' /\ Met'
  <2>1. Calling'
    BY <1>8, <1>9, <1>18 DEF Broken
  <2>2. Owning'
    <3>1. \/ id' = [id EXCEPT ![h] = 0] /\ born' = [born EXCEPT ![h] = 0]
          \/ UNCHANGED <<id, born>>
      BY <1>18 DEF Broken
    <3> QED BY <1>1, <1>3, <3>1
  <2> QED BY <1>3, <1>7, <1>18, <2>1, <2>2 DEF Broken
<1>19. CASE Crash \/ Boot
  <2>1. Calling' /\ Owning' /\ Met'
    BY <1>3, <1>5, <1>6, <1>19 DEF Crash, Boot, clientVars
  <2>2. ASSUME conns' = [i \in {} |-> NoConn], epoch' \in 1..MaxEpoch, alive' \in BOOLEAN,
               booting' \in Nat, nextID' \in Nat
        PROVE  Listed'
    <3>1. DOMAIN conns' = {}
      BY <2>2
    <3> QED BY <2>2, <3>1
  <2>3. CASE Crash
    BY <1>3, <2>1, <2>2, <2>3 DEF Crash
  <2>4. CASE Boot
    <3>1. booting' \in Nat
      BY <1>3, <2>4 DEF Boot
    <3>2. CASE UNCHANGED <<epoch, alive, nextID, conns>>
      BY <1>3, <2>1, <3>1, <3>2
    <3>3. CASE epoch # MaxEpoch /\ epoch' = epoch + 1 /\ alive' = TRUE /\ nextID' = 0 /\ conns' = [i \in {} |-> NoConn]
      <4>1. epoch' \in 1..MaxEpoch
        BY <1>1, <3>3
      <4> QED BY <2>1, <2>2, <3>1, <3>3, <4>1
    <3> QED BY <2>4, <3>2, <3>3 DEF Boot
  <2> QED BY <1>19, <2>3, <2>4
<1>20. ASSUME NEW i \in Ids, UpstreamDies(i) \/ GrowsOld(i) PROVE Calling' /\ Owning' /\ Listed' /\ Met'
  <2>1. Calling' /\ Owning' /\ Met'
    BY <1>3, <1>5, <1>6, <1>20 DEF UpstreamDies, GrowsOld, clientVars
  <2>2. i \in DOMAIN conns /\ conns[i] \in Conn
    BY <1>3, <1>20 DEF UpstreamDies, GrowsOld
  <2>3. PICK c \in Conn : conns' = [conns EXCEPT ![i] = c]
    <3>1. CASE UpstreamDies(i)
      BY <2>2, <3>1 DEF UpstreamDies, Conn
    <3>2. CASE GrowsOld(i)
      BY <2>2, <3>2 DEF GrowsOld, Conn
    <3> QED BY <1>20, <3>1, <3>2
  <2>4. DOMAIN conns' = DOMAIN conns /\ \A j \in DOMAIN conns : conns'[j] \in Conn
    BY <1>3, <2>2, <2>3
  <2> QED BY <1>3, <1>20, <2>1, <2>4 DEF UpstreamDies, GrowsOld
<1>21. CASE UNCHANGED vars
    BY <1>3, <1>5, <1>6, <1>7, <1>21 DEF vars, clientVars
<1> QED
    BY <1>11, <1>12, <1>13, <1>14, <1>15, <1>16, <1>16a, <1>16b, <1>17, <1>18, <1>19, <1>20, <1>21
    DEF Next, step

LEMMA TypesInit == Init => TypeOK
BY SessionAssumption DEF Init, TypeOK, Ops, Conn, NoneLate

\* The variables of the daemon and of its clients keep their types: in
\* particular an id on a list was issued by the daemon that runs, and what is
\* listed under it belongs to a handle, whatever the restarts.
THEOREM TypesKept == Spec => []TypeOK
<1>1. Init => TypeOK /\ LedgerInv
    BY TypesInit, LedgerInit
<1>2. LedgerInv /\ [Next]_vars => LedgerInv'
    BY LedgerNext
<1>3. TypeOK /\ LedgerInv' /\ [Next]_vars => TypeOK'
    BY TypesNext
<1> QED BY <1>1, <1>2, <1>3, PTL DEF Spec

------------------------------------------------------------------------------
(* WsdSession implements Delivery.                                         *)

LEMMA StatusOf ==
    ASSUME LedgerTypes, NEW h \in Handles, NEW n \in 1..MaxCalls
    PROVE  /\ <<h, n>> \in EveryCall
           /\ Status[<<h, n>>] = IF result[h][n] \in {"WsdError", "other"} THEN "failed" ELSE result[h][n]
BY DEF EveryCall, Status

\* How one new entry of the table of results shows in Status, and one of the
\* table of handlers in done.
LEMMA StatusStep ==
    ASSUME LedgerTypes, NEW h \in Handles, NEW k \in 1..MaxCalls, NEW res \in Endings,
           result' = [result EXCEPT ![h][k] = res]
    PROVE  Status' = [Status EXCEPT ![<<h, k>>] = IF res \in {"WsdError", "other"} THEN "failed" ELSE res]
<1>1. Differs(result, result', h, k, res)
  <2>1. result \in Table(Endings)
    BY DEF LedgerTypes, Table
  <2> QED BY <2>1, OneEntry
<1>2. ASSUME NEW c \in EveryCall
      PROVE  Status'[c] = IF c = <<h, k>> THEN (IF res \in {"WsdError", "other"} THEN "failed" ELSE res)
                          ELSE Status[c]
  <2>1. PICK g \in Handles, n \in 1..MaxCalls : c = <<g, n>>
    BY DEF EveryCall
  <2>2. c[1] = g /\ c[2] = n /\ (c = <<h, k>> <=> g = h /\ n = k)
    BY <2>1
  <2>3. result'[g][n] = IF g = h /\ n = k THEN res ELSE result[g][n]
    BY <1>1 DEF Differs
  <2>4. /\ Status[c] = IF result[c[1]][c[2]] \in {"WsdError", "other"} THEN "failed" ELSE result[c[1]][c[2]]
        /\ Status'[c] = IF result'[c[1]][c[2]] \in {"WsdError", "other"} THEN "failed" ELSE result'[c[1]][c[2]]
    BY DEF Status
  <2> QED BY <2>2, <2>3, <2>4
<1>3. Status = [c \in EveryCall |-> Status[c]] /\ Status' = [c \in EveryCall |-> Status'[c]]
    BY DEF Status
<1> QED BY <1>2, <1>3

Done == [c \in EveryCall |-> acted[c[1]][c[2]]]

LEMMA DoneStep ==
    ASSUME LedgerTypes, NEW h \in Handles, NEW k \in 1..MaxCalls, acted[h][k] = 0,
           acted' = [acted EXCEPT ![h][k] = @ + 1], Status' = Status, Status[<<h, k>>] # "idle"
    PROVE  Promise!Next
<1>1. acted' = [acted EXCEPT ![h][k] = 1]
    OBVIOUS
<1>2. Differs(acted, acted', h, k, 1)
  <2>1. acted \in Table(0..1) /\ 1 \in 0..1
    BY DEF LedgerTypes, Table
  <2> QED BY <1>1, <2>1, OneEntry
<1>3. <<h, k>> \in EveryCall /\ Done[<<h, k>>] = 0
    BY DEF EveryCall, Done
<1>4. ASSUME NEW c \in EveryCall PROVE Done'[c] = IF c = <<h, k>> THEN 1 ELSE Done[c]
  <2>1. PICK g \in Handles, n \in 1..MaxCalls : c = <<g, n>>
    BY DEF EveryCall
  <2>2. c[1] = g /\ c[2] = n /\ (c = <<h, k>> <=> g = h /\ n = k)
    BY <2>1
  <2>3. acted'[g][n] = IF g = h /\ n = k THEN 1 ELSE acted[g][n]
    BY <1>2 DEF Differs
  <2>4. Done[c] = acted[c[1]][c[2]] /\ Done'[c] = acted'[c[1]][c[2]]
    BY DEF Done
  <2> QED BY <2>2, <2>3, <2>4
<1>5. Done' = [Done EXCEPT ![<<h, k>>] = Done[<<h, k>>] + 1]
  <2>1. Done = [c \in EveryCall |-> Done[c]] /\ Done' = [c \in EveryCall |-> Done'[c]]
    BY DEF Done
  <2> QED BY <1>3, <1>4, <2>1
<1>6. Promise!CarryOut(<<h, k>>)
    BY <1>3, <1>5 DEF Promise!CarryOut, Done
<1> QED BY <1>3, <1>6 DEF Promise!Next

LEMMA StopsDelivers == ASSUME LedgerInv, NEW h \in Handles, Stops(h) PROVE Promise!Next
<1>1. /\ LedgerTypes /\ calls[h] \in 1..MaxCalls /\ Ledger(h, calls[h])
      /\ pc[h] # "idle" /\ UNCHANGED acted
    BY SessionAssumption DEF LedgerInv, LedgerTypes, Stops
<1>2. PICK res \in {"ok", "WsdError", "other"} :
         /\ res = "ok" => pc[h] = "found"
         /\ result' = [result EXCEPT ![h][calls[h]] = res]
    BY DEF Stops
<1> DEFINE c == <<h, calls[h]>>
<1>3. c \in EveryCall /\ Status[c] = "asked"
    BY <1>1, StatusOf DEF Ledger
<1>4. Status' = [Status EXCEPT ![c] = IF res \in {"WsdError", "other"} THEN "failed" ELSE res]
    BY <1>1, <1>2, StatusStep DEF Endings
<1>5. CASE res = "ok"
  <2>1. acted[h][calls[h]] = 1
    BY <1>1, <1>2, <1>5 DEF Ledger
  <2>2. Done[c] = 1 /\ Done' = Done
    BY <1>1, <1>3, <2>1 DEF Done
  <2>3. Promise!Succeed(c)
    BY <1>3, <1>4, <1>5, <2>2 DEF Promise!Succeed, Done
  <2> QED BY <1>3, <2>3 DEF Promise!Next
<1>6. CASE res # "ok"
  <2>1. Status' = [d \in EveryCall |-> IF d \in {c} THEN "failed" ELSE Status[d]]
    BY <1>3, <1>4, <1>6 DEF Status
  <2>2. Done' = Done /\ {c} \in SUBSET EveryCall
    BY <1>1, <1>3 DEF Done
  <2>3. Promise!Fail({c})
    BY <1>3, <2>1, <2>2 DEF Promise!Fail, Done
  <2> QED BY <2>2, <2>3 DEF Promise!Next
<1> QED BY <1>5, <1>6

LEMMA CallDelivers == ASSUME LedgerInv, NEW h \in Handles, Call(h) PROVE Promise!Next
<1>1. calls[h] + 1 \in 1..MaxCalls /\ LedgerTypes
    BY SessionAssumption DEF LedgerInv, LedgerTypes, Call
<1>2. result' = [result EXCEPT ![h][calls[h] + 1] = "asked"] /\ UNCHANGED <<late, acted>>
    BY DEF Call, handlerVars
<1> DEFINE c == <<h, calls[h] + 1>>
<1>3. c \in EveryCall /\ Status[c] = "idle"
  <2>1. Ledger(h, calls[h] + 1) /\ calls[h] \in Nat
    BY <1>1 DEF LedgerInv, LedgerTypes
  <2>2. result[h][calls[h] + 1] = "idle"
    BY <1>1, <2>1 DEF Ledger
  <2> QED BY <1>1, <2>2, StatusOf
<1>4. Status' = [Status EXCEPT ![c] = "asked"]
    BY <1>1, <1>2, StatusStep DEF Endings
<1>5. Done' = Done
    BY <1>2 DEF Done
<1>6. [d \in EveryCall |-> 1] = [[d \in EveryCall |-> 1] EXCEPT ![c] = 1]
    OBVIOUS
<1>7. Promise!Ask(c)
    BY <1>3, <1>4, <1>5, <1>6 DEF Promise!Ask, Done
<1> QED BY <1>3, <1>7 DEF Promise!Next

LEMMA Delivers == ASSUME LedgerInv, [Next]_vars PROVE [Promise!Next]_(Promise!vars)
<1>1. LedgerTypes
    BY DEF LedgerInv
<1>2. ASSUME UNCHANGED <<result, acted>> PROVE UNCHANGED Promise!vars
    BY <1>2 DEF Promise!vars, Status
<1>3. CASE Elsewhere \/ \E h \in Handles : Moves(h)
    BY <1>2, <1>3 DEF Elsewhere, Moves
<1>4. ASSUME NEW h \in Handles, Serves(h) PROVE Promise!Next
  <2>1. calls[h] \in 1..MaxCalls /\ acted[h][calls[h]] = 0 /\ result[h][calls[h]] = "asked"
    BY <1>4, SessionAssumption DEF LedgerInv, LedgerTypes, Ledger, Serves, NotYetServed
  <2>2. Status' = Status /\ Status[<<h, calls[h]>>] # "idle"
    BY <1>1, <1>4, <2>1, StatusOf DEF Serves, Status
  <2> QED BY <1>1, <1>4, <2>1, <2>2, DoneStep DEF Serves
<1>5. ASSUME NEW h \in Handles, NEW n \in 1..MaxCalls, Lingers(h, n) PROVE Promise!Next
  <2>1. acted[h][n] = 0 /\ result[h][n] # "idle"
    <3>1. Ledger(h, n) /\ late[h][n] # "none" /\ calls[h] \in Nat
      BY <1>5 DEF LedgerInv, LedgerTypes, Lingers
    <3> QED BY <3>1 DEF Ledger
  <2>2. Status' = Status /\ Status[<<h, n>>] # "idle"
    BY <1>1, <1>5, <2>1, StatusOf DEF Lingers, Status
  <2> QED BY <1>1, <1>5, <2>1, <2>2, DoneStep DEF Lingers
<1> QED BY <1>1, <1>3, <1>4, <1>5, StepShape, CallDelivers, StopsDelivers

\* To its callers gows.py is a Delivery with one time allowed: a call is carried
\* out once at most, counting a handler that runs after its client has left,
\* and success is only reported of a call that was carried out, whatever
\* becomes of the daemons (gows.py:151-185).
THEOREM DeliversOnce == Spec => DeliveredOnce
<1>1. Init => LedgerInv
    BY LedgerInit
<1>2. Init => Promise!Init
  <2> SUFFICES ASSUME Init PROVE Promise!Init
    OBVIOUS
  <2>1. Status = [c \in EveryCall |-> "idle"]
    BY DEF Init, Status, EveryCall
  <2>2. [c \in EveryCall |-> acted[c[1]][c[2]]] = [c \in EveryCall |-> 0]
    BY DEF Init, EveryCall
  <2>3. [c \in EveryCall |-> 1] \in [EveryCall -> 1..1]
    OBVIOUS
  <2> QED BY <2>1, <2>2, <2>3 DEF Promise!Init
<1>3. LedgerInv /\ [Next]_vars => LedgerInv'
    BY LedgerNext
<1>4. LedgerInv /\ [Next]_vars => [Promise!Next]_(Promise!vars)
    BY Delivers
<1> QED BY <1>1, <1>2, <1>3, <1>4, PTL DEF Spec, DeliveredOnce, Promise!Spec

==============================================================================
