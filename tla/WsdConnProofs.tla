---------------------------- MODULE WsdConnProofs ----------------------------
(***************************************************************************)
(* Theorems about WsdConn: the frames of the upstream are neither lost     *)
(* inside the daemon, nor handed out twice, nor reordered, no wake-up is   *)
(* lost and "closed" comes last, for any number of callers and frames.     *)
(***************************************************************************)
EXTENDS WsdConn, TLAPS, SequenceTheorems, FiniteSetTheorems

\* What ties the program counters to the fields they go with.
Control ==
    /\ loop = "holding" <=> hand # 0
    /\ loop = "done" <=> closed
    /\ \A r \in Recvs : rpc[r] # "reply" <=> answer[r] = "none"
    /\ \A r \in Recvs : answer[r] = "frame" <=> frame[r] # 0

\* While the upstream is open nothing it sent is missing.
Complete ==
    upstream = "open" => popped + Len(queue) + Held + Len(wire) = emitted

\* The part of the type invariant that describes the receiving side.
InTypes ==
    /\ wire \in Seq(Frames)
    /\ emitted \in 0..MaxFrames
    /\ upstream \in {"open", "ended"}
    /\ loop \in {"reading", "holding", "failing", "done"}
    /\ hand \in 0..MaxFrames
    /\ queue \in Seq(Frames)
    /\ closed \in BOOLEAN
    /\ waiters \subseteq Recvs
    /\ woken \subseteq Recvs
    /\ popped \in 0..MaxFrames
    /\ rpc \in [Recvs -> {"idle", "lookup", "check", "select", "reply"}]
    /\ answer \in [Recvs -> {"none", "frame", "closed", "timeout", "unknown"}]
    /\ frame \in [Recvs -> 0..MaxFrames]
    /\ present \in [Recvs -> BOOLEAN]
    /\ got \subseteq Frames
    /\ lost \subseteq Frames

\* The inductive invariant of the receiving side.
RecvInv ==
    /\ InTypes
    /\ Control
    /\ Complete
    /\ InOrder
    /\ EachFrameOnce
    /\ NoLostWakeup
    /\ ClosedAfterDrain

inVars == <<wire, emitted, upstream, loop, hand, queue, closed, waiters, woken, popped,
            rpc, answer, frame, present, got, lost>>

\* The invariant speaks of the receiving side only, so a step that leaves
\* that side alone keeps it.
LEMMA RecvInvFrame ==
    ASSUME RecvInv, UNCHANGED inVars
    PROVE  RecvInv'
BY DEF RecvInv, inVars, InTypes, Control, Complete, InOrder, Held, EachFrameOnce, InReply,
       NoLostWakeup, ClosedAfterDrain

LEMMA RecvInvInit ==
    ASSUME Init
    PROVE  RecvInv
<1> USE ConnAssumption DEF Init
<1>1. InTypes
  <2>1. wire \in Seq(Frames) /\ queue \in Seq(Frames)
    OBVIOUS
  <2>2. 0 \in 0..MaxFrames
    OBVIOUS
  <2>3. frame \in [Recvs -> 0..MaxFrames] /\ got \subseteq Frames /\ lost \subseteq Frames
    BY <2>2
  <2> QED BY <2>1, <2>2, <2>3 DEF InTypes
<1>2. Control /\ NoLostWakeup /\ ClosedAfterDrain
    BY DEF Control, NoLostWakeup, ClosedAfterDrain
<1>3. Complete /\ InOrder
    BY DEF Complete, InOrder, Held
<1>4. EachFrameOnce
    BY DEF EachFrameOnce, InReply
<1> QED BY <1>1, <1>2, <1>3, <1>4 DEF RecvInv

\* The frames in the responses after a call has been given, or has written,
\* its response: only that call's frame changes.
LEMMA InReplyExcept ==
    ASSUME NEW r \in Recvs, NEW n \in Nat, frame \in [Recvs -> Nat],
           frame' = [frame EXCEPT ![r] = n],
           \A q, p \in Recvs : q # p /\ frame[q] # 0 => frame[q] # frame[p]
    PROVE  InReply' = (InReply \ {frame[r]}) \cup ({n} \ {0})
BY DEF InReply

\* The upstream's steps.
LEMMA RecvInvUpstream ==
    ASSUME RecvInv, UpstreamSend \/ UpstreamEnd
    PROVE  RecvInv'
<1> USE ConnAssumption
<1>1. CASE UpstreamSend
  <2> USE DEF UpstreamSend, connVars, loopVars, recvVars
  <2>1. InTypes'
    BY <1>1 DEF RecvInv, InTypes, Frames
  <2>2. Control' /\ EachFrameOnce' /\ NoLostWakeup' /\ ClosedAfterDrain'
    BY <1>1 DEF RecvInv, Control, EachFrameOnce, InReply, NoLostWakeup, ClosedAfterDrain
  <2>3. /\ Len(wire') = Len(wire) + 1 /\ wire'[Len(wire)+1] = emitted + 1
        /\ \A i \in 1..Len(wire) : wire'[i] = wire[i]
    BY <1>1 DEF RecvInv, InTypes
  <2>4. Held \in 0..1 /\ Held' = Held
    BY <1>1 DEF Held
  <2>5. popped + Len(queue) + Held + Len(wire) = emitted
    BY <1>1 DEF RecvInv, Complete
  <2>6. Complete'
    <3>1. /\ popped' = popped /\ Len(queue') = Len(queue) /\ emitted' = emitted + 1
          /\ popped \in Nat /\ Len(queue) \in Nat /\ Len(wire) \in Nat
      BY <1>1 DEF RecvInv, InTypes
    <3> QED BY <2>3, <2>4, <2>5, <3>1 DEF Complete
  <2>7. InOrder'
    BY <1>1, <2>3, <2>4, <2>5 DEF RecvInv, InTypes, InOrder
  <2> QED BY <2>1, <2>2, <2>6, <2>7 DEF RecvInv
<1>2. CASE UpstreamEnd
  <2> USE DEF UpstreamEnd, connVars, loopVars, recvVars
  <2>1. PICK n \in 0..Len(wire) : wire' = SubSeq(wire, 1, n)
    BY <1>2
  <2>2. wire' \in Seq(Frames) /\ Len(wire') = n /\ \A i \in 1..n : wire'[i] = wire[i]
    BY <1>2, <2>1 DEF RecvInv, InTypes
  <2>3. InTypes'
    BY <1>2, <2>2 DEF RecvInv, InTypes
  <2>4. Control' /\ EachFrameOnce' /\ NoLostWakeup' /\ ClosedAfterDrain'
    BY <1>2 DEF RecvInv, Control, EachFrameOnce, InReply, NoLostWakeup, ClosedAfterDrain
  <2>5. Complete'
    BY <1>2 DEF Complete
  <2>6. InOrder'
    BY <1>2, <2>2 DEF RecvInv, InTypes, InOrder, Held
  <2> QED BY <2>3, <2>4, <2>5, <2>6 DEF RecvInv
<1> QED BY <1>1, <1>2

\* The steps of readLoop.
LEMMA RecvInvReadLoop ==
    ASSUME RecvInv, readLoop
    PROVE  RecvInv'
<1> USE ConnAssumption
<1>1. CASE ReadMessage
  <2> USE DEF ReadMessage, connVars, recvVars
  <2>1. /\ wire' \in Seq(Frames) /\ Len(wire') = Len(wire) - 1
        /\ \A i \in 1..Len(wire') : wire'[i] = wire[i+1]
        /\ hand' = wire[1] /\ hand' \in Frames
    BY <1>1 DEF RecvInv, InTypes
  <2>2. InTypes'
    BY <1>1, <2>1 DEF RecvInv, InTypes, Frames
  <2>3. Control'
    BY <1>1, <2>1 DEF RecvInv, Control, Frames
  <2>4. EachFrameOnce' /\ NoLostWakeup'
    BY <1>1 DEF RecvInv, EachFrameOnce, InReply, NoLostWakeup
  <2>5. ClosedAfterDrain'
    BY <1>1 DEF RecvInv, ClosedAfterDrain, Control
  <2>6. hand = 0 /\ hand' # 0
    BY <1>1, <2>1 DEF RecvInv, Control, Frames, InTypes
  <2>7. Held = 0 /\ Held' = 1
    BY <1>1, <2>6 DEF Held
  <2>8. wire[1] = popped + Len(queue) + 1
    BY <1>1, <2>7 DEF RecvInv, InOrder, InTypes
  <2>9. Complete'
    <3>1. /\ popped' = popped /\ Len(queue') = Len(queue) /\ emitted' = emitted
          /\ upstream' = upstream
          /\ popped \in Nat /\ Len(queue) \in Nat /\ Len(wire) \in Nat
      BY <1>1 DEF RecvInv, InTypes
    <3> QED BY <2>1, <2>7, <3>1 DEF RecvInv, Complete
  <2>10. InOrder'
    BY <1>1, <2>1, <2>7, <2>8 DEF RecvInv, InTypes, InOrder
  <2> QED BY <2>2, <2>3, <2>4, <2>5, <2>9, <2>10 DEF RecvInv
<1>2. CASE ReadError
  <2> USE DEF ReadError, connVars, recvVars, upVars
  <2>1. InTypes' /\ Control' /\ Complete' /\ InOrder'
    BY <1>2 DEF RecvInv, InTypes, Control, Complete, InOrder, Held
  <2>2. EachFrameOnce' /\ NoLostWakeup' /\ ClosedAfterDrain'
    BY <1>2 DEF RecvInv, EachFrameOnce, InReply, NoLostWakeup, ClosedAfterDrain
  <2> QED BY <2>1, <2>2 DEF RecvInv
<1>3. CASE StoreFrame
  <2> USE DEF StoreFrame, notify, recvVars, upVars
  <2>1. hand \in Frames
    BY <1>3 DEF RecvInv, InTypes, Control, Frames
  <2>2. /\ queue' \in Seq(Frames) /\ Len(queue') = Len(queue) + 1
        /\ \A i \in 1..Len(queue) : queue'[i] = queue[i]
        /\ queue'[Len(queue)+1] = hand
    BY <1>3, <2>1 DEF RecvInv, InTypes
  <2>3. InTypes'
    BY <1>3, <2>2 DEF RecvInv, InTypes
  <2>4. Control' /\ EachFrameOnce' /\ NoLostWakeup' /\ ClosedAfterDrain'
    BY <1>3 DEF RecvInv, InTypes, Control, EachFrameOnce, InReply, NoLostWakeup, ClosedAfterDrain
  <2>5. Held = 1 /\ Held' = 0
    BY <1>3, <2>1 DEF Held, Frames
  <2>6. hand = popped + Len(queue) + 1
    BY <1>3, <2>1 DEF RecvInv, InOrder, Frames
  <2>7. Complete'
    BY <1>3, <2>2, <2>5 DEF RecvInv, InTypes, Complete
  <2>8. InOrder'
    <3>1. /\ popped' = popped /\ wire' = wire /\ hand' = 0
          /\ popped \in Nat /\ Len(queue) \in Nat /\ Len(wire) \in Nat
          /\ \A i \in 1..Len(queue) : queue[i] = popped + i
          /\ \A i \in 1..Len(wire) : wire[i] = popped + Len(queue) + 1 + i
      BY <1>3, <2>5 DEF RecvInv, InTypes, InOrder
    <3>2. ASSUME NEW i \in 1..Len(queue') PROVE queue'[i] = popped + i
      <4>1. i \in 1..Len(queue) \/ i = Len(queue) + 1
        BY <2>2, <3>1
      <4>2. CASE i \in 1..Len(queue)
        BY <2>2, <3>1, <4>2
      <4>3. CASE i = Len(queue) + 1
        BY <2>2, <2>6, <3>1, <4>3
      <4> QED BY <4>1, <4>2, <4>3
    <3> QED BY <2>2, <2>5, <3>1, <3>2 DEF InOrder
  <2> QED BY <2>3, <2>4, <2>7, <2>8 DEF RecvInv
<1>4. CASE StoreError
  <2> USE DEF StoreError, notify, recvVars, upVars
  <2>1. InTypes' /\ Control' /\ Complete' /\ InOrder'
    BY <1>4 DEF RecvInv, InTypes, Control, Complete, InOrder, Held
  <2>2. EachFrameOnce' /\ NoLostWakeup' /\ ClosedAfterDrain'
    BY <1>4 DEF RecvInv, Control, EachFrameOnce, InReply, NoLostWakeup, ClosedAfterDrain
  <2> QED BY <2>1, <2>2 DEF RecvInv
<1> QED BY <1>1, <1>2, <1>3, <1>4 DEF readLoop

\* The steps of handleRecv, its deadline and its client.
LEMMA RecvInvHandler ==
    ASSUME RecvInv, NEW r \in Recvs,
           RecvCall(r) \/ handleRecv(r) \/ RecvDeadline(r) \/ ClientLeave(r)
    PROVE  RecvInv'
<1> USE ConnAssumption
<1>1. ASSUME UNCHANGED <<upVars, loopVars, queue, closed, popped>>
      PROVE  Complete' /\ InOrder'
    BY <1>1 DEF RecvInv, Complete, InOrder, Held, upVars, loopVars
<1>2. ASSUME UNCHANGED <<frame, got, lost, popped>>
      PROVE  EachFrameOnce'
    BY <1>2 DEF RecvInv, EachFrameOnce, InReply
<1>3. CASE RecvCall(r)
  <2> USE DEF RecvCall, upVars, loopVars, connVars
  <2>1. InTypes' /\ Control'
    BY <1>3 DEF RecvInv, InTypes, Control
  <2>2. NoLostWakeup' /\ ClosedAfterDrain'
    BY <1>3 DEF RecvInv, InTypes, NoLostWakeup, ClosedAfterDrain
  <2> QED BY <1>1, <1>2, <1>3, <2>1, <2>2 DEF RecvInv
<1>4. CASE RecvLookup(r)
  <2> USE DEF RecvLookup, Respond, upVars, loopVars, connVars
  <2>1. frame' = frame
    BY <1>4 DEF RecvInv, InTypes, Control
  <2>2. InTypes' /\ Control'
    BY <1>4, <2>1 DEF RecvInv, InTypes, Control
  <2>3. NoLostWakeup' /\ ClosedAfterDrain'
    BY <1>4 DEF RecvInv, InTypes, NoLostWakeup, ClosedAfterDrain
  <2> QED BY <1>1, <1>2, <1>4, <2>1, <2>2, <2>3 DEF RecvInv
<1>5. CASE RecvPop(r)
  <2> USE DEF RecvPop, Respond, upVars, loopVars
  <2>1. /\ queue' \in Seq(Frames) /\ Len(queue') = Len(queue) - 1
        /\ \A i \in 1..Len(queue') : queue'[i] = queue[i+1]
        /\ Head(queue) = queue[1] /\ queue[1] \in Frames /\ Len(queue) \in Nat
        /\ Len(queue) >= 1
    BY <1>5 DEF RecvInv, InTypes
  <2>2. Head(queue) = popped + 1
    BY <2>1 DEF RecvInv, InOrder
  <2>3. /\ popped \in Nat /\ popped + 1 \in Frames /\ popped' = popped + 1
        /\ frame[r] = 0 /\ frame' = [frame EXCEPT ![r] = popped + 1]
        /\ answer' = [answer EXCEPT ![r] = "frame"] /\ rpc' = [rpc EXCEPT ![r] = "reply"]
    <3>1. popped \in Nat /\ popped + 1 \in Frames /\ popped' = popped + 1
      BY <1>5, <2>1, <2>2 DEF RecvInv, InTypes
    <3>2. frame[r] = 0
      BY <1>5 DEF RecvInv, Control
    <3> QED BY <1>5, <2>2, <3>1, <3>2
  <2>4. InTypes'
    BY <1>5, <2>1, <2>3 DEF RecvInv, InTypes, Frames
  <2>5. Control'
    BY <1>5, <2>3 DEF RecvInv, InTypes, Control, Frames
  <2>6. Complete' /\ InOrder'
    <3>1. Held' = Held /\ Held \in 0..1 /\ Len(wire) \in Nat /\ UNCHANGED <<hand, wire, upstream, emitted>>
      BY <1>5 DEF Held, RecvInv, InTypes
    <3>2. popped' + Len(queue') = popped + Len(queue)
      BY <2>1, <2>3
    <3>3. Complete'
      BY <2>1, <2>3, <3>1, <3>2 DEF RecvInv, Complete
    <3>4. ASSUME NEW i \in 1..Len(queue') PROVE queue'[i] = popped' + i
      <4>1. i + 1 \in 1..Len(queue) /\ i \in Nat
        BY <2>1
      <4>2. queue[i+1] = popped + (i + 1)
        BY <4>1 DEF RecvInv, InOrder
      <4> QED BY <2>1, <2>3, <4>1, <4>2
    <3>5. InOrder'
      BY <2>1, <2>3, <3>1, <3>2, <3>4 DEF RecvInv, InOrder
    <3> QED BY <3>3, <3>5
  <2>7. EachFrameOnce'
    <3>1. InReply' = InReply \cup {popped + 1}
      BY <2>3, InReplyExcept DEF RecvInv, InTypes, EachFrameOnce, InReply
    <3>2. \A q \in Recvs : frame[q] # popped + 1
      BY <2>3 DEF RecvInv, EachFrameOnce, InReply, InTypes
    <3>3. got' = got /\ lost' = lost
      BY <1>5
    <3> QED BY <2>3, <3>1, <3>2, <3>3 DEF RecvInv, EachFrameOnce, InTypes
  <2>8. NoLostWakeup' /\ ClosedAfterDrain'
    BY <1>5, <2>1, <2>3 DEF RecvInv, InTypes, NoLostWakeup, ClosedAfterDrain
  <2> QED BY <2>4, <2>5, <2>6, <2>7, <2>8 DEF RecvInv
<1>6. CASE RecvClosed(r)
  <2> USE DEF RecvClosed, Respond, upVars, loopVars, connVars
  <2>1. frame' = frame
    BY <1>6 DEF RecvInv, InTypes, Control
  <2>2. InTypes' /\ Control'
    BY <1>6, <2>1 DEF RecvInv, InTypes, Control
  <2>3. NoLostWakeup' /\ ClosedAfterDrain'
    BY <1>6 DEF RecvInv, InTypes, Control, NoLostWakeup, ClosedAfterDrain
  <2> QED BY <1>1, <1>2, <1>6, <2>1, <2>2, <2>3 DEF RecvInv
<1>7. CASE RecvRegister(r)
  <2> USE DEF RecvRegister, upVars, loopVars
  <2>1. InTypes' /\ Control'
    BY <1>7 DEF RecvInv, InTypes, Control
  <2>2. NoLostWakeup' /\ ClosedAfterDrain'
    BY <1>7 DEF RecvInv, InTypes, NoLostWakeup, ClosedAfterDrain
  <2> QED BY <1>1, <1>2, <1>7, <2>1, <2>2 DEF RecvInv
<1>8. CASE RecvWake(r) \/ RecvCancelled(r)
  <2> USE DEF RecvWake, RecvCancelled, upVars, loopVars, connVars
  <2>1. InTypes' /\ UNCHANGED <<loop, hand, closed, answer, frame>>
    BY <1>8 DEF RecvInv, InTypes
  <2>3. \A q \in Recvs : rpc'[q] # "reply" <=> rpc[q] # "reply"
    BY <1>8 DEF RecvInv, InTypes
  <2>4. Control'
    BY <2>1, <2>3 DEF RecvInv, Control
  <2>2. NoLostWakeup' /\ ClosedAfterDrain'
    BY <1>8 DEF RecvInv, InTypes, NoLostWakeup, ClosedAfterDrain
  <2> QED BY <1>1, <1>2, <1>8, <2>1, <2>2, <2>4 DEF RecvInv
<1>9. CASE RecvDeadline(r)
  <2> USE DEF RecvDeadline, Respond, upVars, loopVars, connVars
  <2>1. frame' = frame
    BY <1>9 DEF RecvInv, InTypes, Control
  <2>2. InTypes' /\ Control'
    BY <1>9, <2>1 DEF RecvInv, InTypes, Control
  <2>3. NoLostWakeup' /\ ClosedAfterDrain'
    BY <1>9 DEF RecvInv, InTypes, NoLostWakeup, ClosedAfterDrain
  <2> QED BY <1>1, <1>2, <1>9, <2>1, <2>2, <2>3 DEF RecvInv
<1>10. CASE ClientLeave(r)
  <2> USE DEF ClientLeave, upVars, loopVars, connVars
  <2>1. InTypes' /\ Control'
    BY <1>10 DEF RecvInv, InTypes, Control
  <2>2. NoLostWakeup' /\ ClosedAfterDrain'
    BY <1>10 DEF RecvInv, NoLostWakeup, ClosedAfterDrain
  <2> QED BY <1>1, <1>2, <1>10, <2>1, <2>2 DEF RecvInv
<1>11. CASE RecvReply(r)
  <2> USE DEF RecvReply, upVars, loopVars, connVars
  <2>1. /\ frame' = [frame EXCEPT ![r] = 0] /\ frame \in [Recvs -> 0..MaxFrames]
        /\ rpc' = [rpc EXCEPT ![r] = "idle"] /\ answer' = [answer EXCEPT ![r] = "none"]
    BY <1>11 DEF RecvInv, InTypes
  <2>2. got' \cup lost' = got \cup lost \cup ({frame[r]} \ {0}) /\ UNCHANGED <<popped, present>>
    BY <1>11
  <2>3. InTypes'
    <3>1. frame'  \in [Recvs -> 0..MaxFrames]
      BY <2>1
    <3>2. got' \subseteq Frames /\ lost' \subseteq Frames
      <4>1. frame[r] = 0 \/ frame[r] \in Frames
        BY <2>1 DEF Frames
      <4>2. got \subseteq Frames /\ lost \subseteq Frames
        BY DEF RecvInv, InTypes
      <4> QED BY <1>11, <4>1, <4>2
    <3>3. /\ rpc' \in [Recvs -> {"idle", "lookup", "check", "select", "reply"}]
          /\ answer' \in [Recvs -> {"none", "frame", "closed", "timeout", "unknown"}]
      BY <2>1 DEF RecvInv, InTypes
    <3> QED BY <1>11, <3>1, <3>2, <3>3 DEF RecvInv, InTypes
  <2>4. Control' /\ NoLostWakeup' /\ ClosedAfterDrain'
    BY <1>11, <2>1 DEF RecvInv, InTypes, Control, NoLostWakeup, ClosedAfterDrain
  <2>5. EachFrameOnce'
    <3>1. InReply' = InReply \ {frame[r]}
      <4>1. frame \in [Recvs -> Nat] /\ 0 \in Nat
        BY <2>1
      <4>2. \A q, p \in Recvs : q # p /\ frame[q] # 0 => frame[q] # frame[p]
        BY DEF RecvInv, EachFrameOnce
      <4>3. InReply' = (InReply \ {frame[r]}) \cup ({0} \ {0})
        BY <2>1, <4>1, <4>2, InReplyExcept
      <4> QED BY <4>3
    <3>2. frame[r] # 0 => frame[r] \in InReply
      BY DEF InReply
    <3>3. 0 \notin InReply
      BY DEF InReply
    <3>4. got' \cup lost' \cup InReply' = 1..popped'
      BY <2>2, <3>1, <3>2, <3>3 DEF RecvInv, EachFrameOnce
    <3>5. got' \cap lost' = {} /\ InReply' \cap (got' \cup lost') = {}
      BY <1>11, <2>2, <3>1, <3>2, <3>3 DEF RecvInv, EachFrameOnce
    <3>6. \A p, q \in Recvs : p # q /\ frame'[p] # 0 => frame'[p] # frame'[q]
      BY <2>1 DEF RecvInv, EachFrameOnce
    <3> QED BY <3>4, <3>5, <3>6 DEF EachFrameOnce
  <2> QED BY <1>1, <1>11, <2>3, <2>4, <2>5 DEF RecvInv
<1> QED BY <1>3, <1>4, <1>5, <1>6, <1>7, <1>8, <1>9, <1>10, <1>11 DEF handleRecv

\* handleSend and handleClose do not touch the receiving side.
LEMMA RecvInvNext ==
    ASSUME RecvInv, [Next]_vars
    PROVE  RecvInv'
<1>1. CASE UpstreamSend \/ UpstreamEnd
    BY <1>1, RecvInvUpstream
<1>2. CASE readLoop
    BY <1>2, RecvInvReadLoop
<1>3. ASSUME NEW r \in Recvs,
             RecvCall(r) \/ handleRecv(r) \/ RecvDeadline(r) \/ ClientLeave(r)
      PROVE  RecvInv'
    BY <1>3, RecvInvHandler
<1>4. ASSUME NEW s \in Senders, handleSend(s)
      PROVE  RecvInv'
    BY <1>4, RecvInvFrame DEF inVars, upVars, loopVars, connVars, recvVars, handleSend,
         SendLookup, SendLock, WriteFails, WriteFirst, WriteLast
<1>5. ASSUME NEW d \in Closers, handleClose(d)
      PROVE  RecvInv'
    BY <1>5, RecvInvFrame DEF inVars, upVars, loopVars, connVars, recvVars, handleClose,
         DeleteLookup, DeleteUnlist, WriteControl, CloseSocket, DeleteReport
<1>6. CASE UNCHANGED vars
    BY <1>6, RecvInvFrame DEF inVars, vars, upVars, loopVars, connVars, recvVars
<1> QED BY <1>1, <1>2, <1>3, <1>4, <1>5, <1>6 DEF Next

THEOREM RecvInvariant == Spec => []RecvInv
<1>1. Init => RecvInv
    BY RecvInvInit
<1>2. RecvInv /\ [Next]_vars => RecvInv'
    BY RecvInvNext
<1> QED BY <1>1, <1>2, PTL DEF Spec

\* However many callers poll one connection, each frame readLoop stored is
\* answered by exactly one call.
THEOREM FramesOnce == Spec => []EachFrameOnce
<1>1. RecvInv => EachFrameOnce
    BY DEF RecvInv
<1> QED BY <1>1, RecvInvariant, PTL

\* Frames leave the queue in the order the upstream sent them, none skipped.
THEOREM FramesInOrder == Spec => []InOrder
<1>1. RecvInv => InOrder
    BY DEF RecvInv
<1> QED BY <1>1, RecvInvariant, PTL

\* No frame and no close can slip between the queue check of handleRecv and
\* its select.
THEOREM WakeupsKept == Spec => []NoLostWakeup
<1>1. RecvInv => NoLostWakeup
    BY DEF RecvInv
<1> QED BY <1>1, RecvInvariant, PTL

\* "closed" is the last thing a caller hears.
THEOREM ClosedIsLast == Spec => []ClosedAfterDrain
<1>1. RecvInv => ClosedAfterDrain
    BY DEF RecvInv
<1> QED BY <1>1, RecvInvariant, PTL

------------------------------------------------------------------------------
(* The sending side.                                                       *)

Pieces == [by : Senders, part : {"first", "last"}, size : Nat] \cup [part : {"close"}]

\* Only the holder of writeMu is inside WriteMessage, and between its two
\* fragments the last thing written is its first one or a close frame.
SendInv ==
    /\ spc \in [Senders -> {"lookup", "lock", "first", "last", "sent", "gone", "unknown"}]
    /\ body \in [Senders -> Sizes]
    /\ writer \subseteq Senders
    /\ out \in Seq(Pieces)
    /\ closeSent \in BOOLEAN
    /\ shut \in BOOLEAN
    /\ \A s \in Senders : spc[s] \in {"first", "last"} <=> s \in writer
    /\ \A s, t \in writer : s = t
    /\ \A s \in Senders : spc[s] = "last" /\ ~closeSent =>
          /\ Len(out) > 0
          /\ out[Len(out)].part = "first"
          /\ out[Len(out)].by = s
    /\ ~closeSent => \A i \in 1..Len(out) : out[i].part # "close"
    /\ OutWellFormed

\* Appending to out leaves what was there in place.
LEMMA OutAppend ==
    ASSUME out \in Seq(Pieces), NEW e \in Pieces, out' = Append(out, e)
    PROVE  /\ out' \in Seq(Pieces)
           /\ Len(out) \in Nat
           /\ Len(out') = Len(out) + 1
           /\ out'[Len(out')] = e
           /\ \A i \in 1..Len(out) : out'[i] = out[i]
           /\ \A i \in 1..Len(out') : i \in 1..Len(out) \/ i = Len(out')
OBVIOUS

LEMMA SendInvSend ==
    ASSUME SendInv, NEW s \in Senders, handleSend(s)
    PROVE  SendInv'
<1> USE DEF SendInv
<1>1. CASE SendLookup(s) \/ SendLock(s)
    BY <1>1 DEF SendLookup, SendLock, sockVars, OutWellFormed
<1>2. CASE WriteFails(s)
    BY <1>2 DEF WriteFails, sockVars, OutWellFormed
<1>3. CASE WriteFirst(s)
  <2> DEFINE e == [by |-> s, part |-> "first", size |-> SentLength(s)]
  <2>1. e \in Pieces
    BY ConnAssumption DEF Pieces, SentLength
  <2>2. out' = Append(out, e)
    BY <1>3 DEF WriteFirst
  <2>3. e.part = "first" /\ e.by = s
    OBVIOUS
  <2> HIDE DEF e
  <2>4. OutWellFormed'
    <3>1. \A i \in 1..Len(out) : out[i].part # "close"
      BY <1>3 DEF WriteFirst
    <3> QED BY <2>1, <2>2, <2>3, <3>1, OutAppend DEF OutWellFormed
  <2>5. spc' = [spc EXCEPT ![s] = "last"] /\ writer' = writer /\ spc[s] = "first"
    BY <1>3 DEF WriteFirst
  <2>6. \A t \in Senders : spc'[t] = "last" => t = s
    BY <2>5
  <2>7. Len(out') > 0 /\ out'[Len(out')].part = "first" /\ out'[Len(out')].by = s
    BY <2>1, <2>2, <2>3, OutAppend
  <2>8. \A i \in 1..Len(out') : out'[i].part # "close"
    BY <1>3, <2>1, <2>2, <2>3, OutAppend DEF WriteFirst
  <2>9. out' \in Seq(Pieces)
    BY <2>1, <2>2, OutAppend
  <2> QED BY <1>3, <2>4, <2>5, <2>6, <2>7, <2>8, <2>9 DEF WriteFirst
<1>4. CASE WriteLast(s)
  <2> DEFINE e == [by |-> s, part |-> "last", size |-> SentLength(s)]
  <2>1. e \in Pieces
    BY ConnAssumption DEF Pieces, SentLength
  <2>2. out' = Append(out, e)
    BY <1>4 DEF WriteLast
  <2>3. e.part = "last" /\ e.by = s
    OBVIOUS
  <2> HIDE DEF e
  <2>4. Len(out) > 0 /\ out[Len(out)].part = "first" /\ out[Len(out)].by = s
    BY <1>4 DEF WriteLast
  <2>5. OutWellFormed'
    BY <2>1, <2>2, <2>3, <2>4, OutAppend DEF OutWellFormed
  <2>6. spc' = [spc EXCEPT ![s] = "sent"] /\ writer' = writer \ {s} /\ spc[s] = "last"
    BY <1>4 DEF WriteLast
  <2>7. \A t \in Senders : spc'[t] # "last"
    BY <2>6
  <2>8. \A i \in 1..Len(out') : out'[i].part # "close"
    BY <1>4, <2>1, <2>2, <2>3, OutAppend DEF WriteLast
  <2>9. out' \in Seq(Pieces)
    BY <2>1, <2>2, OutAppend
  <2> QED BY <1>4, <2>5, <2>6, <2>7, <2>8, <2>9 DEF WriteLast
<1> QED BY <1>1, <1>2, <1>3, <1>4 DEF handleSend

LEMMA SendInvClose ==
    ASSUME SendInv, NEW d \in Closers, handleClose(d)
    PROVE  SendInv'
<1> USE DEF SendInv
<1>1. CASE WriteControl(d) /\ ~closeSent /\ ~shut
  <2> DEFINE e == [part |-> "close"]
  <2>1. e \in Pieces
    BY DEF Pieces
  <2>2. out' = Append(out, e) /\ closeSent' = TRUE
    BY <1>1 DEF WriteControl
  <2>3. e.part = "close"
    OBVIOUS
  <2> HIDE DEF e
  <2>4. OutWellFormed'
    BY <1>1, <2>1, <2>2, <2>3, OutAppend DEF OutWellFormed
  <2>5. out' \in Seq(Pieces)
    BY <2>1, <2>2, OutAppend
  <2> QED BY <1>1, <2>2, <2>4, <2>5 DEF WriteControl, sendVars
<1>2. CASE WriteControl(d) /\ (closeSent \/ shut)
    BY <1>2 DEF WriteControl, sendVars, OutWellFormed
<1>3. CASE DeleteLookup(d) \/ DeleteUnlist(d) \/ CloseSocket(d) \/ DeleteReport(d)
    BY <1>3 DEF DeleteLookup, DeleteUnlist, CloseSocket, DeleteReport, sendVars, sockVars,
         OutWellFormed
<1> QED BY <1>1, <1>2, <1>3 DEF handleClose

\* Everything else leaves the sending side alone.
LEMMA SendInvNext ==
    ASSUME SendInv, [Next]_vars
    PROVE  SendInv'
<1>1. ASSUME UNCHANGED <<sendVars, sockVars>>
      PROVE  SendInv'
    BY <1>1 DEF SendInv, sendVars, sockVars, OutWellFormed
<1>2. CASE UpstreamSend \/ UpstreamEnd
    BY <1>1, <1>2 DEF UpstreamSend, UpstreamEnd
<1>3. CASE readLoop
    BY <1>1, <1>3 DEF readLoop, ReadMessage, ReadError, StoreFrame, StoreError
<1>4. ASSUME NEW r \in Recvs,
             RecvCall(r) \/ handleRecv(r) \/ RecvDeadline(r) \/ ClientLeave(r)
      PROVE  SendInv'
    BY <1>1, <1>4 DEF RecvCall, handleRecv, RecvDeadline, ClientLeave, RecvLookup, RecvPop,
         RecvClosed, RecvRegister, RecvWake, RecvCancelled, RecvReply
<1>5. CASE UNCHANGED vars
    BY <1>1, <1>5 DEF vars
<1> QED BY <1>2, <1>3, <1>4, <1>5, SendInvSend, SendInvClose DEF Next

\* The invariant of the sending side, which every property of it follows from.
THEOREM SendInvariant == Spec => []SendInv
<1>1. Init => SendInv
  <2> SUFFICES ASSUME Init PROVE SendInv
    OBVIOUS
  <2>1. out = <<>> /\ closeSent = FALSE /\ shut = FALSE /\ writer = {}
    BY DEF Init
  <2>2. spc = [s \in Senders |-> "lookup"] /\ body \in [Senders -> Sizes]
    BY DEF Init
  <2>3. out \in Seq(Pieces) /\ Len(out) = 0
    BY <2>1
  <2>4. OutWellFormed /\ \A i \in 1..Len(out) : out[i].part # "close"
    BY <2>3 DEF OutWellFormed
  <2>5. /\ spc \in [Senders -> {"lookup", "lock", "first", "last", "sent", "gone", "unknown"}]
        /\ \A s \in Senders : spc[s] = "lookup"
    BY <2>2
  <2> QED BY <2>1, <2>2, <2>3, <2>4, <2>5 DEF SendInv
<1>2. SendInv /\ [Next]_vars => SendInv'
    BY SendInvNext
<1> QED BY <1>1, <1>2, PTL DEF Spec

\* Two sends never mix their fragments on the upstream connection, and
\* nothing is written after a close frame, for any number of callers.
THEOREM WritesWellFormed == Spec => []OutWellFormed
<1>1. SendInv => OutWellFormed
    BY DEF SendInv
<1> QED BY <1>1, SendInvariant, PTL

\* Where on the connection the last fragments of s are.
LastsOf(s) == {i \in 1..Len(out) : out[i].part = "last" /\ out[i].by = s}

\* There is one for a send that was answered 200 and none for any other, the
\* one that is still between its fragments and the one that failed included.
WireInv ==
    \A s \in Senders : IF spc[s] = "sent" THEN \E i : LastsOf(s) = {i}
                                         ELSE LastsOf(s) = {}

\* A fragment put on the connection is one more last fragment of its sender, or
\* of nobody.
LEMMA LastsAppend ==
    ASSUME out \in Seq(Pieces), NEW e \in Pieces, out' = Append(out, e), NEW s
    PROVE  LastsOf(s)' = IF e.part = "last" /\ e.by = s THEN LastsOf(s) \cup {Len(out')}
                                                      ELSE LastsOf(s)
BY OutAppend DEF LastsOf

LEMMA WireInvStep ==
    ASSUME SendInv, WireInv, [Next]_vars
    PROVE  WireInv'
<1>1. ASSUME UNCHANGED <<spc, out>>
      PROVE  WireInv'
    BY <1>1 DEF WireInv, LastsOf
<1>2. out \in Seq(Pieces)
    BY DEF SendInv
<1>3. ASSUME NEW s \in Senders, handleSend(s)
      PROVE  WireInv'
  <2>1. CASE SendLookup(s) \/ SendLock(s) \/ WriteFails(s)
    <3>1. \A t \in Senders : LastsOf(t)' = LastsOf(t)
      BY <2>1 DEF SendLookup, SendLock, WriteFails, sockVars, LastsOf
    <3>2. \A t \in Senders : spc'[t] = "sent" <=> spc[t] = "sent"
      BY <2>1 DEF SendLookup, SendLock, WriteFails, SendInv
    <3> QED BY <3>1, <3>2 DEF WireInv
  <2>2. CASE WriteFirst(s)
    <3> DEFINE e == [by |-> s, part |-> "first", size |-> SentLength(s)]
    <3>1. e \in Pieces /\ out' = Append(out, e) /\ e.part = "first"
      BY <2>2, ConnAssumption DEF Pieces, SentLength, WriteFirst, SendInv
    <3> HIDE DEF e
    <3>2. \A t \in Senders : LastsOf(t)' = LastsOf(t)
      BY <1>2, <3>1, LastsAppend
    <3>3. \A t \in Senders : spc'[t] = "sent" <=> spc[t] = "sent"
      BY <2>2 DEF WriteFirst, SendInv
    <3> QED BY <3>2, <3>3 DEF WireInv
  <2>3. CASE WriteLast(s)
    <3> DEFINE e == [by |-> s, part |-> "last", size |-> SentLength(s)]
    <3>1. e \in Pieces /\ out' = Append(out, e) /\ e.part = "last" /\ e.by = s
      BY <2>3, ConnAssumption DEF Pieces, SentLength, WriteLast, SendInv
    <3> HIDE DEF e
    <3>2. \A t \in Senders : LastsOf(t)' = IF t = s THEN LastsOf(t) \cup {Len(out')}
                                                    ELSE LastsOf(t)
      BY <1>2, <3>1, LastsAppend
    <3>3. /\ spc'[s] = "sent" /\ spc[s] # "sent"
          /\ \A t \in Senders \ {s} : spc'[t] = spc[t]
      BY <2>3 DEF WriteLast, SendInv
    <3>4. LastsOf(s)' = {Len(out')}
      BY <3>2, <3>3 DEF WireInv
    <3> QED BY <3>2, <3>3, <3>4 DEF WireInv
  <2> QED BY <1>3, <2>1, <2>2, <2>3 DEF handleSend
<1>4. ASSUME NEW d \in Closers, handleClose(d)
      PROVE  WireInv'
  <2>1. CASE WriteControl(d) /\ ~closeSent /\ ~shut
    <3> DEFINE e == [part |-> "close"]
    <3>1. e \in Pieces /\ out' = Append(out, e) /\ e.part = "close"
      BY <2>1 DEF Pieces, WriteControl
    <3> HIDE DEF e
    <3>2. \A t \in Senders : LastsOf(t)' = LastsOf(t)
      BY <1>2, <3>1, LastsAppend
    <3>3. spc' = spc
      BY <2>1 DEF WriteControl, sendVars
    <3> QED BY <3>2, <3>3 DEF WireInv
  <2>2. CASE WriteControl(d) /\ (closeSent \/ shut)
    BY <1>1, <2>2 DEF WriteControl, sendVars
  <2>3. CASE DeleteLookup(d) \/ DeleteUnlist(d) \/ CloseSocket(d) \/ DeleteReport(d)
    BY <1>1, <2>3 DEF DeleteLookup, DeleteUnlist, CloseSocket, DeleteReport, sendVars, sockVars
  <2> QED BY <1>4, <2>1, <2>2, <2>3 DEF handleClose
<1>5. CASE UpstreamSend \/ UpstreamEnd
    BY <1>1, <1>5 DEF UpstreamSend, UpstreamEnd, sendVars, sockVars
<1>6. CASE readLoop
    BY <1>1, <1>6 DEF readLoop, ReadMessage, ReadError, StoreFrame, StoreError,
         sendVars, sockVars
<1>7. ASSUME NEW r \in Recvs,
             RecvCall(r) \/ handleRecv(r) \/ RecvDeadline(r) \/ ClientLeave(r)
      PROVE  WireInv'
    BY <1>1, <1>7 DEF RecvCall, handleRecv, RecvDeadline, ClientLeave, RecvLookup, RecvPop,
         RecvClosed, RecvRegister, RecvWake, RecvCancelled, RecvReply, sendVars, sockVars
<1>8. CASE UNCHANGED vars
    BY <1>1, <1>8 DEF vars, sendVars, sockVars
<1> QED BY <1>3, <1>4, <1>5, <1>6, <1>7, <1>8 DEF Next

\* handleSend answers 200 for a message that is on the upstream connection, once
\* and before any close frame, and 404 or 410 for one of which the upstream
\* never gets the end, however many senders and DELETEs race.
THEOREM SentOnTheWire == Spec => []SentIsOnTheWire
<1>1. Init => WireInv
  <2> SUFFICES ASSUME Init PROVE WireInv
    OBVIOUS
  <2>1. \A s \in Senders : spc[s] # "sent" /\ LastsOf(s) = {}
    BY DEF Init, LastsOf
  <2> QED BY <2>1 DEF WireInv
<1>2. SendInv /\ WireInv => SentIsOnTheWire
  <2> SUFFICES ASSUME SendInv, WireInv, NEW s \in Senders
               PROVE  Cardinality(LastsOf(s)) = IF spc[s] = "sent" THEN 1 ELSE 0
    BY DEF SentIsOnTheWire, LastsOf
  <2> QED BY FS_Singleton, FS_EmptySet DEF WireInv
<1> QED BY <1>1, <1>2, WireInvStep, SendInvariant, PTL DEF Spec

------------------------------------------------------------------------------
(* The types: those of the two sides are part of their invariants.         *)

\* What is left is the registry's view and the DELETE handlers.
CloseTypes ==
    /\ listed \in BOOLEAN
    /\ cpc \in [Closers -> {"lookup", "delete", "control", "close", "peek",
                            "closed", "again", "unknown"}]

LEMMA CloseTypesNext ==
    ASSUME CloseTypes, [Next]_vars
    PROVE  CloseTypes'
<1>1. ASSUME UNCHANGED <<listed, cpc>>
      PROVE  CloseTypes'
    BY <1>1 DEF CloseTypes
<1>2. CASE UpstreamSend \/ UpstreamEnd
    BY <1>1, <1>2 DEF UpstreamSend, UpstreamEnd
<1>3. CASE readLoop
    BY <1>1, <1>3 DEF readLoop, ReadMessage, ReadError, StoreFrame, StoreError
<1>4. ASSUME NEW r \in Recvs,
             RecvCall(r) \/ handleRecv(r) \/ RecvDeadline(r) \/ ClientLeave(r)
      PROVE  CloseTypes'
    BY <1>1, <1>4 DEF RecvCall, handleRecv, RecvDeadline, ClientLeave, RecvLookup, RecvPop,
         RecvClosed, RecvRegister, RecvWake, RecvCancelled, RecvReply
<1>5. ASSUME NEW s \in Senders, handleSend(s)
      PROVE  CloseTypes'
    BY <1>1, <1>5 DEF handleSend, SendLookup, SendLock, WriteFails, WriteFirst, WriteLast
<1>6. ASSUME NEW d \in Closers, handleClose(d)
      PROVE  CloseTypes'
    BY <1>6 DEF CloseTypes, handleClose, DeleteLookup, DeleteUnlist, WriteControl,
         CloseSocket, DeleteReport
<1>7. CASE UNCHANGED vars
    BY <1>1, <1>7 DEF vars
<1> QED BY <1>2, <1>3, <1>4, <1>5, <1>6, <1>7 DEF Next

\* Type correctness of the model of one connection, for any constants.
THEOREM TypesKept == Spec => []TypeOK
<1>1. Init => CloseTypes
    BY DEF Init, CloseTypes
<1>2. CloseTypes /\ [Next]_vars => CloseTypes'
    BY CloseTypesNext
<1>3. RecvInv /\ SendInv /\ CloseTypes => TypeOK
    BY DEF RecvInv, InTypes, SendInv, CloseTypes, TypeOK, Pieces
<1> QED BY <1>1, <1>2, <1>3, RecvInvariant, SendInvariant, PTL DEF Spec

------------------------------------------------------------------------------
(* The relay implements FrameStream: the lock, the wake-up channel and the *)
(* read loop are invisible to the callers of recv.                         *)

Mapped == [r \in Recvs |->
             CASE rpc[r] \in {"idle", "lookup"} -> "idle"
               [] rpc[r] \in {"check", "select"} -> "waiting"
               [] OTHER -> answer[r]]

\* A step that changes none of the mapped variables is a stuttering step.
LEMMA StreamStutter ==
    ASSUME UNCHANGED <<queue, closed, popped, frame, rpc, answer>>
    PROVE  UNCHANGED Stream!vars
BY DEF Stream!vars

\* The steps that feed the queue.
LEMMA StreamReadLoop ==
    ASSUME RecvInv, readLoop
    PROVE  [Stream!Next]_(Stream!vars)
<1>1. CASE ReadMessage \/ ReadError
    BY <1>1, StreamStutter DEF ReadMessage, ReadError, connVars, recvVars
<1>2. CASE StoreFrame
  <2>1. UNCHANGED <<closed, popped, frame, rpc, answer>> /\ queue' = Append(queue, hand)
    BY <1>2 DEF StoreFrame, recvVars
  <2>2. ~closed
    BY <1>2 DEF StoreFrame, RecvInv, Control
  <2>3. hand = popped + Len(queue) + 1 /\ hand \in 0..MaxFrames
    BY <1>2 DEF StoreFrame, RecvInv, Control, InOrder, InTypes
  <2>4. popped + Len(queue) \in Nat /\ Len(queue') = Len(queue) + 1 /\ popped \in Nat /\ Len(queue) \in Nat
    BY <2>1, <2>3 DEF RecvInv, InTypes
  <2>5. popped + Len(queue) < MaxFrames
    BY <2>3, <2>4, ConnAssumption
  <2>6. popped' + Len(queue') = popped + Len(queue) + 1
    BY <2>1, <2>4
  <2>7. Stream!Arrive
    BY <2>1, <2>2, <2>3, <2>5, <2>6 DEF Stream!Arrive
  <2> QED BY <2>7 DEF Stream!Next
<1>3. CASE StoreError
  <2>1. Stream!End
    BY <1>3 DEF StoreError, recvVars, Stream!End, RecvInv, Control
  <2> QED BY <2>1 DEF Stream!Next
<1> QED BY <1>1, <1>2, <1>3 DEF readLoop

\* The steps of a recv call, each the abstract step its name suggests.
LEMMA StreamHandler ==
    ASSUME RecvInv, NEW r \in Recvs,
           RecvCall(r) \/ handleRecv(r) \/ RecvDeadline(r) \/ ClientLeave(r)
    PROVE  [Stream!Next]_(Stream!vars)
<1> USE DEF upVars, loopVars, connVars, Respond
<1>1. ASSUME Stream!Ask(r) \/ Stream!Refuse(r) \/ Stream!Take(r) \/ Stream!Tell(r)
             \/ Stream!GiveUp(r) \/ Stream!Return(r)
      PROVE  Stream!Next
    BY <1>1 DEF Stream!Next
<1>2. /\ rpc \in [Recvs -> {"idle", "lookup", "check", "select", "reply"}]
      /\ answer \in [Recvs -> {"none", "frame", "closed", "timeout", "unknown"}]
      /\ frame \in [Recvs -> 0..MaxFrames]
    BY DEF RecvInv, InTypes
<1>3. CASE RecvCall(r) \/ RecvWake(r) \/ ClientLeave(r)
  <2>1. UNCHANGED <<queue, popped, closed, frame>>
    BY <1>3 DEF RecvCall, RecvWake, ClientLeave
  <2>2. Mapped' = Mapped
    BY <1>2, <1>3 DEF RecvCall, RecvWake, ClientLeave, Mapped
  <2> QED BY <2>1, <2>2 DEF Stream!vars, Mapped
<1>4. CASE RecvRegister(r)
  <2>1. UNCHANGED <<queue, popped, closed, frame>>
    BY <1>4 DEF RecvRegister
  <2>2. Mapped' = Mapped
    BY <1>2, <1>4 DEF RecvRegister, Mapped
  <2> QED BY <2>1, <2>2 DEF Stream!vars, Mapped
<1>5. CASE RecvLookup(r) /\ listed
  <2>1. UNCHANGED <<queue, popped, closed, frame>>
    BY <1>5 DEF RecvLookup
  <2>2. Mapped' = [Mapped EXCEPT ![r] = "waiting"] /\ Mapped[r] = "idle"
    BY <1>2, <1>5 DEF RecvLookup, Mapped
  <2>3. Stream!Ask(r)
    BY <2>1, <2>2 DEF Stream!Ask, Mapped
  <2> QED BY <1>1, <2>3
<1>6. CASE RecvLookup(r) /\ ~listed
  <2>1. UNCHANGED <<queue, popped, closed, frame>>
    BY <1>2, <1>6 DEF RecvLookup, RecvInv, Control
  <2>2. Mapped' = [Mapped EXCEPT ![r] = "unknown"] /\ Mapped[r] = "idle"
    BY <1>2, <1>6 DEF RecvLookup, Mapped
  <2>3. Stream!Refuse(r)
    BY <2>1, <2>2 DEF Stream!Refuse, Mapped
  <2> QED BY <1>1, <2>3
<1>7. CASE RecvPop(r)
  <2>1. /\ queue # <<>> /\ queue' = Tail(queue) /\ closed' = closed
        /\ frame' = [frame EXCEPT ![r] = Head(queue)]
    BY <1>7 DEF RecvPop
  <2>2. popped' + Len(queue') = popped + Len(queue)
    BY <1>7 DEF RecvPop, RecvInv, InTypes
  <2>3. Mapped' = [Mapped EXCEPT ![r] = "frame"] /\ Mapped[r] = "waiting"
    BY <1>2, <1>7 DEF RecvPop, Mapped
  <2>4. Stream!Take(r)
    BY <2>1, <2>2, <2>3 DEF Stream!Take, Mapped
  <2> QED BY <1>1, <2>4
<1>8. CASE RecvClosed(r)
  <2>1. UNCHANGED <<queue, popped, closed, frame>> /\ queue = <<>> /\ closed
    BY <1>2, <1>8 DEF RecvClosed, RecvInv, Control
  <2>2. Mapped' = [Mapped EXCEPT ![r] = "closed"] /\ Mapped[r] = "waiting"
    BY <1>2, <1>8 DEF RecvClosed, Mapped
  <2>3. Stream!Tell(r)
    BY <2>1, <2>2 DEF Stream!Tell, Mapped
  <2> QED BY <1>1, <2>3
<1>9. CASE RecvDeadline(r)
  <2>1. UNCHANGED <<queue, popped, closed, frame>>
    BY <1>2, <1>9 DEF RecvDeadline, RecvInv, Control
  <2>2. Mapped' = [Mapped EXCEPT ![r] = "timeout"] /\ Mapped[r] = "waiting"
    BY <1>2, <1>9 DEF RecvDeadline, Mapped
  <2>3. Stream!GiveUp(r)
    BY <2>1, <2>2 DEF Stream!GiveUp, Mapped
  <2> QED BY <1>1, <2>3
<1>10. CASE RecvCancelled(r)
  <2>1. UNCHANGED <<queue, popped, closed, frame>>
    BY <1>10 DEF RecvCancelled
  <2>2. Mapped' = [Mapped EXCEPT ![r] = "idle"] /\ Mapped[r] = "waiting"
    BY <1>2, <1>10 DEF RecvCancelled, Mapped
  <2>3. Stream!GiveUp(r)
    BY <2>1, <2>2 DEF Stream!GiveUp, Mapped
  <2> QED BY <1>1, <2>3
<1>11. CASE RecvReply(r)
  <2>1. UNCHANGED <<queue, popped, closed>> /\ frame' = [frame EXCEPT ![r] = 0]
    BY <1>11 DEF RecvReply
  <2>2. answer[r] \in {"frame", "closed", "timeout", "unknown"}
    BY <1>2, <1>11 DEF RecvReply, RecvInv, Control
  <2>3. Mapped' = [Mapped EXCEPT ![r] = "idle"] /\ Mapped[r] = answer[r]
    BY <1>2, <1>11 DEF RecvReply, Mapped
  <2>4. Stream!Return(r)
    BY <2>1, <2>2, <2>3 DEF Stream!Return, Stream!CallStates, Mapped
  <2> QED BY <1>1, <2>4
<1> QED BY <1>3, <1>4, <1>5, <1>6, <1>7, <1>8, <1>9, <1>10, <1>11 DEF handleRecv

\* The step-by-step part of RecvPromise: to its callers one connection is a
\* FrameStream, whatever readLoop, the senders and DELETE do meanwhile.  The
\* fairness of FrameStream is left to the model checker.
THEOREM ImplementsStream == Spec => Stream!Init /\ [][Stream!Next]_(Stream!vars)
<1>1. Init => Stream!Init
    BY DEF Init, Stream!Init
<1>2. RecvInv /\ [Next]_vars => [Stream!Next]_(Stream!vars)
  <2> SUFFICES ASSUME RecvInv, [Next]_vars
               PROVE  [Stream!Next]_(Stream!vars)
    OBVIOUS
  <2>1. CASE UpstreamSend \/ UpstreamEnd
    BY <2>1, StreamStutter DEF UpstreamSend, UpstreamEnd, connVars, recvVars
  <2>2. CASE readLoop
    BY <2>2, StreamReadLoop
  <2>3. ASSUME NEW r \in Recvs,
               RecvCall(r) \/ handleRecv(r) \/ RecvDeadline(r) \/ ClientLeave(r)
        PROVE  [Stream!Next]_(Stream!vars)
    BY <2>3, StreamHandler
  <2>4. ASSUME NEW s \in Senders, handleSend(s)
        PROVE  [Stream!Next]_(Stream!vars)
    BY <2>4, StreamStutter DEF connVars, recvVars, handleSend, SendLookup, SendLock,
         WriteFails, WriteFirst, WriteLast
  <2>5. ASSUME NEW d \in Closers, handleClose(d)
        PROVE  [Stream!Next]_(Stream!vars)
    BY <2>5, StreamStutter DEF connVars, recvVars, handleClose, DeleteLookup, DeleteUnlist,
         WriteControl, CloseSocket, DeleteReport
  <2>6. CASE UNCHANGED vars
    BY <2>6, StreamStutter DEF vars, connVars, recvVars
  <2> QED BY <2>1, <2>2, <2>3, <2>4, <2>5, <2>6 DEF Next
<1> QED BY <1>1, <1>2, RecvInvariant, PTL DEF Spec

==============================================================================
