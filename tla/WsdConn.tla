------------------------------- MODULE WsdConn -------------------------------
(***************************************************************************)
(* One upstream WebSocket held by the wsd daemon (cmd/wsd/main.go), from   *)
(* the moment handleDial has listed it under an id: the upstream peer, the *)
(* goroutine of readLoop, and the HTTP handlers that run concurrently on   *)
(* the connection (handleRecv, handleSend, handleClose).                   *)
(*                                                                         *)
(* Every critical section of c.mu and d.mu is one action, since nothing    *)
(* blocks inside it; whatever the code does between two sections (the      *)
(* select of handleRecv, the response, WriteMessage) is an action of its   *)
(* own.  A frame is its number in the order the upstream sent it; the body *)
(* of a send is its length.  The wake-up channel c.waiters is the set of   *)
(* the recv calls that hold it: closing it moves them to `woken`.          *)
(***************************************************************************)
EXTENDS Naturals, Sequences, FiniteSets

CONSTANTS
    Recvs,      \* the clients that call recv, each one call at a time
    Senders,    \* the send requests
    Closers,    \* the DELETE requests
    Sizes,      \* the lengths of a send's body
    BodyLimit,  \* the 8 MiB limit of handleSend, on the scale of Sizes
    MaxFrames   \* bound: how many frames the upstream sends

ASSUME ConnAssumption ==
    /\ MaxFrames \in Nat
    /\ BodyLimit \in Nat
    /\ Sizes \subseteq Nat

VARIABLES
    wire,       \* frames on their way, not yet returned by ReadMessage
    emitted,    \* how many frames the upstream has sent
    upstream,   \* "open", or "ended" when the peer closed or broke the connection
    loop,       \* readLoop: in ReadMessage, holding a frame, holding an error, returned
    hand,       \* the frame readLoop holds, 0 for none
    queue,      \* c.queue
    closed,     \* c.closed
    waiters,    \* the recv calls holding the channel in c.waiters
    woken,      \* the recv calls whose channel has been closed
    popped,     \* history: how many frames have been taken from the queue
    listed,     \* the id is in d.conns
    rpc,        \* where each recv handler is
    answer,     \* the response a recv handler is about to write
    frame,      \* the frame in that response, 0 for none
    present,    \* the client of the recv call is still there
    got,        \* history: frames a client received
    lost,       \* history: frames written to a client that was gone
    spc,        \* where each send handler is
    body,       \* the length of the body of each send
    writer,     \* the holders of c.writeMu
    out,        \* what the upstream has been sent
    closeSent,  \* a close frame has been written
    shut,       \* conn.Close has run
    cpc         \* where each DELETE handler is

upVars   == <<wire, emitted, upstream>>
loopVars == <<loop, hand>>
connVars == <<queue, closed, waiters, woken, popped>>
recvVars == <<rpc, answer, frame, present, got, lost>>
sendVars == <<spc, body, writer>>
sockVars == <<out, closeSent, shut>>
vars == <<upVars, loopVars, connVars, recvVars, sendVars, sockVars, listed, cpc>>

Frames == 1..MaxFrames

TypeOK ==
    /\ wire \in Seq(Frames)
    /\ emitted \in 0..MaxFrames
    /\ upstream \in {"open", "ended"}
    /\ loop \in {"reading", "holding", "failing", "done"}
    /\ hand \in 0..MaxFrames
    /\ queue \in Seq(Frames)
    /\ closed \in BOOLEAN
    /\ waiters \subseteq Recvs
    /\ woken \subseteq Recvs
    /\ popped \in 0..MaxFrames
    /\ listed \in BOOLEAN
    /\ rpc \in [Recvs -> {"idle", "lookup", "check", "select", "reply"}]
    /\ answer \in [Recvs -> {"none", "frame", "closed", "timeout", "unknown"}]
    /\ frame \in [Recvs -> 0..MaxFrames]
    /\ present \in [Recvs -> BOOLEAN]
    /\ got \subseteq Frames
    /\ lost \subseteq Frames
    /\ spc \in [Senders -> {"lookup", "lock", "first", "last", "sent", "gone", "unknown"}]
    /\ body \in [Senders -> Sizes]
    /\ writer \subseteq Senders
    /\ out \in Seq([by : Senders, part : {"first", "last"}, size : Nat]
                     \cup [part : {"close"}])
    /\ closeSent \in BOOLEAN
    /\ shut \in BOOLEAN
    /\ cpc \in [Closers -> {"lookup", "delete", "control", "close", "peek",
                            "closed", "again", "unknown"}]

Init ==
    /\ wire = <<>> /\ emitted = 0 /\ upstream = "open"
    /\ loop = "reading" /\ hand = 0
    /\ queue = <<>> /\ closed = FALSE /\ waiters = {} /\ woken = {} /\ popped = 0
    /\ listed = TRUE
    /\ rpc = [r \in Recvs |-> "idle"]
    /\ answer = [r \in Recvs |-> "none"]
    /\ frame = [r \in Recvs |-> 0]
    /\ present = [r \in Recvs |-> TRUE]
    /\ got = {} /\ lost = {}
    /\ spc = [s \in Senders |-> "lookup"]
    /\ body \in [Senders -> Sizes]
    /\ writer = {}
    /\ out = <<>> /\ closeSent = FALSE /\ shut = FALSE
    /\ cpc = [d \in Closers |-> "lookup"]

------------------------------------------------------------------------------
(* The upstream peer.                                                      *)

UpstreamSend ==
    /\ upstream = "open"
    /\ emitted < MaxFrames
    /\ emitted' = emitted + 1
    /\ wire' = Append(wire, emitted + 1)
    /\ UNCHANGED <<upstream, loopVars, connVars, recvVars, sendVars, sockVars, listed, cpc>>

\* The peer closes, or the connection breaks and frames still on their way
\* are lost with it.
UpstreamEnd ==
    /\ upstream = "open"
    /\ upstream' = "ended"
    /\ \E n \in 0..Len(wire) : wire' = SubSeq(wire, 1, n)
    /\ UNCHANGED <<emitted, loopVars, connVars, recvVars, sendVars, sockVars, listed, cpc>>

------------------------------------------------------------------------------
(* readLoop.                                                               *)

\* Mutated form of notify: the field is reset but the channel never closed.
NotifyForgetsClose ==
    /\ waiters' = {}
    /\ woken' = woken

\* Closes the channel in c.waiters, which wakes every call that holds it.
notify ==
    /\ waiters' = {}
    /\ woken' = woken \cup waiters

ReadMessage ==
    /\ loop = "reading"
    /\ wire # <<>>
    /\ hand' = Head(wire)
    /\ wire' = Tail(wire)
    /\ loop' = "holding"
    /\ UNCHANGED <<emitted, upstream, connVars, recvVars, sendVars, sockVars, listed, cpc>>

\* ReadMessage fails at the end of the upstream's data, or because the
\* connection has been closed here, whatever is still on its way.
ReadError ==
    /\ loop = "reading"
    /\ shut \/ (upstream = "ended" /\ wire = <<>>)
    /\ loop' = "failing"
    /\ UNCHANGED <<hand, upVars, connVars, recvVars, sendVars, sockVars, listed, cpc>>

\* Mutated form of StoreFrame: the newest frame is put in front.
StoreFrameInFront ==
    /\ loop = "holding"
    /\ queue' = <<hand>> \o queue
    /\ hand' = 0
    /\ loop' = "reading"
    /\ notify
    /\ UNCHANGED <<closed, popped, upVars, recvVars, sendVars, sockVars, listed, cpc>>

StoreFrame ==
    /\ loop = "holding"
    /\ queue' = Append(queue, hand)
    /\ hand' = 0
    /\ loop' = "reading"
    /\ notify
    /\ UNCHANGED <<closed, popped, upVars, recvVars, sendVars, sockVars, listed, cpc>>

StoreError ==
    /\ loop = "failing"
    /\ closed' = TRUE
    /\ loop' = "done"
    /\ notify
    /\ UNCHANGED <<hand, queue, popped, upVars, recvVars, sendVars, sockVars, listed, cpc>>

------------------------------------------------------------------------------
(* handleRecv.                                                             *)

RecvCall(r) ==
    /\ rpc[r] = "idle"
    /\ rpc' = [rpc EXCEPT ![r] = "lookup"]
    /\ present' = [present EXCEPT ![r] = TRUE]
    /\ UNCHANGED <<answer, frame, got, lost, upVars, loopVars, connVars, sendVars,
                   sockVars, listed, cpc>>

\* The handler is done with its checks and will write response a.
Respond(r, a, f) ==
    /\ rpc' = [rpc EXCEPT ![r] = "reply"]
    /\ answer' = [answer EXCEPT ![r] = a]
    /\ frame' = [frame EXCEPT ![r] = f]
    /\ UNCHANGED <<present, got, lost>>

\* connFromPath.
RecvLookup(r) ==
    /\ rpc[r] = "lookup"
    /\ IF listed
         THEN /\ rpc' = [rpc EXCEPT ![r] = "check"]
              /\ UNCHANGED <<answer, frame, present, got, lost>>
         ELSE Respond(r, "unknown", 0)
    /\ UNCHANGED <<upVars, loopVars, connVars, sendVars, sockVars, listed, cpc>>

\* Mutated form of RecvPop: the head is read but stays in the queue.
RecvPopKeepsHead(r) ==
    /\ rpc[r] = "check"
    /\ queue # <<>>
    /\ popped' = popped + 1
    /\ queue' = queue
    /\ Respond(r, "frame", Head(queue))
    /\ UNCHANGED <<closed, waiters, woken, upVars, loopVars, sendVars, sockVars, listed, cpc>>

\* Under c.mu: a queued frame is taken, whether or not the connection ended.
RecvPop(r) ==
    /\ rpc[r] = "check"
    /\ queue # <<>>
    /\ queue' = Tail(queue)
    /\ popped' = popped + 1
    /\ Respond(r, "frame", Head(queue))
    /\ UNCHANGED <<closed, waiters, woken, upVars, loopVars, sendVars, sockVars, listed, cpc>>

\* Mutated form of RecvClosed: closed is looked at before the queue.
RecvClosedFirst(r) ==
    /\ rpc[r] = "check"
    /\ closed
    /\ Respond(r, "closed", 0)
    /\ UNCHANGED <<upVars, loopVars, connVars, sendVars, sockVars, listed, cpc>>

\* Under c.mu: the queue is empty and readLoop has returned.
RecvClosed(r) ==
    /\ rpc[r] = "check"
    /\ queue = <<>>
    /\ closed
    /\ Respond(r, "closed", 0)
    /\ UNCHANGED <<upVars, loopVars, connVars, sendVars, sockVars, listed, cpc>>

\* Mutated form of RecvRegister: the call goes to select without the channel.
RecvRegisterNothing(r) ==
    /\ rpc[r] = "check"
    /\ queue = <<>>
    /\ ~closed
    /\ woken' = woken \ {r}
    /\ rpc' = [rpc EXCEPT ![r] = "select"]
    /\ UNCHANGED <<queue, closed, waiters, popped, answer, frame, present, got, lost,
                   upVars, loopVars, sendVars, sockVars, listed, cpc>>

\* Under c.mu: nothing to answer, so the call takes the wake-up channel.
RecvRegister(r) ==
    /\ rpc[r] = "check"
    /\ queue = <<>>
    /\ ~closed
    /\ waiters' = waiters \cup {r}
    /\ woken' = woken \ {r}
    /\ rpc' = [rpc EXCEPT ![r] = "select"]
    /\ UNCHANGED <<queue, closed, popped, answer, frame, present, got, lost,
                   upVars, loopVars, sendVars, sockVars, listed, cpc>>

\* select takes <-wait.
RecvWake(r) ==
    /\ rpc[r] = "select"
    /\ r \in woken
    /\ rpc' = [rpc EXCEPT ![r] = "check"]
    /\ UNCHANGED <<answer, frame, present, got, lost, upVars, loopVars, connVars,
                   sendVars, sockVars, listed, cpc>>

\* select takes <-deadline; when the channel is closed too, either may win.
RecvDeadline(r) ==
    /\ rpc[r] = "select"
    /\ Respond(r, "timeout", 0)
    /\ UNCHANGED <<upVars, loopVars, connVars, sendVars, sockVars, listed, cpc>>

\* The client's side of the call goes away, which cancels r.Context().
ClientLeave(r) ==
    /\ rpc[r] # "idle"
    /\ present[r]
    /\ present' = [present EXCEPT ![r] = FALSE]
    /\ UNCHANGED <<rpc, answer, frame, got, lost, upVars, loopVars, connVars,
                   sendVars, sockVars, listed, cpc>>

\* select takes <-r.Context().Done().
RecvCancelled(r) ==
    /\ rpc[r] = "select"
    /\ ~present[r]
    /\ rpc' = [rpc EXCEPT ![r] = "idle"]
    /\ UNCHANGED <<answer, frame, present, got, lost, upVars, loopVars, connVars,
                   sendVars, sockVars, listed, cpc>>

\* writeJSON, whose error the handler discards.
RecvReply(r) ==
    /\ rpc[r] = "reply"
    /\ rpc' = [rpc EXCEPT ![r] = "idle"]
    /\ IF frame[r] = 0
         THEN UNCHANGED <<got, lost>>
         ELSE IF present[r]
           THEN got' = got \cup {frame[r]} /\ lost' = lost
           ELSE lost' = lost \cup {frame[r]} /\ got' = got
    /\ answer' = [answer EXCEPT ![r] = "none"]
    /\ frame' = [frame EXCEPT ![r] = 0]
    /\ UNCHANGED <<present, upVars, loopVars, connVars, sendVars, sockVars, listed, cpc>>

------------------------------------------------------------------------------
(* handleSend.                                                             *)

SendLookup(s) ==
    /\ spc[s] = "lookup"
    /\ spc' = [spc EXCEPT ![s] = IF listed THEN "lock" ELSE "unknown"]
    /\ UNCHANGED <<body, writer, upVars, loopVars, connVars, recvVars, sockVars, listed, cpc>>

\* Mutated form of SendLock: no writeMu.
SendLockFree(s) ==
    /\ spc[s] = "lock"
    /\ writer' = writer \cup {s}
    /\ spc' = [spc EXCEPT ![s] = "first"]
    /\ UNCHANGED <<body, upVars, loopVars, connVars, recvVars, sockVars, listed, cpc>>

SendLock(s) ==
    /\ spc[s] = "lock"
    /\ writer = {}
    /\ writer' = {s}
    /\ spc' = [spc EXCEPT ![s] = "first"]
    /\ UNCHANGED <<body, upVars, loopVars, connVars, recvVars, sockVars, listed, cpc>>

\* What handleSend has read of the body.
SentLength(s) == IF body[s] > BodyLimit THEN BodyLimit ELSE body[s]

\* Mutated form of WriteFails: the error of WriteMessage is not looked at.
WriteFailsSilently(s) ==
    /\ spc[s] \in {"first", "last"}
    /\ closeSent \/ shut \/ upstream = "ended"
    /\ writer' = writer \ {s}
    /\ spc' = [spc EXCEPT ![s] = "sent"]
    /\ UNCHANGED <<body, upVars, loopVars, connVars, recvVars, sockVars, listed, cpc>>

\* WriteMessage sends a message as fragments, here two, and fails once a
\* close frame has been written or the connection has been closed.
WriteFails(s) ==
    /\ spc[s] \in {"first", "last"}
    /\ closeSent \/ shut \/ upstream = "ended"
    /\ writer' = writer \ {s}
    /\ spc' = [spc EXCEPT ![s] = "gone"]
    /\ UNCHANGED <<body, upVars, loopVars, connVars, recvVars, sockVars, listed, cpc>>

WriteFirst(s) ==
    /\ spc[s] = "first"
    /\ ~closeSent /\ ~shut
    /\ out' = Append(out, [by |-> s, part |-> "first", size |-> SentLength(s)])
    /\ spc' = [spc EXCEPT ![s] = "last"]
    /\ UNCHANGED <<body, writer, closeSent, shut, upVars, loopVars, connVars, recvVars,
                   listed, cpc>>

WriteLast(s) ==
    /\ spc[s] = "last"
    /\ ~closeSent /\ ~shut
    /\ out' = Append(out, [by |-> s, part |-> "last", size |-> SentLength(s)])
    /\ writer' = writer \ {s}
    /\ spc' = [spc EXCEPT ![s] = "sent"]
    /\ UNCHANGED <<body, closeSent, shut, upVars, loopVars, connVars, recvVars, listed, cpc>>

------------------------------------------------------------------------------
(* handleClose.                                                            *)

DeleteLookup(d) ==
    /\ cpc[d] = "lookup"
    /\ cpc' = [cpc EXCEPT ![d] = IF listed THEN "delete" ELSE "unknown"]
    /\ UNCHANGED <<upVars, loopVars, connVars, recvVars, sendVars, sockVars, listed>>

DeleteUnlist(d) ==
    /\ cpc[d] = "delete"
    /\ listed' = FALSE
    /\ cpc' = [cpc EXCEPT ![d] = "control"]
    /\ UNCHANGED <<upVars, loopVars, connVars, recvVars, sendVars, sockVars>>

\* WriteControl does not take writeMu; it writes nothing after a close frame.
WriteControl(d) ==
    /\ cpc[d] = "control"
    /\ cpc' = [cpc EXCEPT ![d] = "close"]
    /\ IF closeSent \/ shut
         THEN UNCHANGED <<out, closeSent>>
         ELSE /\ out' = Append(out, [part |-> "close"])
              /\ closeSent' = TRUE
    /\ UNCHANGED <<shut, upVars, loopVars, connVars, recvVars, sendVars, listed>>

\* Mutated form of CloseSocket: the connection is left open.
CloseSocketLeavesOpen(d) ==
    /\ cpc[d] = "close"
    /\ cpc' = [cpc EXCEPT ![d] = "peek"]
    /\ UNCHANGED <<sockVars, upVars, loopVars, connVars, recvVars, sendVars, listed>>

CloseSocket(d) ==
    /\ cpc[d] = "close"
    /\ shut' = TRUE
    /\ cpc' = [cpc EXCEPT ![d] = "peek"]
    /\ UNCHANGED <<out, closeSent, upVars, loopVars, connVars, recvVars, sendVars, listed>>

\* The response's already_closed is read after the connection was closed.
DeleteReport(d) ==
    /\ cpc[d] = "peek"
    /\ cpc' = [cpc EXCEPT ![d] = IF closed THEN "again" ELSE "closed"]
    /\ UNCHANGED <<upVars, loopVars, connVars, recvVars, sendVars, sockVars, listed>>

------------------------------------------------------------------------------
readLoop == ReadMessage \/ ReadError \/ StoreFrame \/ StoreError

\* The steps a recv handler takes without the outside world's help.
handleRecv(r) ==
    \/ RecvLookup(r) \/ RecvPop(r) \/ RecvClosed(r) \/ RecvRegister(r)
    \/ RecvWake(r) \/ RecvCancelled(r) \/ RecvReply(r)

handleSend(s) ==
    SendLookup(s) \/ SendLock(s) \/ WriteFails(s) \/ WriteFirst(s) \/ WriteLast(s)

handleClose(d) ==
    DeleteLookup(d) \/ DeleteUnlist(d) \/ WriteControl(d) \/ CloseSocket(d) \/ DeleteReport(d)

Next ==
    \/ UpstreamSend \/ UpstreamEnd
    \/ readLoop
    \/ \E r \in Recvs : RecvCall(r) \/ handleRecv(r) \/ RecvDeadline(r) \/ ClientLeave(r)
    \/ \E s \in Senders : handleSend(s)
    \/ \E d \in Closers : handleClose(d)

Spec == Init /\ [][Next]_vars

\* The Go scheduler runs every goroutine that can run.  Nothing forces a
\* client to call, to leave, or a deadline to pass.
Fairness ==
    /\ WF_vars(readLoop)
    /\ \A r \in Recvs : WF_vars(handleRecv(r))
    /\ \A s \in Senders : WF_vars(handleSend(s))
    /\ \A d \in Closers : WF_vars(handleClose(d))

FairSpec == Spec /\ Fairness

------------------------------------------------------------------------------
(* Safety.                                                                 *)

\* Popped frames that no response has carried to a client yet.
InReply == {frame[r] : r \in {q \in Recvs : frame[q] # 0}}

\* Every frame taken from the queue is in exactly one place: with a client,
\* in the response of exactly one call, or written to a client that had gone.
\* Two calls never answer with the same frame, and no popped frame is missing.
EachFrameOnce ==
    /\ got \cup lost \cup InReply = 1..popped
    /\ got \cap lost = {}
    /\ InReply \cap (got \cup lost) = {}
    /\ \A q, r \in Recvs : q # r /\ frame[q] # 0 => frame[q] # frame[r]

\* The queue, then what readLoop holds, then the wire are the frames not yet
\* taken, in the order the upstream sent them, with none missing: a recv takes
\* the frame that follows the last one taken.
Held == IF hand = 0 THEN 0 ELSE 1

InOrder ==
    /\ \A i \in 1..Len(queue) : queue[i] = popped + i
    /\ hand # 0 => hand = popped + Len(queue) + 1
    /\ \A i \in 1..Len(wire) : wire[i] = popped + Len(queue) + Held + i

\* A call asleep in select on a channel nobody has closed has nothing to
\* miss: no frame is queued, the connection is not closed, and the channel is
\* the one the next notify closes.
NoLostWakeup ==
    \A r \in Recvs : rpc[r] = "select" /\ r \notin woken =>
        queue = <<>> /\ ~closed /\ r \in waiters

\* A caller is told that the connection closed only after every frame
\* readLoop has read was taken by some call.
ClosedAfterDrain ==
    \A r \in Recvs : answer[r] = "closed" => closed /\ queue = <<>> /\ hand = 0

\* Fragments of two messages are never interleaved on the upstream
\* connection, and nothing follows a close frame.
OutWellFormed ==
    \A i \in 1..Len(out) :
        /\ out[i].part = "last" =>
              i > 1 /\ out[i-1].part = "first" /\ out[i-1].by = out[i].by
        /\ out[i].part = "close" => i = Len(out)

\* A send answered 200 put its last fragment on the connection, exactly once,
\* before any close frame; one answered 404 or 410 never did.
SentIsOnTheWire ==
    \A s \in Senders :
        Cardinality({i \in 1..Len(out) : out[i].part = "last" /\ out[i].by = s})
            = IF spc[s] = "sent" THEN 1 ELSE 0

------------------------------------------------------------------------------
(* Liveness.                                                               *)

\* Once a DELETE has answered, no recv call stays asleep until its deadline:
\* readLoop fails on the closed connection, and its notify wakes the call.
Deleted == \E d \in Closers : cpc[d] \in {"closed", "again"}

DeleteWakesRecv ==
    \A r \in Recvs : (Deleted /\ rpc[r] = "select") ~> rpc[r] \in {"reply", "idle"}

\* The promise of the recv endpoint, as an abstract specification.
Stream == INSTANCE FrameStream WITH
    stream <- queue,
    arrived <- popped + Len(queue),
    ended <- closed,
    taken <- frame,
    call <- [r \in Recvs |->
               CASE rpc[r] \in {"idle", "lookup"} -> "idle"
                 [] rpc[r] \in {"check", "select"} -> "waiting"
                 [] OTHER -> answer[r]]

RecvPromise == Stream!Spec

------------------------------------------------------------------------------
(* What the daemon's own documentation says, which the code does not do.   *)

\* cmd/wsd/main.go:37-38, "nothing is dropped": a frame that reached the
\* daemon reaches a caller.
NothingDropped == lost = {}

\* cmd/wsd/main.go:31, "the raw request body is one message payload": the
\* message the upstream gets is as long as the body of the request.
WholeBody ==
    \A i \in 1..Len(out) : out[i].part = "last" => out[i].size = body[out[i].by]

==============================================================================
