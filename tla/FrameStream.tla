----------------------------- MODULE FrameStream -----------------------------
(***************************************************************************)
(* What the wsd relay promises the callers of GET /conn/{id}/recv for one  *)
(* connection, with no read loop, lock or wake-up channel in sight: the    *)
(* upstream's frames form one stream, a call takes the oldest frame that   *)
(* has arrived, it is told of the end only once the stream is drained, and *)
(* a call that could take a frame or be told of the end does not wait for  *)
(* ever.  WsdConn implements it.                                           *)
(***************************************************************************)
EXTENDS Naturals, Sequences

CONSTANTS
    Recvs,      \* the recv calls
    MaxFrames   \* how many frames the upstream sends at most

VARIABLES
    stream,     \* the frames that have arrived and no call has taken
    arrived,    \* how many frames have arrived so far; frame n is the n-th
    ended,      \* the upstream is gone
    call,       \* the state of every call
    taken       \* the frame a call has taken, 0 when it has none

vars == <<stream, arrived, ended, call, taken>>

CallStates == {"idle", "waiting", "frame", "closed", "timeout", "unknown"}

Init ==
    /\ stream = <<>>
    /\ arrived = 0
    /\ ended = FALSE
    /\ call = [r \in Recvs |-> "idle"]
    /\ taken = [r \in Recvs |-> 0]

Arrive ==
    /\ ~ended
    /\ arrived < MaxFrames
    /\ arrived' = arrived + 1
    /\ stream' = Append(stream, arrived + 1)
    /\ UNCHANGED <<ended, call, taken>>

End ==
    /\ ~ended
    /\ ended' = TRUE
    /\ UNCHANGED <<stream, arrived, call, taken>>

Ask(r) ==
    /\ call[r] = "idle"
    /\ call' = [call EXCEPT ![r] = "waiting"]
    /\ UNCHANGED <<stream, arrived, ended, taken>>

\* The connection is no longer listed under its id.
Refuse(r) ==
    /\ call[r] = "idle"
    /\ call' = [call EXCEPT ![r] = "unknown"]
    /\ UNCHANGED <<stream, arrived, ended, taken>>

Take(r) ==
    /\ call[r] = "waiting"
    /\ stream # <<>>
    /\ call' = [call EXCEPT ![r] = "frame"]
    /\ taken' = [taken EXCEPT ![r] = Head(stream)]
    /\ stream' = Tail(stream)
    /\ UNCHANGED <<arrived, ended>>

Tell(r) ==
    /\ call[r] = "waiting"
    /\ stream = <<>>
    /\ ended
    /\ call' = [call EXCEPT ![r] = "closed"]
    /\ UNCHANGED <<stream, arrived, ended, taken>>

\* The call's deadline passes, or its client hangs up.
GiveUp(r) ==
    /\ call[r] = "waiting"
    /\ \E s \in {"timeout", "idle"} : call' = [call EXCEPT ![r] = s]
    /\ UNCHANGED <<stream, arrived, ended, taken>>

Return(r) ==
    /\ call[r] \in CallStates \ {"idle", "waiting"}
    /\ call' = [call EXCEPT ![r] = "idle"]
    /\ taken' = [taken EXCEPT ![r] = 0]
    /\ UNCHANGED <<stream, arrived, ended>>

Next ==
    \/ Arrive
    \/ End
    \/ \E r \in Recvs : Ask(r) \/ Refuse(r) \/ Take(r) \/ Tell(r) \/ GiveUp(r) \/ Return(r)

Spec ==
    /\ Init
    /\ [][Next]_vars
    /\ \A r \in Recvs : WF_vars(Take(r) \/ Tell(r)) /\ WF_vars(Return(r))

==============================================================================
