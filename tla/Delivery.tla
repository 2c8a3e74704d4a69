------------------------------- MODULE Delivery -------------------------------
(***************************************************************************)
(* What a client of a daemon promises of a call, with no probe, spawn,     *)
(* retry or restart in sight: it is carried out as often as it was allowed *)
(* to when it began, counted over the whole life of the call and of what   *)
(* it left behind, and its caller is told that it went well only if it was *)
(* carried out.  A daemon may still carry out a call its caller has given  *)
(* up.  WsdSession implements it with one time allowed; JsClient with two, *)
(* for the calls that supervise their daemon.                              *)
(***************************************************************************)
EXTENDS Naturals

CONSTANTS
    Calls,     \* the calls there can be
    Limit      \* how often a call may be carried out at most

VARIABLES
    status,    \* of each call, as its caller sees it
    allowed,   \* how often it may be carried out
    done       \* how often it has been

vars == <<status, allowed, done>>

Init ==
    /\ status = [c \in Calls |-> "idle"]
    /\ allowed \in [Calls -> 1..Limit]
    /\ done = [c \in Calls |-> 0]

Ask(c) ==
    /\ status[c] = "idle"
    /\ status' = [status EXCEPT ![c] = "asked"]
    /\ \E n \in 1..Limit : allowed' = [allowed EXCEPT ![c] = n]
    /\ UNCHANGED done

\* Whether its caller still waits or not.
CarryOut(c) ==
    /\ status[c] # "idle"
    /\ done[c] < allowed[c]
    /\ done' = [done EXCEPT ![c] = @ + 1]
    /\ UNCHANGED <<status, allowed>>

Succeed(c) ==
    /\ status[c] = "asked"
    /\ done[c] > 0
    /\ status' = [status EXCEPT ![c] = "ok"]
    /\ UNCHANGED <<allowed, done>>

\* Several calls may fail at once, on what they share.
Fail(C) ==
    /\ \A c \in C : status[c] = "asked"
    /\ status' = [c \in Calls |-> IF c \in C THEN "failed" ELSE status[c]]
    /\ UNCHANGED <<allowed, done>>

Next ==
    \/ \E c \in Calls : Ask(c) \/ CarryOut(c) \/ Succeed(c)
    \/ \E C \in SUBSET Calls : Fail(C)

Spec == Init /\ [][Next]_vars

==============================================================================
