------------------------------ MODULE MCWsdConn ------------------------------
(***************************************************************************)
(* WsdConn on small instances.  The receiving and the sending half of a    *)
(* connection meet only in its end, which both scenarios contain: in       *)
(* "polling" frames arrive while several clients call recv, and nobody     *)
(* sends; in "sending" several clients send, and nobody polls.             *)
(***************************************************************************)
EXTENDS WsdConn

CONSTANT Leavers

VARIABLE scenario

mcVars == <<vars, scenario>>

MCInit ==
    /\ Init
    /\ scenario \in {"polling", "sending"}

\* Of the polling clients, all but those of Leavers stay for their answers.
Polling ==
    /\ scenario = "polling" /\ UNCHANGED <<scenario, sendVars>>
    /\ \A r \in Recvs \ Leavers : present'[r]
Sending == scenario = "sending" /\ UNCHANGED <<scenario, emitted, recvVars>>

MCNext == Next /\ (Polling \/ Sending)

MCFairSpec ==
    /\ MCInit /\ [][MCNext]_mcVars
    /\ WF_mcVars(readLoop /\ UNCHANGED scenario)
    /\ \A r \in Recvs : WF_mcVars(handleRecv(r) /\ Polling)
    /\ \A s \in Senders : WF_mcVars(handleSend(s) /\ Sending)
    /\ \A d \in Closers : WF_mcVars(handleClose(d) /\ UNCHANGED scenario)

==============================================================================
