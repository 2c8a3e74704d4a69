----------------------------- MODULE MCWsdSession -----------------------------
(* WsdSession on small instances: only the handle Busy makes more than one     *)
(* call, and only the first connection of a daemon is kept for 24 hours.       *)
EXTENDS WsdSession

CONSTANT Busy

MCNext ==
    /\ Next
    /\ \A h \in Handles \ {Busy} : calls'[h] <= 1
    /\ \A i \in DOMAIN conns' : conns'[i].old => i = 1

MCFairSpec ==
    /\ Init /\ [][MCNext]_vars
    /\ WF_vars(Boot)
    /\ \A h \in Handles : WF_vars(step(h))

==============================================================================
