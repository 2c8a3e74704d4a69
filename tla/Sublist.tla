------------------------------- MODULE Sublist -------------------------------
(***************************************************************************)
(* What a loop leaves that appends the elements it keeps: the places that  *)
(* are kept are collected first, so that of two lists of one length that   *)
(* keep the same places nothing else needs to be known.                    *)
(***************************************************************************)
EXTENDS Integers, Sequences

\* The members of S among the places 1..n, in order.
Places(n, S) ==
    LET from[i \in 0..n] ==
            IF i = 0 THEN <<>>
            ELSE IF i \in S THEN Append(from[i - 1], i) ELSE from[i - 1]
    IN from[n]

Sublist(s, S) == LET places == Places(Len(s), S) IN [k \in DOMAIN places |-> s[places[k]]]

==============================================================================
