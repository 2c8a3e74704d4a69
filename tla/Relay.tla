-------------------------------- MODULE Relay --------------------------------
(***************************************************************************)
(* The end of handle in cmd/tproxyfwd and cmd/hello-tap: two goroutines    *)
(* copy between a client and an upstream, and the handler returns, closing *)
(* both sockets, when the first of them is done: at the end of its source, *)
(* or with an error of either socket.                                      *)
(*                                                                         *)
(* What a peer sends is a sequence of chunks, of which only the position   *)
(* counts; wrote[d] lists the positions that reached the other side.       *)
(***************************************************************************)
EXTENDS Naturals, Sequences

CONSTANTS
    MaxSend,   \* bound: chunks the source of each direction sends
    HalfClose  \* the copier half-closes its destination (cmd/tproxyfwd)

Directions == {"up", "down"}   \* client to upstream, upstream to client

VARIABLES
    sent,    \* chunks the source of a direction has sent
    ended,   \* the source has ended its stream
    taken,   \* chunks read from the source's socket
    buf,     \* the chunk io.Copy holds between its read and its write, or 0
    wrote,   \* history: the chunks written to the destination's socket
    room,    \* the next write to the destination does not wait for it to read
    fin,     \* the destination has been told the stream has ended
    copier,  \* the goroutine of a direction
    over     \* the handler has returned, the sockets are closed

relayVars == <<sent, ended, taken, buf, wrote, room, fin, copier, over>>

RelayTypeOK ==
    /\ sent \in [Directions -> Nat]
    /\ ended \in [Directions -> BOOLEAN]
    /\ taken \in [Directions -> Nat]
    /\ buf \in [Directions -> Nat]
    /\ wrote \in [Directions -> Seq(Nat)]
    /\ \A d \in Directions : taken[d] <= sent[d] /\ sent[d] <= MaxSend[d]
    /\ room \in [Directions -> BOOLEAN]
    /\ fin \in [Directions -> BOOLEAN]
    /\ copier \in [Directions -> {"off", "on", "done", "failed"}]
    /\ over \in BOOLEAN

RelayInit ==
    /\ sent = [d \in Directions |-> 0]
    /\ ended = [d \in Directions |-> FALSE]
    /\ taken = [d \in Directions |-> 0]
    /\ buf = [d \in Directions |-> 0]
    /\ wrote = [d \in Directions |-> <<>>]
    /\ room \in [Directions -> BOOLEAN]
    /\ fin = [d \in Directions |-> FALSE]
    /\ copier = [d \in Directions |-> "off"]
    /\ over = FALSE

------------------------------------------------------------------------------
(* The peers.                                                              *)

PeerSends(d) ==
    /\ ~ended[d] /\ ~over
    /\ sent[d] < MaxSend[d]
    /\ sent' = [sent EXCEPT ![d] = @ + 1]
    /\ UNCHANGED <<ended, taken, buf, wrote, room, fin, copier, over>>

\* The peer shuts its sending side down, and can still receive.
PeerEnds(d) ==
    /\ ~ended[d] /\ ~over
    /\ ended' = [ended EXCEPT ![d] = TRUE]
    /\ UNCHANGED <<sent, taken, buf, wrote, room, fin, copier, over>>

\* The destination reads, and there is room for a write.
PeerReads(d) ==
    /\ ~room[d] /\ ~over
    /\ room' = [room EXCEPT ![d] = TRUE]
    /\ UNCHANGED <<sent, ended, taken, buf, wrote, fin, copier, over>>

\* A write of the program to the destination of d: it waits until there is
\* room, and what it writes may take the last of it.
Fits(d) == room[d] /\ \E more \in BOOLEAN : room' = [room EXCEPT ![d] = more]

------------------------------------------------------------------------------
(* The copiers.                                                            *)

StartCopiers == copier' = [d \in Directions |-> "on"]

CopyRead(d) ==
    /\ copier[d] = "on" /\ ~over
    /\ buf[d] = 0
    /\ taken[d] < sent[d]
    /\ taken' = [taken EXCEPT ![d] = @ + 1]
    /\ buf' = [buf EXCEPT ![d] = taken[d] + 1]
    /\ UNCHANGED <<sent, ended, wrote, room, fin, copier, over>>

CopyWrite(d) ==
    /\ copier[d] = "on" /\ ~over
    /\ buf[d] # 0
    /\ Fits(d)
    /\ wrote' = [wrote EXCEPT ![d] = Append(@, buf[d])]
    /\ buf' = [buf EXCEPT ![d] = 0]
    /\ UNCHANGED <<sent, ended, taken, fin, copier, over>>

\* Mutated form of CopyEnds: the end of the stream overtakes the last write.
CopyEndsEarly(d) ==
    /\ copier[d] = "on" /\ ~over
    /\ taken[d] = sent[d] /\ ended[d]
    /\ copier' = [copier EXCEPT ![d] = "done"]
    /\ fin' = [fin EXCEPT ![d] = HalfClose]
    /\ UNCHANGED <<sent, ended, taken, buf, wrote, room, over>>

\* io.Copy meets the end of its source.
CopyEnds(d) ==
    /\ copier[d] = "on" /\ ~over
    /\ buf[d] = 0
    /\ taken[d] = sent[d] /\ ended[d]
    /\ copier' = [copier EXCEPT ![d] = "done"]
    /\ fin' = [fin EXCEPT ![d] = HalfClose]
    /\ UNCHANGED <<sent, ended, taken, buf, wrote, room, over>>

\* io.Copy returns an error of its source's or of its destination's socket:
\* one that was reset, or hello-tap's deadline on the client's.  What it holds
\* is lost, and the destination is half-closed all the same.
CopyFails(d) ==
    /\ copier[d] = "on" /\ ~over
    /\ copier' = [copier EXCEPT ![d] = "failed"]
    /\ fin' = [fin EXCEPT ![d] = HalfClose]
    /\ UNCHANGED <<sent, ended, taken, buf, wrote, room, over>>

\* The deferred closes.
Close == over' = TRUE /\ fin' = [d \in Directions |-> TRUE]

\* The handler receives from one goroutine and returns.
FirstDone ==
    /\ ~over
    /\ \E d \in Directions : copier[d] \in {"done", "failed"}
    /\ Close
    /\ UNCHANGED <<sent, ended, taken, buf, wrote, room, copier>>

copyStep == FirstDone \/ \E d \in Directions : CopyRead(d) \/ CopyWrite(d) \/ CopyEnds(d)

\* What the peers and the network do, when they like or never.
relayEvent == \E d \in Directions : PeerReads(d) \/ CopyFails(d)
peer(d) == PeerSends(d) \/ PeerEnds(d)

------------------------------------------------------------------------------
(* Properties both programs share.                                         *)

\* The stream of direction d arrives as it was sent after its first n chunks,
\* with no gap.
Gapless(d, n) == \A i \in 1..Len(wrote[d]) : wrote[d][i] = n + i

\* The whole of that stream has been written to the destination's socket.
Arrived(d, n) == ended[d] /\ n + Len(wrote[d]) = sent[d] /\ Gapless(d, n)

\* The handler closes both sockets at the first end, whatever the other copier
\* holds.  That cuts one of the streams and never both: if no socket failed,
\* the other has been passed on from after its first n[d] chunks to its end.
OneArrives(n) ==
    over /\ (\A d \in Directions : copier[d] \in {"on", "done"})
        => \E d \in Directions : Arrived(d, n[d])

\* The destination of d does not leave a write waiting for ever.
KeepsReading(d) == []<>(room[d] \/ over)

\* The end of one stream leaves the other one alone: the handler returns when
\* both are over.
OtherSideStays == over /\ copier["up"] # "off" => \A d \in Directions : ended[d]

==============================================================================
