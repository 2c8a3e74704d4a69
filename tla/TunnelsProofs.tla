---------------------------- MODULE TunnelsProofs ----------------------------
(***************************************************************************)
(* What is proved of hello-tap and tproxyfwd, however much the two sides   *)
(* send and whatever the form of a proxy's answer: the closing of both     *)
(* sockets cuts one stream at most, the SOCKS5 exchange takes its own      *)
(* bytes and no others, a ClientHello is forwarded from its first byte,    *)
(* and the CONNECT request says the host and the port it was made for.     *)
(*                                                                         *)
(* None of this is inductive.  What it rests on is where on the source's   *)
(* stream the handler stands at each of its steps, and that the copiers    *)
(* begin there: Relayed ties the chunks that were written, the one that is *)
(* held and the ones that were read to that place.                         *)
(***************************************************************************)
EXTENDS Tunnels, TLAPS, SequenceTheorems

Directions == {"up", "down"}

RelayTypes ==
    /\ sent \in [Directions -> Nat] /\ taken \in [Directions -> Nat]
    /\ buf \in [Directions -> Nat] /\ wrote \in [Directions -> Seq(Nat)]
    /\ ended \in [Directions -> BOOLEAN]
    /\ copier \in [Directions -> {"off", "on", "done", "failed"}]

\* What has been read of a direction after its first n chunks has been written,
\* in its order, but for the chunk that a copier holds.
Relayed(d, n) ==
    /\ \A i \in 1..Len(wrote[d]) : wrote[d][i] = n + i
    /\ buf[d] = 0 => taken[d] = n + Len(wrote[d])
    /\ buf[d] # 0 => buf[d] = n + Len(wrote[d]) + 1 /\ taken[d] = buf[d]

\* A copier is done when its source has ended and it holds nothing more, unless
\* it has failed; one that was never started has done nothing.
CopyInv ==
    /\ RelayTypes
    /\ \A d \in Directions : taken[d] <= sent[d]
    /\ \A d \in Directions : copier[d] = "done" => ended[d] /\ taken[d] = sent[d] /\ buf[d] = 0
    /\ \A d \in Directions : copier[d] = "off" => buf[d] = 0 /\ wrote[d] = <<>>

\* What a step of the peers and of the copiers leaves to the handler.
Onward ==
    /\ \A d \in Directions : copier'[d] = "off" <=> copier[d] = "off"
    /\ \A d \in Directions : copier[d] = "off" => taken'[d] = taken[d]
    /\ \A d \in Directions, n \in Nat : copier[d] # "off" /\ Relayed(d, n) => Relayed(d, n)'

LEMMA PeersKeep ==
    ASSUME CopyInv, NEW d \in Directions,
           Tap!PeerSends(d) \/ Tap!PeerEnds(d) \/ Fwd!PeerSends(d) \/ Fwd!PeerEnds(d)
    PROVE  CopyInv' /\ Onward
<1>1. /\ UNCHANGED <<taken, buf, wrote, copier>>
      /\ ~ended[d]
      /\ \/ sent' = [sent EXCEPT ![d] = @ + 1] /\ ended' = ended
         \/ ended' = [ended EXCEPT ![d] = TRUE] /\ sent' = sent
  BY DEF Tap!PeerSends, Tap!PeerEnds, Fwd!PeerSends, Fwd!PeerEnds
<1>2. RelayTypes' /\ \A e \in Directions : sent'[e] >= sent[e]
  <2>1. CASE sent' = [sent EXCEPT ![d] = sent[d] + 1] /\ ended' = ended
    <3>1. /\ sent' \in [Directions -> Nat] /\ sent'[d] = sent[d] + 1
          /\ \A e \in Directions \ {d} : sent'[e] = sent[e]
      BY <2>1 DEF CopyInv, RelayTypes
    <3> QED BY <1>1, <2>1, <3>1 DEF CopyInv, RelayTypes
  <2>2. CASE ended' = [ended EXCEPT ![d] = TRUE] /\ sent' = sent
    BY <1>1, <2>2 DEF CopyInv, RelayTypes
  <2> QED BY <1>1, <2>1, <2>2
<1>3. \A e \in Directions : copier[e] = "done" => ended'[e] /\ sent'[e] = sent[e]
  BY <1>1 DEF CopyInv, RelayTypes
<1>4. \A e \in Directions : taken[e] <= sent'[e]
  BY <1>2 DEF CopyInv, RelayTypes
<1>5. CopyInv'
  BY <1>1, <1>2, <1>3, <1>4 DEF CopyInv
<1> QED BY <1>1, <1>5 DEF Onward, Relayed

LEMMA ReadKeeps ==
    ASSUME CopyInv, NEW d \in Directions, Tap!CopyRead(d) \/ Fwd!CopyRead(d)
    PROVE  CopyInv' /\ Onward
<1>1. /\ copier[d] = "on" /\ buf[d] = 0 /\ taken[d] < sent[d]
      /\ taken' = [taken EXCEPT ![d] = taken[d] + 1]
      /\ buf' = [buf EXCEPT ![d] = taken[d] + 1]
      /\ UNCHANGED <<sent, ended, wrote, copier>>
  BY DEF Tap!CopyRead, Fwd!CopyRead
<1>2. /\ taken' \in [Directions -> Nat] /\ buf' \in [Directions -> Nat]
      /\ taken'[d] = taken[d] + 1 /\ buf'[d] = taken[d] + 1
      /\ \A e \in Directions \ {d} : taken'[e] = taken[e] /\ buf'[e] = buf[e]
  BY <1>1 DEF CopyInv, RelayTypes
<1>3. CopyInv'
  BY <1>1, <1>2 DEF CopyInv, RelayTypes
<1>4. \A n \in Nat : Relayed(d, n) => Relayed(d, n)'
  BY <1>1, <1>2 DEF Relayed, CopyInv, RelayTypes
<1>5. \A e \in Directions \ {d}, n \in Nat : Relayed(e, n) => Relayed(e, n)'
  BY <1>1, <1>2 DEF Relayed
<1> QED BY <1>1, <1>2, <1>3, <1>4, <1>5 DEF Onward

LEMMA WriteKeeps ==
    ASSUME CopyInv, NEW d \in Directions, Tap!CopyWrite(d) \/ Fwd!CopyWrite(d)
    PROVE  CopyInv' /\ Onward
<1>1. /\ copier[d] = "on" /\ buf[d] # 0
      /\ wrote' = [wrote EXCEPT ![d] = Append(wrote[d], buf[d])]
      /\ buf' = [buf EXCEPT ![d] = 0]
      /\ UNCHANGED <<sent, ended, taken, copier>>
  BY DEF Tap!CopyWrite, Fwd!CopyWrite
<1>2. wrote[d] \in Seq(Nat) /\ buf[d] \in Nat
  BY DEF CopyInv, RelayTypes
<1>3. /\ wrote' \in [Directions -> Seq(Nat)] /\ buf' \in [Directions -> Nat]
      /\ wrote'[d] = Append(wrote[d], buf[d]) /\ buf'[d] = 0
      /\ \A e \in Directions \ {d} : wrote'[e] = wrote[e] /\ buf'[e] = buf[e]
  BY <1>1, <1>2 DEF CopyInv, RelayTypes
<1>4. CopyInv'
  BY <1>1, <1>3 DEF CopyInv, RelayTypes
<1>5. /\ Len(wrote'[d]) = Len(wrote[d]) + 1 /\ Len(wrote[d]) \in Nat
      /\ wrote'[d][Len(wrote[d]) + 1] = buf[d]
      /\ \A i \in 1..Len(wrote[d]) : wrote'[d][i] = wrote[d][i]
  BY <1>2, <1>3
<1>6. \A n \in Nat : Relayed(d, n) => Relayed(d, n)'
  <2> SUFFICES ASSUME NEW n \in Nat, Relayed(d, n)
               PROVE  Relayed(d, n)'
    OBVIOUS
  <2>1. buf[d] = n + Len(wrote[d]) + 1 /\ taken'[d] = buf[d]
    BY <1>1 DEF Relayed
  <2>2. ASSUME NEW i \in 1..Len(wrote'[d])
        PROVE  wrote'[d][i] = n + i
    <3>1. CASE i \in 1..Len(wrote[d])
      BY <1>5, <3>1 DEF Relayed
    <3>2. CASE i = Len(wrote[d]) + 1
      BY <1>5, <2>1, <3>2
    <3> QED BY <1>5, <3>1, <3>2
  <2> QED BY <1>3, <1>5, <2>1, <2>2 DEF Relayed
<1>7. \A e \in Directions \ {d}, n \in Nat : Relayed(e, n) => Relayed(e, n)'
  BY <1>1, <1>3 DEF Relayed
<1> QED BY <1>1, <1>4, <1>6, <1>7 DEF Onward

LEMMA CopiersKeep ==
    ASSUME CopyInv, Tap!copyStep \/ Fwd!copyStep
    PROVE  CopyInv' /\ Onward
<1>1. CASE Tap!FirstDone \/ Fwd!FirstDone
  <2>1. UNCHANGED <<sent, ended, taken, buf, wrote, copier>>
    BY <1>1 DEF Tap!FirstDone, Fwd!FirstDone
  <2> QED BY <2>1 DEF CopyInv, RelayTypes, Onward, Relayed
<1>2. ASSUME NEW d \in Directions, Tap!CopyEnds(d) \/ Fwd!CopyEnds(d)
      PROVE  CopyInv' /\ Onward
  <2>1. /\ copier[d] = "on" /\ buf[d] = 0 /\ taken[d] = sent[d] /\ ended[d]
        /\ copier' = [copier EXCEPT ![d] = "done"]
        /\ UNCHANGED <<sent, ended, taken, buf, wrote>>
    BY <1>2 DEF Tap!CopyEnds, Fwd!CopyEnds
  <2> QED BY <2>1 DEF CopyInv, RelayTypes, Onward, Relayed
<1> QED BY <1>1, <1>2, ReadKeeps, WriteKeeps
        DEF Tap!copyStep, Fwd!copyStep, Tap!Directions, Fwd!Directions, Directions

\* A reset, or a peer that reads.
LEMMA EventsKeep ==
    ASSUME CopyInv, Tap!relayEvent \/ Fwd!relayEvent
    PROVE  CopyInv' /\ Onward
<1>1. PICK d \in Directions :
        UNCHANGED copier \/ (copier[d] = "on" /\ copier' = [copier EXCEPT ![d] = "failed"])
  BY DEF Tap!relayEvent, Fwd!relayEvent, Tap!PeerReads, Fwd!PeerReads, Tap!CopyFails,
         Fwd!CopyFails, Tap!Directions, Fwd!Directions, Directions
<1>2. UNCHANGED <<sent, ended, taken, buf, wrote>>
  BY DEF Tap!relayEvent, Fwd!relayEvent, Tap!PeerReads, Fwd!PeerReads, Tap!CopyFails,
         Fwd!CopyFails
<1>3. /\ copier' \in [Directions -> {"off", "on", "done", "failed"}]
      /\ \A e \in Directions : copier'[e] = copier[e] \/ (copier[e] = "on" /\ copier'[e] = "failed")
  BY <1>1 DEF CopyInv, RelayTypes
<1> QED BY <1>2, <1>3 DEF CopyInv, RelayTypes, Onward, Relayed

\* The copiers belong to the last step of either handler.
HandlerFirst == pc # "relay" => \A d \in Directions : copier[d] = "off"

\* A step of a handler that starts no copier reads some of one stream, or none.
LEMMA HandlerKeeps ==
    ASSUME CopyInv, UNCHANGED <<sent, ended, buf, wrote, copier>>,
           NEW d \in Directions, NEW n \in Nat,
           \/ taken' = taken
           \/ copier[d] = "off" /\ taken' = [taken EXCEPT ![d] = @ + n] /\ taken[d] + n <= sent[d]
    PROVE  CopyInv'
<1>1. CASE taken' = taken
  BY <1>1 DEF CopyInv, RelayTypes
<1>2. CASE /\ copier[d] = "off" /\ taken' = [taken EXCEPT ![d] = taken[d] + n]
           /\ taken[d] + n <= sent[d]
  <2>1. /\ taken' \in [Directions -> Nat] /\ taken'[d] = taken[d] + n
        /\ \A e \in Directions \ {d} : taken'[e] = taken[e]
    BY <1>2 DEF CopyInv, RelayTypes
  <2> QED BY <1>2, <2>1 DEF CopyInv, RelayTypes
<1> QED BY <1>1, <1>2

\* The copiers begin with what the handler has written itself, here in the
\* direction "up".
LEMMA StartKeeps ==
    ASSUME CopyInv, \A d \in Directions : copier[d] = "off",
           copier' = [d \in Directions |-> "on"], UNCHANGED <<sent, ended, taken, buf>>,
           NEW w \in Seq(Nat), wrote' = [wrote EXCEPT !["up"] = w]
    PROVE  CopyInv' /\ wrote'["up"] = w /\ wrote'["down"] = <<>>
           /\ buf'["up"] = 0 /\ buf'["down"] = 0
<1>1. wrote' \in [Directions -> Seq(Nat)] /\ wrote'["up"] = w /\ wrote'["down"] = <<>>
  BY DEF CopyInv, RelayTypes, Directions
<1> QED BY <1>1 DEF CopyInv, RelayTypes, Directions

------------------------------------------------------------------------------
(* tproxyfwd.                                                              *)

\* How much of the proxy's answers has been read at each step of the exchange.
FwdInv ==
    /\ HandlerFirst
    /\ domain \in Nat
    /\ pc # "relay" => taken["up"] = 0
    /\ pc \in {"dial", "greet", "method"} => taken["down"] = 0
    /\ pc \in {"request", "head"} => taken["down"] = 2
    /\ pc = "address" => taken["down"] = 2 + 4
    /\ pc = "name" => taken["down"] = 2 + 4 + 1 /\ reply.atyp = 3
    /\ pc = "start" => taken["down"] = Fwd!ExchangeSize
    /\ copier["up"] # "off" => Relayed("up", 0)
    /\ copier["down"] # "off" => Relayed("down", Fwd!ExchangeSize)

LEMMA ExchangeSizeType ==
    ASSUME domain \in Nat
    PROVE  /\ Fwd!ExchangeSize \in Nat
           /\ reply.atyp = 1 => Fwd!ExchangeSize = 2 + 4 + (4 + 2)
           /\ reply.atyp = 4 => Fwd!ExchangeSize = 2 + 4 + (16 + 2)
           /\ reply.atyp = 3 => Fwd!ExchangeSize = 2 + 4 + 1 + (domain + 2)
BY DEF Fwd!ExchangeSize, Fwd!AddressSize

\* io.ReadFull takes its bytes, or the handler returns.
LEMMA ReadFullKeeps ==
    ASSUME CopyInv, FwdInv, NEW from, NEW n \in Nat, NEW to, Fwd!ReadFull(from, n, to),
           from \notin {"relay", "returned"},
           to \in {"request", "refused", "address", "name", "start"},
           to = "request" => taken["down"] + n = 2,
           to = "address" => taken["down"] + n = 2 + 4,
           to = "name" => taken["down"] + n = 2 + 4 + 1 /\ reply.atyp = 3,
           to = "start" => taken["down"] + n = Fwd!ExchangeSize
    PROVE  CopyInv' /\ FwdInv'
<1>1. /\ pc = from /\ \A d \in Directions : copier[d] = "off"
      /\ UNCHANGED <<sent, ended, buf, wrote, copier, reply, domain>>
  BY DEF Fwd!ReadFull, Fwd!Return, FwdInv, HandlerFirst
<1>2. Fwd!ExchangeSize' = Fwd!ExchangeSize
  BY <1>1 DEF Fwd!ExchangeSize, Fwd!AddressSize
<1>3. taken["up"] = 0 /\ "down" \in Directions /\ "up" \in Directions
  BY <1>1 DEF FwdInv, Directions
<1>4. CASE /\ sent["down"] >= taken["down"] + n
           /\ taken' = [taken EXCEPT !["down"] = taken["down"] + n] /\ pc' = to
  <2>1. taken'["down"] = taken["down"] + n /\ taken'["up"] = 0
    BY <1>3, <1>4 DEF CopyInv, RelayTypes
  <2>2. CopyInv'
    <3>1. taken["down"] + n <= sent["down"]
      BY <1>3, <1>4 DEF CopyInv, RelayTypes
    <3> QED BY <1>1, <1>3, <1>4, <3>1, HandlerKeeps
  <2>3. copier'["up"] = "off" /\ copier'["down"] = "off" /\ domain' \in Nat
    BY <1>1, <1>3 DEF FwdInv
  <2> QED BY <1>1, <1>2, <1>4, <2>1, <2>2, <2>3 DEF FwdInv, HandlerFirst
<1>5. CASE Fwd!Return
  <2>1. UNCHANGED taken /\ pc' = "returned"
    BY <1>5 DEF Fwd!Return
  <2>2. CopyInv'
    BY <1>1, <1>3, <2>1, HandlerKeeps
  <2>3. copier'["up"] = "off" /\ copier'["down"] = "off" /\ domain' \in Nat
    BY <1>1, <1>3 DEF FwdInv
  <2> QED BY <1>1, <2>1, <2>2, <2>3 DEF FwdInv, HandlerFirst
<1> QED BY <1>4, <1>5 DEF Fwd!ReadFull

LEMMA FwdHandlerKeeps ==
    ASSUME CopyInv, FwdInv, Fwd!handleStep \/ Fwd!SocketFails
    PROVE  CopyInv' /\ FwdInv'
<1>1. domain \in Nat
  BY DEF FwdInv
<1>2. ASSUME pc \notin {"relay", "returned"}, UNCHANGED <<reply, domain>>,
             UNCHANGED <<sent, ended, taken, buf, wrote, copier>>,
             \/ pc' = "returned"
             \/ pc = "dial" /\ pc' = "greet"
             \/ pc = "greet" /\ pc' = "method"
             \/ pc = "request" /\ pc' = "head"
      PROVE  CopyInv' /\ FwdInv'
  <2>1. UNCHANGED <<sent, ended, taken, buf, wrote, copier>>
    BY <1>2
  <2>2. CopyInv'
    BY <2>1, HandlerKeeps DEF Directions
  <2>3. Fwd!ExchangeSize' = Fwd!ExchangeSize
    BY <1>2 DEF Fwd!ExchangeSize, Fwd!AddressSize
  <2>4. copier["up"] = "off" /\ copier["down"] = "off"
    BY <1>2 DEF FwdInv, HandlerFirst, Directions
  <2> QED BY <1>2, <2>1, <2>2, <2>3, <2>4 DEF FwdInv, HandlerFirst
<1>3. CASE \/ Fwd!Dial \/ Fwd!Write("greet", "method") \/ Fwd!Write("request", "head")
           \/ Fwd!Refused \/ Fwd!SocketFails
  BY <1>2, <1>3 DEF Fwd!Dial, Fwd!Write, Fwd!Refused, Fwd!SocketFails, Fwd!Return, Fwd!Go,
                    Fwd!relayVars
<1>4. CASE Fwd!ReadMethod
  <2>1. pc = "method"
    BY <1>4 DEF Fwd!ReadMethod, Fwd!ReadFull
  <2>2. taken["down"] + 2 = 2
    BY <2>1 DEF FwdInv
  <2> QED BY <1>4, <2>2, ReadFullKeeps DEF Fwd!ReadMethod
<1>5. CASE Fwd!ReadHead
  <2>1. pc = "head"
    BY <1>5 DEF Fwd!ReadHead, Fwd!ReadFull
  <2>2. taken["down"] + 4 = 2 + 4
    BY <2>1 DEF FwdInv
  <2>3. CASE Fwd!ReadFull("head", 4, "refused")
    BY <2>3, ReadFullKeeps
  <2>4. CASE Fwd!ReadFull("head", 4, "address")
    BY <2>2, <2>4, ReadFullKeeps
  <2> QED BY <1>5, <2>3, <2>4 DEF Fwd!ReadHead
<1>6. CASE Fwd!ReadAddress
  <2>1. CASE reply.atyp = 1 /\ Fwd!ReadFull("address", 4 + 2, "start")
    <3>1. taken["down"] + (4 + 2) = Fwd!ExchangeSize
      BY <1>1, <2>1, ExchangeSizeType DEF FwdInv, Fwd!ReadFull
    <3> QED BY <2>1, <3>1, ReadFullKeeps
  <2>2. CASE reply.atyp = 4 /\ Fwd!ReadFull("address", 16 + 2, "start")
    <3>1. taken["down"] + (16 + 2) = Fwd!ExchangeSize
      BY <1>1, <2>2, ExchangeSizeType DEF FwdInv, Fwd!ReadFull
    <3> QED BY <2>2, <3>1, ReadFullKeeps
  <2>3. CASE reply.atyp = 3 /\ Fwd!ReadFull("address", 1, "name")
    <3>1. taken["down"] + 1 = 2 + 4 + 1
      BY <2>3 DEF FwdInv, Fwd!ReadFull
    <3> QED BY <2>3, <3>1, ReadFullKeeps
  <2>4. CASE Fwd!ReadFull("name", domain + 2, "start")
    <3>1. taken["down"] + (domain + 2) = Fwd!ExchangeSize /\ domain + 2 \in Nat
      BY <1>1, <2>4, ExchangeSizeType DEF FwdInv, Fwd!ReadFull
    <3> QED BY <2>4, <3>1, ReadFullKeeps
  <2> QED BY <1>6, <2>1, <2>2, <2>3, <2>4 DEF Fwd!ReadAddress
<1>7. CASE Fwd!Start
  <2>1. /\ pc = "start" /\ pc' = "relay" /\ copier' = [d \in Directions |-> "on"]
        /\ UNCHANGED <<sent, ended, taken, buf, wrote, reply, domain>>
    BY <1>7 DEF Fwd!Start, Fwd!StartCopiers, Fwd!Directions, Directions
  <2>2. \A d \in Directions : copier[d] = "off" /\ wrote[d] = <<>> /\ buf[d] = 0
    BY <2>1 DEF FwdInv, HandlerFirst, CopyInv
  <2>3. wrote' = [wrote EXCEPT !["up"] = <<>>]
    BY <2>1, <2>2 DEF CopyInv, RelayTypes, Directions
  <2>4. CopyInv' /\ wrote'["up"] = <<>> /\ wrote'["down"] = <<>> /\ buf'["up"] = 0 /\ buf'["down"] = 0
    <3>1. <<>> \in Seq(Nat) /\ \A d \in Directions : copier[d] = "off"
      BY <2>2
    <3> QED BY <2>1, <2>3, <3>1, StartKeeps
  <2>5. taken'["up"] = 0 /\ taken'["down"] = Fwd!ExchangeSize
    BY <2>1 DEF FwdInv
  <2>6. Fwd!ExchangeSize' = Fwd!ExchangeSize /\ Fwd!ExchangeSize \in Nat
    BY <1>1, <2>1, ExchangeSizeType DEF Fwd!ExchangeSize, Fwd!AddressSize
  <2>7. Relayed("up", 0)' /\ Relayed("down", Fwd!ExchangeSize)'
    BY <2>4, <2>5, <2>6 DEF Relayed
  <2> QED BY <1>1, <2>1, <2>4, <2>7 DEF FwdInv, HandlerFirst
<1> QED BY <1>3, <1>4, <1>5, <1>6, <1>7 DEF Fwd!handleStep

LEMMA FwdKeeps ==
    ASSUME CopyInv, FwdInv, Fwd!Next
    PROVE  CopyInv' /\ FwdInv'
<1>1. ASSUME CopyInv', Onward, UNCHANGED <<pc, reply, domain>>
      PROVE  FwdInv'
  <2>1. Fwd!ExchangeSize' = Fwd!ExchangeSize /\ Fwd!ExchangeSize \in Nat /\ 0 \in Nat
    BY <1>1, ExchangeSizeType DEF Fwd!ExchangeSize, Fwd!AddressSize, FwdInv
  <2>2. copier'["up"] # "off" => Relayed("up", 0)'
    BY <1>1, <2>1 DEF FwdInv, Onward, Directions
  <2>3. \A n \in Nat : copier["down"] # "off" /\ Relayed("down", n) => Relayed("down", n)'
    BY <1>1 DEF Onward, Directions
  <2>4. copier'["down"] # "off" => Relayed("down", Fwd!ExchangeSize)'
    <3> SUFFICES ASSUME copier'["down"] # "off"
                 PROVE  Relayed("down", Fwd!ExchangeSize)'
      OBVIOUS
    <3>1. PICK n \in Nat : n = Fwd!ExchangeSize
      BY <2>1
    <3>2. Relayed("down", n)
      BY <1>1, <3>1 DEF FwdInv, Onward, Directions
    <3>3. Relayed("down", n)'
      BY <1>1, <2>3, <3>2 DEF Onward, Directions
    <3> QED BY <2>1, <3>1, <3>3 DEF Relayed
  <2>5. HandlerFirst'
    BY <1>1 DEF Onward, FwdInv, HandlerFirst
  <2>6. pc # "relay" => taken'["up"] = taken["up"] /\ taken'["down"] = taken["down"]
    BY <1>1 DEF Onward, FwdInv, HandlerFirst, Directions
  <2> QED BY <1>1, <2>1, <2>2, <2>4, <2>5, <2>6 DEF FwdInv
<1>2. CASE UNCHANGED Fwd!socksVars /\ (Fwd!peer("up") \/ Fwd!PeerSends("down") \/ Fwd!PeerEnds("down"))
  BY <1>1, <1>2, PeersKeep DEF Fwd!peer, Fwd!socksVars, Directions
<1>3. CASE UNCHANGED Fwd!socksVars /\ (Fwd!copyStep \/ Fwd!relayEvent)
  BY <1>1, <1>3, CopiersKeep, EventsKeep DEF Fwd!socksVars
<1> QED BY <1>2, <1>3, FwdHandlerKeeps DEF Fwd!Next

------------------------------------------------------------------------------
(* hello-tap.                                                              *)

\* The handler is still before the ClientHello.
Before == pc \in {"peek", "reply", "header"} \/ (pc = "dial" /\ kind \in Tap!Connects)

\* What of the client's stream has been read, and what of that is kept in hello,
\* with the record that says so.
TapInv ==
    /\ HandlerFirst
    /\ hello \in {<<>>, <<1, 2>>}
    /\ Before => hello = <<>> /\ taken["up"] = 0 /\ records = 0
    /\ pc = "body" => hello = <<>> /\ taken["up"] = 1 /\ records = 0
    /\ pc = "record" => records = 0
    /\ IF copier["down"] = "off" THEN taken["down"] = 0 ELSE Relayed("down", 0)
    /\ hello # <<>> =>
          /\ IF copier["up"] = "off" THEN taken["up"] = 2 ELSE Relayed("up", 0)
          /\ copier["up"] # "off" \/ pc \in {"dial", "forward", "relay"} => records = 1

\* The handler reads n chunks of the client's stream and goes on, or returns.
LEMMA TapReads ==
    ASSUME CopyInv, NEW n \in Nat, pc \notin {"relay", "returned"}, HandlerFirst,
           UNCHANGED <<sent, ended, buf, wrote, copier>>,
           \/ taken' = taken /\ n = 0
           \/ taken' = [taken EXCEPT !["up"] = @ + n] /\ taken["up"] + n <= sent["up"]
    PROVE  /\ CopyInv'
           /\ taken'["up"] = taken["up"] + n /\ taken'["down"] = taken["down"]
           /\ copier["up"] = "off" /\ copier'["up"] = "off"
           /\ copier["down"] = "off" /\ copier'["down"] = "off"
<1>1. copier["up"] = "off" /\ copier["down"] = "off" /\ "up" \in Directions
  BY DEF HandlerFirst, Directions
<1>2. CopyInv'
  BY <1>1, HandlerKeeps
<1>3. taken'["up"] = taken["up"] + n /\ taken'["down"] = taken["down"]
  BY <1>1 DEF CopyInv, RelayTypes, Directions
<1> QED BY <1>1, <1>2, <1>3

LEMMA TapHandlerKeeps ==
    ASSUME CopyInv, TapInv, Tap!handleStep \/ Tap!SocketFails \/ Tap!DeadlinePasses
    PROVE  CopyInv' /\ TapInv'
\* A return, at any moment.
<1>1. ASSUME UNCHANGED <<taken, sent, ended, buf, wrote, copier, hello>>, pc' = "returned",
             pc # "relay"
      PROVE  CopyInv' /\ TapInv'
  <2>1. CopyInv'
    BY <1>1, HandlerKeeps DEF Directions
  <2>2. \A d \in Directions : copier[d] = "off" /\ copier'[d] = "off"
    BY <1>1 DEF TapInv, HandlerFirst
  <2> QED BY <1>1, <2>1, <2>2 DEF TapInv, HandlerFirst, Before, Directions
\* A step before the relay, which reads nothing and moves on.
<1>2. ASSUME pc \notin {"relay", "returned"},
             UNCHANGED <<taken, sent, ended, buf, wrote, copier, hello, kind>>,
             \/ Before /\ Before' /\ records' = records
             \/ /\ ~Before' /\ pc' \in {"dial", "forward"}
                /\ hello # <<>> => records' = 1
      PROVE  CopyInv' /\ TapInv'
  <2>1. CopyInv' /\ copier'["up"] = "off" /\ copier'["down"] = "off"
    BY <1>2, TapReads DEF TapInv
  <2>2. copier["up"] = "off"
    BY <1>2, <2>1
  <2>3. HandlerFirst'
    BY <2>1 DEF HandlerFirst, Directions
  <2> QED BY <1>2, <2>1, <2>2, <2>3 DEF TapInv, Before
\* The ClientHello cannot be read.
<1>3. ASSUME pc \in {"header", "body"}, Tap!NoHello,
             UNCHANGED <<taken, sent, ended, buf, wrote, copier, hello, kind, records>>
      PROVE  CopyInv' /\ TapInv'
  <2>1. hello = <<>> /\ pc' \in {"forward", "returned"}
    BY <1>3 DEF Tap!NoHello, TapInv, Before
  <2> QED BY <1>1, <1>2, <1>3, <2>1 DEF Before
<1>4. CASE Tap!Peek
  <2>1. CASE Tap!Return
    BY <1>1, <1>4, <2>1 DEF Tap!Peek, Tap!Return
  <2>2. CASE Tap!Go("reply") \/ Tap!Go("header")
    BY <1>2, <1>4, <2>2 DEF Tap!Peek, Tap!Go, Tap!relayVars, Before
  <2> QED BY <1>4, <2>1, <2>2 DEF Tap!Peek
<1>5. CASE Tap!Reply
  <2>1. CASE kind \in Tap!Connects
    BY <1>2, <1>5, <2>1 DEF Tap!Reply, Before
  <2>2. CASE kind \notin Tap!Connects
    BY <1>2, <1>5, <2>2 DEF Tap!Reply, Before, TapInv
  <2> QED BY <2>1, <2>2
<1>6. CASE Tap!Dial
  <2>1. CASE Tap!Return
    BY <1>1, <1>6, <2>1 DEF Tap!Dial, Tap!Return
  <2>2. CASE kind \in Tap!Connects /\ Tap!Go("header") /\ UNCHANGED records
    BY <1>2, <1>6, <2>2 DEF Tap!Dial, Tap!Go, Tap!relayVars, Before
  <2>3. CASE kind \notin Tap!Connects /\ Tap!Go("forward") /\ UNCHANGED records
    BY <1>2, <1>6, <2>3 DEF Tap!Dial, Tap!Go, Tap!relayVars, Before, TapInv
  <2> QED BY <1>6, <2>1, <2>2, <2>3 DEF Tap!Dial
<1>7. CASE Tap!ReadHeader
  <2>1. /\ pc = "header" /\ hello = <<>> /\ taken["up"] = 0 /\ records = 0
        /\ UNCHANGED <<sent, ended, buf, wrote, copier, kind, hello, records>>
    BY <1>7 DEF Tap!ReadHeader, TapInv, Before
  <2>2. pc' \in {"body", "forward", "returned"}
    BY <1>7 DEF Tap!ReadHeader, Tap!NoHello
  <2>3. CASE sent["up"] > taken["up"] /\ taken' = [taken EXCEPT !["up"] = taken["up"] + 1]
    <3>1. taken["up"] + 1 <= sent["up"]
      BY <2>3 DEF CopyInv, RelayTypes, Directions
    <3>2. /\ CopyInv' /\ taken'["up"] = 1 /\ taken'["down"] = taken["down"]
          /\ copier'["up"] = "off" /\ copier["down"] = "off" /\ copier'["down"] = "off"
      <4>1. pc \notin {"relay", "returned"} /\ HandlerFirst /\ 1 \in Nat
        BY <2>1 DEF TapInv
      <4>2. /\ CopyInv' /\ taken'["up"] = taken["up"] + 1 /\ taken'["down"] = taken["down"]
            /\ copier'["up"] = "off" /\ copier["down"] = "off" /\ copier'["down"] = "off"
        BY <2>1, <2>3, <3>1, <4>1, TapReads
      <4> QED BY <2>1, <4>2
    <3> QED BY <2>1, <2>2, <3>2 DEF TapInv, HandlerFirst, Before, Directions
  <2>4. CASE UNCHANGED taken /\ Tap!NoHello
    BY <1>3, <2>1, <2>4
  <2> QED BY <1>7, <2>3, <2>4 DEF Tap!ReadHeader
<1>8. CASE Tap!ReadBody
  <2>1. /\ pc = "body" /\ hello = <<>> /\ taken["up"] = 1 /\ records = 0
        /\ UNCHANGED <<sent, ended, buf, wrote, copier, kind, records>>
    BY <1>8 DEF Tap!ReadBody, TapInv
  <2>2. CASE /\ sent["up"] > taken["up"] /\ taken' = [taken EXCEPT !["up"] = taken["up"] + 1]
             /\ hello' = <<1, 2>> /\ pc' = "record"
    <3>1. taken["up"] + 1 <= sent["up"]
      BY <2>2 DEF CopyInv, RelayTypes, Directions
    <3>2. /\ CopyInv' /\ taken'["up"] = 2 /\ taken'["down"] = taken["down"]
          /\ copier'["up"] = "off" /\ copier["down"] = "off" /\ copier'["down"] = "off"
      <4>1. pc \notin {"relay", "returned"} /\ HandlerFirst /\ 1 \in Nat
        BY <2>1 DEF TapInv
      <4>2. /\ CopyInv' /\ taken'["up"] = taken["up"] + 1 /\ taken'["down"] = taken["down"]
            /\ copier'["up"] = "off" /\ copier["down"] = "off" /\ copier'["down"] = "off"
        BY <2>1, <2>2, <3>1, <4>1, TapReads
      <4> QED BY <2>1, <4>2
    <3> QED BY <2>1, <2>2, <3>2 DEF TapInv, HandlerFirst, Before, Directions
  <2>3. CASE UNCHANGED <<taken, hello>> /\ Tap!NoHello
    BY <1>3, <2>1, <2>3
  <2> QED BY <1>8, <2>2, <2>3 DEF Tap!ReadBody
<1>9. CASE Tap!Record
  <2>1. pc = "record" /\ records' = 1 /\ UNCHANGED <<kind, hello>>
    BY <1>9 DEF Tap!Record, TapInv
  <2>2. CASE Tap!Return
    BY <1>1, <2>1, <2>2 DEF Tap!Return
  <2>3. CASE \/ kind \in Tap!Connects /\ Tap!Go("forward")
             \/ kind \notin Tap!Connects /\ Tap!Go("dial")
    BY <1>2, <2>1, <2>3 DEF Tap!Go, Tap!relayVars, Before
  <2> QED BY <1>9, <2>2, <2>3 DEF Tap!Record
<1>10. CASE Tap!Forward
  <2>1. /\ pc' = "relay" /\ wrote' = [wrote EXCEPT !["up"] = hello] /\ Tap!StartCopiers
        /\ UNCHANGED <<sent, ended, taken, buf, fin, over>>
    BY <1>10 DEF Tap!Forward
  <2> QED
    <3>1. /\ pc = "forward" /\ UNCHANGED <<hello, records>>
          /\ copier' = [d \in Directions |-> "on"] /\ \A d \in Directions : copier[d] = "off"
      BY <1>10, <2>1
         DEF Tap!Forward, Tap!StartCopiers, Tap!Directions, Directions, TapInv, HandlerFirst
    <3>2. hello \in Seq(Nat) /\ (hello # <<>> => hello = <<1, 2>>)
      <4>1. <<>> \in Seq(Nat) /\ <<1, 2>> \in Seq(Nat)
        OBVIOUS
      <4> QED BY <4>1 DEF TapInv
    <3>3. /\ CopyInv' /\ wrote'["up"] = hello /\ buf'["up"] = 0
          /\ wrote'["down"] = <<>> /\ buf'["down"] = 0
      BY <2>1, <3>1, <3>2, StartKeeps
    <3>4. hello # <<>> => Relayed("up", 0)' /\ records' = 1
      <4> SUFFICES ASSUME hello # <<>>
                   PROVE  Relayed("up", 0)' /\ records' = 1
        OBVIOUS
      <4>1. taken'["up"] = 2 /\ records' = 1
        BY <2>1, <3>1 DEF TapInv, Directions
      <4>2. wrote'["up"] = <<1, 2>> /\ buf'["up"] = 0
        BY <3>2, <3>3
      <4>3. Len(<<1, 2>>) = 2 /\ \A i \in 1..2 : <<1, 2>>[i] = 0 + i
        OBVIOUS
      <4> QED BY <4>1, <4>2, <4>3 DEF Relayed
    <3>5. copier'["up"] = "on" /\ copier'["down"] = "on"
      BY <3>1 DEF Directions
    <3>6. Relayed("down", 0)'
      <4>1. taken'["down"] = 0
        BY <2>1, <3>1 DEF TapInv, Directions
      <4> QED BY <3>3, <4>1 DEF Relayed
    <3> QED BY <2>1, <3>1, <3>3, <3>4, <3>5, <3>6 DEF TapInv, HandlerFirst, Before
<1>11. CASE Tap!DeadlinePasses
  BY <1>1, <1>11 DEF Tap!DeadlinePasses, Tap!Return
<1>12. CASE Tap!SocketFails
  BY <1>1, <1>3, <1>12 DEF Tap!SocketFails, Tap!Return
<1> QED BY <1>4, <1>5, <1>6, <1>7, <1>8, <1>9, <1>10, <1>11, <1>12 DEF Tap!handleStep

LEMMA TapKeeps ==
    ASSUME CopyInv, TapInv, Tap!Next
    PROVE  CopyInv' /\ TapInv'
<1>1. ASSUME CopyInv', Onward, UNCHANGED Tap!tapVars
      PROVE  TapInv'
  <2>1. HandlerFirst'
    BY <1>1 DEF Onward, TapInv, HandlerFirst, Tap!tapVars
  <2>2. copier["up"] # "off" /\ Relayed("up", 0) => Relayed("up", 0)'
    BY <1>1 DEF Onward, Directions
  <2>3. pc # "relay" \/ copier["up"] = "off" => taken'["up"] = taken["up"]
    BY <1>1 DEF Onward, TapInv, HandlerFirst, Directions
  <2>4. copier'["up"] = "off" <=> copier["up"] = "off"
    BY <1>1 DEF Onward, Directions
  <2>5. UNCHANGED <<pc, kind, hello, records>>
    BY <1>1 DEF Tap!tapVars
  <2>6. IF copier'["down"] = "off" THEN taken'["down"] = 0 ELSE Relayed("down", 0)'
    BY <1>1 DEF Onward, TapInv, Directions
  <2> QED BY <2>1, <2>2, <2>3, <2>4, <2>5, <2>6 DEF TapInv, Before
<1>2. CASE UNCHANGED Tap!tapVars /\ (Tap!peer("up") \/ Tap!peer("down"))
  BY <1>1, <1>2, PeersKeep DEF Tap!peer, Directions
<1>3. CASE UNCHANGED Tap!tapVars /\ (Tap!copyStep \/ Tap!relayEvent)
  BY <1>1, <1>3, CopiersKeep, EventsKeep
<1> QED BY <1>2, <1>3, TapHandlerKeeps DEF Tap!Next

------------------------------------------------------------------------------
(* The request of tproxyfwd.                                               *)

\* Where the elements of two sequences in a row are.
LEMMA TwoParts ==
    ASSUME NEW S, NEW f \in Seq(S), NEW h \in Seq(S)
    PROVE  /\ f \o h \in Seq(S) /\ Len(f \o h) = Len(f) + Len(h)
           /\ \A i \in 1..Len(f) : (f \o h)[i] = f[i]
           /\ \A i \in 1..Len(h) : (f \o h)[Len(f) + i] = h[i]
<1>1. PICK m \in Nat : m = Len(f)
  BY LenProperties
<1>2. PICK n \in Nat : n = Len(h)
  BY LenProperties
<1> DEFINE r == f \o h
<1>3. r \in Seq(S) /\ Len(r) = m + n
  BY <1>1, <1>2, ConcatProperties
<1>4. \A i \in 1..m + n : r[i] = IF i <= m THEN f[i] ELSE h[i - m]
  BY <1>1, <1>2, ConcatProperties
<1> HIDE DEF r
<1>5. ASSUME NEW i \in 1..m PROVE r[i] = f[i]
  BY <1>4
<1>6. ASSUME NEW i \in 1..n PROVE r[m + i] = h[i]
  <2>1. m + i \in 1..m + n /\ ~(m + i <= m) /\ (m + i) - m = i
    OBVIOUS
  <2> QED BY <1>4, <2>1
<1>7. r = f \o h
  BY DEF r
<1> QED BY <1>1, <1>2, <1>3, <1>5, <1>6, <1>7


\* And those of the parts of a request.
LEMMA RequestParts ==
    ASSUME NEW S, NEW h \in Seq(S), NEW n \in Nat, Len(h) = n,
           5 \in S, 1 \in S, 0 \in S, 3 \in S, n \in S, NEW hi \in S, NEW lo \in S
    PROVE  LET req == <<5, 1, 0, 3, n>> \o h \o <<hi, lo>>
           IN  /\ req \in Seq(S) /\ Len(req) = 7 + n /\ req[5] = n
               /\ \A i \in 1..n : req[5 + i] = h[i]
               /\ req[6 + n] = hi /\ req[7 + n] = lo
<1> DEFINE f == <<5, 1, 0, 3, n>>
           b == <<hi, lo>>
           r == (f \o h) \o b
<1>1. f \in Seq(S) /\ b \in Seq(S)
  OBVIOUS
<1>2. Len(f) = 5 /\ f[5] = n /\ Len(b) = 2 /\ b[1] = hi /\ b[2] = lo
  OBVIOUS
<1> HIDE DEF f, b
<1>3. PICK m \in Nat : m = Len(f)
  BY <1>1, LenProperties
<1>4. PICK k \in Nat : k = Len(b)
  BY <1>1, LenProperties
<1>5. /\ r \in Seq(S) /\ Len(r) = m + n + k
      /\ \A i \in 1..m : r[i] = f[i]
      /\ \A i \in 1..n : r[m + i] = h[i]
      /\ \A i \in 1..k : r[m + n + i] = b[i]
  <2> DEFINE g == f \o h
  <2>1. PICK l \in Nat : l = m + n
    OBVIOUS
  <2>2. g \in Seq(S) /\ Len(g) = l
    BY <1>1, <1>3, <2>1, TwoParts
  <2>3. \A i \in 1..m : g[i] = f[i]
    BY <1>1, <1>3, TwoParts
  <2>4. \A i \in 1..n : g[m + i] = h[i]
    BY <1>1, <1>3, TwoParts
  <2> HIDE DEF g
  <2>5. g \o b \in Seq(S) /\ Len(g \o b) = Len(g) + Len(b)
    BY <1>1, <2>2, TwoParts
  <2>6. \A i \in 1..l : (g \o b)[i] = g[i]
    BY <1>1, <2>2, TwoParts
  <2>7. \A i \in 1..k : (g \o b)[l + i] = b[i]
    BY <1>1, <1>4, <2>2, TwoParts
  <2>8. r = g \o b
    BY DEF g
  <2> HIDE DEF r
  <2>9. (\A i \in 1..m : i \in 1..l) /\ \A i \in 1..n : m + i \in 1..l
    BY <2>1
  <2>10. (\A i \in 1..m : r[i] = f[i]) /\ \A i \in 1..n : r[m + i] = h[i]
    BY <2>3, <2>4, <2>6, <2>8, <2>9, Zenon
  <2>11. Len(r) = m + n + k
    BY <1>4, <2>1, <2>2, <2>5, <2>8
  <2>12. \A i \in 1..k : r[m + n + i] = b[i]
    BY <2>1, <2>7, <2>8
  <2> QED BY <2>5, <2>8, <2>10, <2>11, <2>12
<1> HIDE DEF r
<1>6. m = 5 /\ k = 2
  BY <1>2, <1>3, <1>4
<1>7. /\ r \in Seq(S) /\ Len(r) = 7 + n /\ r[5] = n
      /\ \A i \in 1..n : r[5 + i] = h[i]
      /\ r[6 + n] = hi /\ r[7 + n] = lo
  <2>1. 5 \in 1..m /\ 1 \in 1..k /\ 2 \in 1..k /\ m + n + 1 = 6 + n /\ m + n + 2 = 7 + n
    BY <1>6
  <2>2. r[m + n + 1] = b[1] /\ r[m + n + 2] = b[2] /\ r[5] = f[5]
    BY <1>5, <2>1
  <2>3. Len(r) = 7 + n
    BY <1>5, <1>6
  <2>4. \A i \in 1..n : r[5 + i] = h[i]
    BY <1>5, <1>6
  <2> QED BY <1>2, <1>5, <2>1, <2>2, <2>3, <2>4
<1>8. r = <<5, 1, 0, 3, n>> \o h \o <<hi, lo>>
  BY Zenon DEF r, f, b
<1> QED BY <1>7, <1>8, Zenon

\* The bytes of a number that fits into two, and of a length that fits into one.
LEMMA TwoBytes ==
    ASSUME NEW p \in Int, 0 < p, p <= 65535
    PROVE  /\ p \div 256 \in Int /\ 0 <= p \div 256 /\ p \div 256 <= 255
           /\ Req!Byte(p) \in Int /\ 0 <= Req!Byte(p) /\ Req!Byte(p) <= 255
<1>1. Req!Byte(p) = p % 256
  BY DEF Req!Byte
<1>2. /\ p \div 256 \in Int /\ 0 <= p \div 256 /\ p \div 256 <= 255
      /\ p % 256 \in Int /\ 0 <= p % 256 /\ p % 256 <= 255
  OBVIOUS
<1> QED BY <1>1, <1>2

LEMMA PortBytes ==
    ASSUME NEW p \in Int
    PROVE  (p \div 256) * 256 + Req!Byte(p) = p
<1>1. Req!Byte(p) = p % 256 /\ p = 256 * (p \div 256) + (p % 256)
  BY DEF Req!Byte
<1> QED BY <1>1

LEMMA OneByte ==
    ASSUME NEW n \in Nat, n <= 255
    PROVE  Req!Byte(n) = n
BY DEF Req!Byte

\* What lies where in a request that was not refused.
LEMMA RequestBytes ==
    ASSUME NEW S, \A x \in Int : 0 <= x /\ x <= 255 => x \in S,
           NEW h \in Seq(S), NEW p \in Int, ~Req!Bad(h, p),
           NEW req, req = Req!BuildConnectRequest(h, p)
    PROVE  /\ req \in Seq(S) /\ Len(req) = 7 + Len(h) /\ req[5] = Len(h)
           /\ \A i \in 1..Len(h) : req[5 + i] = h[i]
           /\ req[6 + Len(h)] = p \div 256 /\ req[7 + Len(h)] = Req!Byte(p)
<1>1. PICK n \in Nat : n = Len(h)
  BY LenProperties
<1>2. 1 <= n /\ n <= 255 /\ 0 < p /\ p <= 65535
  BY <1>1 DEF Req!Bad
<1>3. /\ 5 \in S /\ 1 \in S /\ 0 \in S /\ 3 \in S /\ n \in S
      /\ p \div 256 \in S /\ Req!Byte(p) \in S
  <2>1. 5 \in S /\ 1 \in S /\ 0 \in S /\ 3 \in S /\ n \in S
    BY <1>2
  <2>2. /\ p \div 256 \in Int /\ 0 <= p \div 256 /\ p \div 256 <= 255
        /\ Req!Byte(p) \in Int /\ 0 <= Req!Byte(p) /\ Req!Byte(p) <= 255
    BY <1>2, TwoBytes
  <2>3. p \div 256 \in S
    BY <2>2
  <2>4. Req!Byte(p) \in S
    BY <2>2
  <2> QED BY <2>1, <2>3, <2>4
<1>4. req = <<5, 1, 0, 3, n>> \o h \o <<p \div 256, Req!Byte(p)>>
  BY <1>1, <1>2, OneByte, SMTT(40) DEF Req!BuildConnectRequest
<1> QED BY <1>1, <1>3, <1>4, RequestParts

LEMMA RequestIsRead ==
    ASSUME host \in Hosts, port \in Ports
    PROVE  Req!ProxyReadsTarget
<1> DEFINE req == Req!BuildConnectRequest(host, port)
           S == 0..255
<1>1. host \in Seq(S) /\ port \in Int
  BY TunnelsAssumption
<1>2. \A x \in Int : 0 <= x /\ x <= 255 => x \in S
  OBVIOUS
<1> HIDE DEF S, req
<1> SUFFICES ASSUME req # Req!Refused
             PROVE  /\ \A i \in 1..Len(req) : req[i] \in S
                    /\ Req!Target(req) = [host |-> host, port |-> port, rest |-> <<>>]
  BY DEF Req!ProxyReadsTarget, S, req
<1>3. ~Req!Bad(host, port)
  BY DEF Req!BuildConnectRequest, Req!Refused, req
<1>4. /\ req \in Seq(S) /\ Len(req) = 7 + Len(host) /\ req[5] = Len(host)
      /\ \A i \in 1..Len(host) : req[5 + i] = host[i]
      /\ req[6 + Len(host)] = port \div 256 /\ req[7 + Len(host)] = Req!Byte(port)
  BY <1>1, <1>2, <1>3, RequestBytes DEF req
<1>5. PICK n \in Nat : n = Len(host)
  BY <1>1, LenProperties
<1>6. SubSeq(req, 6, 5 + n) = host
  <2> DEFINE name == SubSeq(req, 6, 5 + n)
  <2>1. \A i \in 6..5 + n : req[i] \in S
    BY <1>4, <1>5, ElementOfSeq
  <2>2. /\ name \in Seq(S) /\ Len(name) = n
        /\ \A i \in 1..n : name[i] = req[5 + i]
    BY <2>1, SubSeqProperties
  <2> HIDE DEF name
  <2>3. Len(name) = Len(host) /\ \A i \in 1..Len(name) : name[i] = host[i]
    BY <1>4, <1>5, <2>2
  <2> QED BY <1>1, <2>2, <2>3, SeqEqual DEF name
<1>7. SubSeq(req, 8 + n, Len(req)) = <<>>
  <2>1. Len(req) < 8 + n /\ 8 + n \in Int /\ Len(req) \in Int
    BY <1>4, <1>5
  <2> QED BY <2>1, SubSeqEmpty
<1>8. req[6 + n] * 256 + req[7 + n] = port
  <2>1. (port \div 256) * 256 + Req!Byte(port) = port
    BY <1>1, PortBytes
  <2>2. req[6 + n] = port \div 256 /\ req[7 + n] = Req!Byte(port)
    BY <1>4, <1>5
  <2> QED BY <2>1, <2>2
<1>9. \A i \in 1..Len(req) : req[i] \in S
  BY <1>4, ElementOfSeq
<1> QED BY <1>4, <1>5, <1>6, <1>7, <1>8, <1>9 DEF Req!Target

------------------------------------------------------------------------------
(* The theorems.                                                           *)

TunInv ==
    /\ CopyInv
    /\ program = "hello-tap" => TapInv
    /\ program = "tproxyfwd" => FwdInv
    /\ program = "request" => host \in Hosts /\ port \in Ports

LEMMA TunInvInit == ASSUME Init PROVE TunInv
<1>1. Fwd!RelayInit
  BY DEF Init, TapInit, FwdInit, ReqInit, Tap!Init, Fwd!Init, Fwd!RelayInit, Tap!RelayInit,
         Fwd!Directions, Tap!Directions
<1>2. /\ CopyInv
      /\ \A d \in Directions : copier[d] = "off" /\ taken[d] = 0
  BY <1>1 DEF Fwd!RelayInit, CopyInv, RelayTypes, Fwd!Directions, Directions
<1>3. CASE TapInit
  BY <1>2, <1>3 DEF TapInit, Tap!Init, TunInv, TapInv, HandlerFirst, Before, Directions
<1>4. CASE FwdInit
  <2>1. domain \in Nat
    BY <1>4, TunnelsAssumption DEF FwdInit, Fwd!Init
  <2> QED BY <1>2, <1>4, <2>1 DEF FwdInit, Fwd!Init, TunInv, FwdInv, HandlerFirst, Directions
<1>5. CASE ReqInit
  BY <1>2, <1>5 DEF ReqInit, Req!Init, TunInv
<1> QED BY <1>3, <1>4, <1>5 DEF Init

LEMMA TunInvStep == ASSUME TunInv, [Next]_vars PROVE TunInv'
<1>1. CASE TapNext
  <2>1. program = "hello-tap" /\ program' = program
    BY <1>1 DEF TapNext
  <2>2. CopyInv' /\ TapInv'
    BY <1>1, <2>1, TapKeeps DEF TapNext, TunInv
  <2> QED BY <2>1, <2>2 DEF TunInv
<1>2. CASE FwdNext
  <2>1. program = "tproxyfwd" /\ program' = program
    BY <1>2 DEF FwdNext
  <2>2. CopyInv' /\ FwdInv'
    BY <1>2, <2>1, FwdKeeps DEF FwdNext, TunInv
  <2> QED BY <2>1, <2>2 DEF TunInv
<1>3. CASE ReqNext
  <2>1. program = "request" /\ program' = program /\ host' \in Hosts /\ port' \in Ports
    BY <1>3 DEF ReqNext, Req!Next
  <2>2. CopyInv'
    BY <1>3 DEF ReqNext, TunInv, CopyInv, RelayTypes, relayVars
  <2> QED BY <2>1, <2>2 DEF TunInv
<1>4. CASE UNCHANGED vars
  BY <1>4 DEF TunInv, vars, relayVars, tapOnly, fwdOnly, request, CopyInv, RelayTypes, TapInv,
              FwdInv, HandlerFirst, Before, Relayed, Fwd!ExchangeSize, Fwd!AddressSize
<1> QED BY <1>1, <1>2, <1>3, <1>4 DEF Next

LEMMA TunInvHolds == Spec => []TunInv
BY TunInvInit, TunInvStep, PTL DEF Spec

\* The sockets are closed by a handler that returns before its relay, or after
\* one of its copiers.
OverInv ==
    /\ over => pc \in {"relay", "returned"}
    /\ over /\ pc = "relay" => \E d \in Directions : copier[d] \in {"done", "failed"}

LEMMA RelayOver ==
    ASSUME OverInv, HandlerFirst, UNCHANGED pc,
           \/ \E d \in Directions : Tap!peer(d) \/ Fwd!PeerSends(d) \/ Fwd!PeerEnds(d)
           \/ Tap!copyStep \/ Tap!relayEvent \/ Fwd!copyStep \/ Fwd!relayEvent
    PROVE  OverInv'
<1>1. CASE Tap!FirstDone \/ Fwd!FirstDone
  <2>1. copier' = copier /\ \E d \in Directions : copier[d] \in {"done", "failed"}
    BY <1>1 DEF Tap!FirstDone, Fwd!FirstDone, Tap!Directions, Fwd!Directions, Directions
  <2>2. pc = "relay"
    BY <2>1 DEF HandlerFirst
  <2> QED BY <2>1, <2>2 DEF OverInv
<1>2. CASE over' = over /\ (copier' = copier \/ ~over)
  BY <1>2 DEF OverInv
<1>3. ASSUME NEW d, \/ Tap!CopyRead(d) \/ Tap!CopyWrite(d) \/ Tap!CopyEnds(d)
                    \/ Fwd!CopyRead(d) \/ Fwd!CopyWrite(d) \/ Fwd!CopyEnds(d)
                    \/ Tap!PeerReads(d) \/ Tap!CopyFails(d) \/ Fwd!PeerReads(d) \/ Fwd!CopyFails(d)
                    \/ Tap!peer(d) \/ Fwd!PeerSends(d) \/ Fwd!PeerEnds(d)
      PROVE  OverInv'
  BY <1>2, <1>3 DEF Tap!CopyRead, Tap!CopyWrite, Tap!CopyEnds, Fwd!CopyRead, Fwd!CopyWrite,
     Fwd!CopyEnds, Tap!PeerReads, Tap!CopyFails, Fwd!PeerReads, Fwd!CopyFails,
     Tap!peer, Tap!PeerSends, Tap!PeerEnds, Fwd!PeerSends, Fwd!PeerEnds
<1> QED BY <1>1, <1>3 DEF Tap!copyStep, Tap!relayEvent, Fwd!copyStep, Fwd!relayEvent

LEMMA TapOver ==
    ASSUME OverInv, Tap!handleStep \/ Tap!SocketFails \/ Tap!DeadlinePasses
    PROVE  OverInv'
<1>1. pc \notin {"relay", "returned"}
  BY DEF Tap!handleStep, Tap!SocketFails, Tap!DeadlinePasses, Tap!Peek, Tap!Reply, Tap!Dial,
         Tap!ReadHeader, Tap!ReadBody, Tap!Record, Tap!Forward
<1>2. over' = over \/ pc' = "returned"
  BY DEF Tap!handleStep, Tap!SocketFails, Tap!DeadlinePasses, Tap!Peek, Tap!Reply, Tap!Dial,
         Tap!ReadHeader, Tap!ReadBody, Tap!Record, Tap!Forward, Tap!Return, Tap!Go, Tap!NoHello,
         Tap!relayVars
<1> QED BY <1>1, <1>2 DEF OverInv

LEMMA FwdOver ==
    ASSUME OverInv, Fwd!handleStep \/ Fwd!SocketFails
    PROVE  OverInv'
<1>1. pc \notin {"relay", "returned"}
  BY DEF Fwd!handleStep, Fwd!SocketFails, Fwd!Dial, Fwd!Write, Fwd!ReadMethod, Fwd!ReadHead,
         Fwd!ReadAddress, Fwd!ReadFull, Fwd!Refused, Fwd!Start
<1>2. over' = over \/ pc' = "returned"
  BY DEF Fwd!handleStep, Fwd!SocketFails, Fwd!Dial, Fwd!Write, Fwd!ReadMethod, Fwd!ReadHead,
         Fwd!ReadAddress, Fwd!ReadFull, Fwd!Refused, Fwd!Start, Fwd!Return, Fwd!Go, Fwd!relayVars
<1> QED BY <1>1, <1>2 DEF OverInv

\* A stream whose copier is done has arrived.
LEMMA DoneArrives ==
    ASSUME CopyInv, NEW d \in Directions, NEW n \in Nat, Relayed(d, n), copier[d] = "done"
    PROVE  Tap!Arrived(d, n) /\ Fwd!Arrived(d, n)
BY DEF CopyInv, RelayTypes, Relayed, Tap!Arrived, Fwd!Arrived, Tap!Gapless, Fwd!Gapless

\* Whatever the two copiers hold when the first of them ends and both sockets
\* are closed, one of the streams has reached the other side's socket from its
\* first chunk to its last, unless a socket failed (tproxyfwd main.go:111-130,
\* hello-tap main.go:153-167).
THEOREM OneStreamIsWhole == Spec => []OneStreamArrives
<1> DEFINE Inv == program # "request" => OverInv
<1>1. Init => Inv
  BY DEF Init, TapInit, FwdInit, ReqInit, Tap!Init, Fwd!Init, Tap!RelayInit, Fwd!RelayInit, OverInv
<1>2. TunInv /\ Inv /\ [Next]_vars => Inv'
  <2> SUFFICES ASSUME TunInv, Inv, [Next]_vars, program' # "request"
               PROVE  OverInv'
    OBVIOUS
  <2>1. CASE TapNext
    <3>1. OverInv /\ HandlerFirst /\ Tap!Next
      BY <2>1 DEF TapNext, TunInv, TapInv
    <3>2. CASE Tap!handleStep \/ Tap!SocketFails \/ Tap!DeadlinePasses
      BY <3>1, <3>2, TapOver
    <3> QED BY <3>1, <3>2, RelayOver DEF Tap!Next, Tap!tapVars, Directions
  <2>2. CASE FwdNext
    <3>1. OverInv /\ HandlerFirst /\ Fwd!Next
      BY <2>2 DEF FwdNext, TunInv, FwdInv
    <3>2. CASE Fwd!handleStep \/ Fwd!SocketFails
      BY <3>1, <3>2, FwdOver
    <3> QED BY <3>1, <3>2, RelayOver DEF Fwd!Next, Fwd!peer, Fwd!socksVars, Directions
  <2>3. CASE ReqNext
    BY <2>3 DEF ReqNext
  <2>4. CASE UNCHANGED vars
    BY <2>4 DEF vars, relayVars, OverInv
  <2> QED BY <2>1, <2>2, <2>3, <2>4 DEF Next
<1>3. TunInv /\ Inv => OneStreamArrives
  <2> SUFFICES ASSUME TunInv, Inv PROVE OneStreamArrives
    OBVIOUS
  <2>1. ASSUME OverInv, HandlerFirst, over, \A d \in Directions : copier[d] \in {"on", "done"}
        PROVE  \E d \in Directions : copier[d] = "done"
    <3>1. pc = "relay"
      BY <2>1 DEF HandlerFirst, Directions
    <3> QED BY <2>1, <3>1 DEF OverInv
  <2>2. ASSUME program = "hello-tap", hello # <<>>, over,
               \A d \in Directions : copier[d] \in {"on", "done"}
        PROVE  \E d \in Directions : Tap!Arrived(d, [e \in Directions |-> 0][d])
    <3>1. PICK d \in Directions : copier[d] = "done"
      BY <2>1, <2>2 DEF TunInv, TapInv
    <3>2. CopyInv /\ Relayed(d, 0)
      BY <2>2, <3>1 DEF TunInv, TapInv, Directions
    <3> QED BY <3>1, <3>2, DoneArrives
  <2>3. ASSUME program = "tproxyfwd", over, \A d \in Directions : copier[d] \in {"on", "done"}
        PROVE  \E d \in Directions : Fwd!Arrived(d, [up |-> 0, down |-> Fwd!ExchangeSize][d])
    <3>1. PICK d \in Directions : copier[d] = "done"
      BY <2>1, <2>3 DEF TunInv, FwdInv
    <3>2. CopyInv /\ FwdInv
      BY <2>3 DEF TunInv
    <3>3. Fwd!ExchangeSize \in Nat
      BY <3>2, ExchangeSizeType DEF FwdInv
    <3>4. CASE d = "up"
      BY <3>1, <3>2, <3>4, DoneArrives DEF FwdInv
    <3>5. CASE d = "down"
      <4>1. PICK n \in Nat : n = Fwd!ExchangeSize
        BY <3>3
      <4>2. Relayed("down", n)
        BY <3>1, <3>2, <3>5, <4>1 DEF FwdInv
      <4>3. Fwd!Arrived("down", n)
        BY <3>1, <3>2, <3>5, <4>2, DoneArrives
      <4> QED BY <3>5, <4>1, <4>3
    <3> QED BY <3>4, <3>5 DEF Directions
  <2> QED BY <2>2, <2>3 DEF OneStreamArrives, Tap!OneStreamArrives, Tap!OneArrives,
             Fwd!OneStreamArrives, Fwd!OneArrives, Tap!Directions, Fwd!Directions, Directions
<1> QED BY <1>1, <1>2, <1>3, TunInvHolds, PTL DEF Spec

\* Whatever the type of the address and the length of the name that the proxy
\* answers with, the client receives the target's stream from its first byte
\* (tproxyfwd main.go:173-217).
THEOREM ExchangeIsFramed == Spec => []Framing
<1>1. TunInv => Framing
  <2> SUFFICES ASSUME TunInv, program = "tproxyfwd"
               PROVE  Fwd!Framing
    BY DEF Framing
  <2>1. CopyInv /\ FwdInv
    BY DEF TunInv
  <2>2. Fwd!Gapless("up", 0)
    BY <2>1 DEF Fwd!Gapless, FwdInv, CopyInv, Relayed, Directions
  <2>3. Fwd!Gapless("down", Fwd!ExchangeSize)
    BY <2>1 DEF Fwd!Gapless, FwdInv, CopyInv, Relayed, Directions
  <2> QED BY <2>2, <2>3 DEF Fwd!Framing
<1> QED BY <1>1, TunInvHolds, PTL

\* Whatever was consumed to read a ClientHello reaches the upstream before the
\* rest, and with no gap (hello-tap main.go:103-167).
THEOREM HelloGoesFirst == Spec => []HelloIsForwarded
<1>1. TunInv => HelloIsForwarded
  <2> SUFFICES ASSUME TunInv, program = "hello-tap", hello # <<>>
               PROVE  Tap!Gapless("up", 0)
    BY DEF HelloIsForwarded, Tap!HelloIsForwarded
  <2>1. CopyInv /\ TapInv
    BY DEF TunInv
  <2> QED BY <2>1 DEF Tap!Gapless, TapInv, CopyInv, Relayed, Directions
<1> QED BY <1>1, TunInvHolds, PTL

\* A tunnel whose ClientHello was read starts to copy after its one record was
\* written, never before (hello-tap main.go:139-167).
THEOREM RecordBeforeRelay == Spec => [](program = "hello-tap" => Tap!RecordedFirst)
<1>1. TunInv => (program = "hello-tap" => Tap!RecordedFirst)
  BY DEF TunInv, TapInv, Tap!RecordedFirst
<1> QED BY <1>1, TunInvHolds, PTL

\* For every host and port, the request says them or is refused (tproxyfwd
\* main.go:132-156).
THEOREM RequestSaysTarget == Spec => []ProxyReadsTarget
<1>1. TunInv => ProxyReadsTarget
  BY RequestIsRead DEF TunInv, ProxyReadsTarget
<1> QED BY <1>1, TunInvHolds, PTL

------------------------------------------------------------------------------
(* Types.                                                                  *)

\* The rest of the relay's types: a source sends no more than it has.
EndTypes(most) ==
    /\ fin \in [Directions -> BOOLEAN] /\ over \in BOOLEAN
    /\ room \in [Directions -> BOOLEAN]
    /\ \A d \in Directions : sent[d] <= most[d]

TapTypes ==
    /\ pc \in {"peek", "reply", "dial", "header", "body", "record", "forward",
               "relay", "returned"}
    /\ kind \in Tap!Kinds
    /\ upstream \in BOOLEAN /\ deadline \in BOOLEAN
    /\ records \in 0..1

FwdTypes ==
    /\ pc \in {"dial", "greet", "method", "request", "head", "address", "name",
               "start", "refused", "relay", "returned"}
    /\ reply \in [atyp : Fwd!Types, code : {0, 5}]
    /\ domain \in Names

PartTypes ==
    /\ program \in {"hello-tap", "tproxyfwd", "request"}
    /\ program = "hello-tap" => EndTypes(TapSends) /\ TapTypes
    /\ program = "tproxyfwd" => EndTypes(FwdSends) /\ FwdTypes

LEMMA Bounds == /\ \A d \in Directions : TapSends[d] \in Nat /\ FwdSends[d] \in Nat
                /\ Names \subseteq Nat
BY TunnelsAssumption DEF Directions

LEMMA TapTypesKept ==
    ASSUME CopyInv, TapInv, EndTypes(TapSends), TapTypes, Tap!Next
    PROVE  EndTypes(TapSends)' /\ TapTypes'
<1> USE DEF Tap!relayVars, Tap!tapVars
<1>1. ASSUME NEW d \in Directions, Tap!peer(d), UNCHANGED Tap!tapVars
      PROVE  EndTypes(TapSends)' /\ TapTypes'
  <2>1. fin' = fin /\ over' = over /\ room' = room
    BY <1>1 DEF Tap!peer, Tap!PeerSends, Tap!PeerEnds
  <2>2. \A e \in Directions : sent'[e] <= TapSends[e]
    <3>1. /\ \A e \in Directions : sent[e] \in Nat /\ sent[e] <= TapSends[e]
          /\ DOMAIN sent = Directions
      BY DEF EndTypes, CopyInv, RelayTypes
    <3>2. \/ sent' = sent
          \/ sent[d] < TapSends[d] /\ sent' = [sent EXCEPT ![d] = @ + 1]
      BY <1>1 DEF Tap!peer, Tap!PeerSends, Tap!PeerEnds
    <3> QED BY <3>1, <3>2, Bounds
  <2> QED BY <1>1, <2>1, <2>2 DEF EndTypes, TapTypes
<1>2. ASSUME Tap!copyStep \/ Tap!relayEvent, UNCHANGED Tap!tapVars
      PROVE  EndTypes(TapSends)' /\ TapTypes'
  <2>1. sent' = sent /\ fin' \in [Directions -> BOOLEAN] /\ over' \in BOOLEAN
    BY <1>2 DEF Tap!copyStep, Tap!FirstDone, Tap!Close, Tap!CopyRead, Tap!CopyWrite, Tap!CopyEnds,
                Tap!relayEvent, Tap!PeerReads, Tap!CopyFails, EndTypes, Directions, Tap!Directions
  <2>2. room' \in [Directions -> BOOLEAN]
    BY <1>2 DEF Tap!copyStep, Tap!FirstDone, Tap!CopyRead, Tap!CopyWrite, Tap!CopyEnds, Tap!Fits,
                Tap!relayEvent, Tap!PeerReads, Tap!CopyFails, EndTypes
  <2> QED BY <1>2, <2>1, <2>2 DEF EndTypes, TapTypes
<1>3. ASSUME Tap!handleStep \/ Tap!SocketFails \/ Tap!DeadlinePasses
      PROVE  EndTypes(TapSends)' /\ TapTypes'
  <2>1. sent' = sent /\ fin' \in [Directions -> BOOLEAN] /\ over' \in BOOLEAN
    BY <1>3 DEF Tap!handleStep, Tap!SocketFails, Tap!DeadlinePasses, Tap!Peek, Tap!Reply, Tap!Dial, Tap!ReadHeader,
                Tap!ReadBody, Tap!Record, Tap!Forward, Tap!Return, Tap!Go, Tap!NoHello, Tap!Close,
                EndTypes, Directions, Tap!Directions
  <2>2. pc' \in {"peek", "reply", "dial", "header", "body", "record", "forward", "relay", "returned"}
    BY <1>3 DEF Tap!handleStep, Tap!SocketFails, Tap!DeadlinePasses, Tap!Peek, Tap!Reply, Tap!Dial, Tap!ReadHeader,
                Tap!ReadBody, Tap!Record, Tap!Forward, Tap!Return, Tap!Go, Tap!NoHello
  <2>3. kind' = kind /\ upstream' \in BOOLEAN /\ deadline' \in BOOLEAN
    BY <1>3 DEF Tap!handleStep, Tap!SocketFails, Tap!DeadlinePasses, Tap!Peek, Tap!Reply, Tap!Dial, Tap!ReadHeader,
                Tap!ReadBody, Tap!Record, Tap!Forward, TapTypes
  <2>4. records' \in 0..1
    BY <1>3 DEF Tap!handleStep, Tap!SocketFails, Tap!DeadlinePasses, Tap!Peek, Tap!Reply, Tap!Dial, Tap!ReadHeader,
                Tap!ReadBody, Tap!Record, Tap!Forward, TapTypes, TapInv, Before
  <2>5. room' \in [Directions -> BOOLEAN]
    BY <1>3 DEF Tap!handleStep, Tap!SocketFails, Tap!DeadlinePasses, Tap!Peek, Tap!Reply, Tap!Dial,
                Tap!ReadHeader, Tap!ReadBody, Tap!Record, Tap!Forward, Tap!Fits, Tap!Return, Tap!Go,
                EndTypes
  <2> QED BY <2>1, <2>2, <2>3, <2>4, <2>5 DEF EndTypes, TapTypes
<1> QED BY <1>1, <1>2, <1>3 DEF Tap!Next, Directions

LEMMA FwdTypesKept ==
    ASSUME CopyInv, FwdInv, EndTypes(FwdSends), FwdTypes, Fwd!Next
    PROVE  EndTypes(FwdSends)' /\ FwdTypes'
<1> USE DEF Fwd!relayVars, Fwd!socksVars
<1>1. ASSUME NEW d \in Directions, Fwd!PeerSends(d) \/ Fwd!PeerEnds(d), UNCHANGED Fwd!socksVars
      PROVE  EndTypes(FwdSends)' /\ FwdTypes'
  <2>1. fin' = fin /\ over' = over /\ room' = room
    BY <1>1 DEF Fwd!PeerSends, Fwd!PeerEnds
  <2>2. \A e \in Directions : sent'[e] <= FwdSends[e]
    <3>1. /\ \A e \in Directions : sent[e] \in Nat /\ sent[e] <= FwdSends[e]
          /\ DOMAIN sent = Directions
      BY DEF EndTypes, CopyInv, RelayTypes
    <3>2. \/ sent' = sent
          \/ sent[d] < FwdSends[d] /\ sent' = [sent EXCEPT ![d] = @ + 1]
      BY <1>1 DEF Fwd!PeerSends, Fwd!PeerEnds
    <3> QED BY <3>1, <3>2, Bounds
  <2> QED BY <1>1, <2>1, <2>2 DEF EndTypes, FwdTypes
<1>2. ASSUME Fwd!copyStep \/ Fwd!relayEvent, UNCHANGED Fwd!socksVars
      PROVE  EndTypes(FwdSends)' /\ FwdTypes'
  <2>1. sent' = sent /\ fin' \in [Directions -> BOOLEAN] /\ over' \in BOOLEAN
    BY <1>2 DEF Fwd!copyStep, Fwd!FirstDone, Fwd!Close, Fwd!CopyRead, Fwd!CopyWrite, Fwd!CopyEnds,
                Fwd!relayEvent, Fwd!PeerReads, Fwd!CopyFails, EndTypes, Directions, Fwd!Directions
  <2>2. room' \in [Directions -> BOOLEAN]
    BY <1>2 DEF Fwd!copyStep, Fwd!FirstDone, Fwd!CopyRead, Fwd!CopyWrite, Fwd!CopyEnds, Fwd!Fits,
                Fwd!relayEvent, Fwd!PeerReads, Fwd!CopyFails, EndTypes
  <2> QED BY <1>2, <2>1, <2>2 DEF EndTypes, FwdTypes
<1>3. ASSUME Fwd!handleStep \/ Fwd!SocketFails
      PROVE  EndTypes(FwdSends)' /\ FwdTypes'
  <2>1. sent' = sent /\ fin' \in [Directions -> BOOLEAN] /\ over' \in BOOLEAN
    BY <1>3 DEF Fwd!handleStep, Fwd!SocketFails, Fwd!Dial, Fwd!Write, Fwd!ReadMethod, Fwd!ReadHead, Fwd!ReadAddress,
                Fwd!ReadFull, Fwd!Refused, Fwd!Start, Fwd!Return, Fwd!Go, Fwd!Close,
                EndTypes, Directions, Fwd!Directions
  <2>2. pc' \in {"dial", "greet", "method", "request", "head", "address", "name",
                 "start", "refused", "relay", "returned"}
    BY <1>3 DEF Fwd!handleStep, Fwd!SocketFails, Fwd!Dial, Fwd!Write, Fwd!ReadMethod, Fwd!ReadHead, Fwd!ReadAddress,
                Fwd!ReadFull, Fwd!Refused, Fwd!Start, Fwd!Return, Fwd!Go
  <2>3. reply' = reply /\ domain' = domain
    BY <1>3 DEF Fwd!handleStep, Fwd!SocketFails, Fwd!Dial, Fwd!Write, Fwd!ReadMethod, Fwd!ReadHead, Fwd!ReadAddress,
                Fwd!ReadFull, Fwd!Refused, Fwd!Start
  <2>4. room' \in [Directions -> BOOLEAN]
    BY <1>3 DEF Fwd!handleStep, Fwd!SocketFails, Fwd!Dial, Fwd!Write, Fwd!ReadMethod, Fwd!ReadHead,
                Fwd!ReadAddress, Fwd!ReadFull, Fwd!Refused, Fwd!Start, Fwd!Fits, Fwd!Return, Fwd!Go,
                EndTypes
  <2> QED BY <2>1, <2>2, <2>3, <2>4 DEF EndTypes, FwdTypes
<1> QED BY <1>1, <1>2, <1>3 DEF Fwd!Next, Fwd!peer, Directions

\* Whatever the program, its variables keep their types: in particular a
\* connection of hello-tap is recorded once at most, and nothing is read that
\* was not sent (Relay, HelloTap, Tproxyfwd).
THEOREM TypesKept == Spec => []TypeOK
<1>1. Init => PartTypes
  <2> SUFFICES ASSUME Init PROVE PartTypes
    OBVIOUS
  <2>1. CASE TapInit
    <3>1. EndTypes(TapSends)
      <4>1. \A d \in Directions : sent[d] <= TapSends[d]
        BY <2>1, Bounds DEF TapInit, Tap!Init, Tap!RelayInit, Tap!Directions, Directions
      <4>2. /\ fin \in [Directions -> BOOLEAN] /\ over \in BOOLEAN
            /\ room \in [Directions -> BOOLEAN]
        BY <2>1 DEF TapInit, Tap!Init, Tap!RelayInit, Tap!Directions, Directions
      <4> QED BY <4>1, <4>2 DEF EndTypes
    <3>2. TapTypes
      <4>1. upstream \in BOOLEAN /\ deadline \in BOOLEAN
        BY <2>1 DEF TapInit, Tap!Init
      <4>2. records \in 0..1 /\ pc = "peek" /\ kind \in Tap!Kinds
        BY <2>1 DEF TapInit, Tap!Init
      <4> QED BY <4>1, <4>2 DEF TapTypes
    <3> QED BY <2>1, <3>1, <3>2 DEF TapInit, PartTypes
  <2>2. CASE FwdInit
    <3>1. EndTypes(FwdSends)
      <4>1. \A d \in Directions : sent[d] <= FwdSends[d]
        BY <2>2, Bounds DEF FwdInit, Fwd!Init, Fwd!RelayInit, Fwd!Directions, Directions
      <4>2. /\ fin \in [Directions -> BOOLEAN] /\ over \in BOOLEAN
            /\ room \in [Directions -> BOOLEAN]
        BY <2>2 DEF FwdInit, Fwd!Init, Fwd!RelayInit, Fwd!Directions, Directions
      <4> QED BY <4>1, <4>2 DEF EndTypes
    <3>2. FwdTypes
      BY <2>2 DEF FwdInit, Fwd!Init, FwdTypes
    <3> QED BY <2>2, <3>1, <3>2 DEF FwdInit, PartTypes
  <2>3. CASE ReqInit
    BY <2>3 DEF ReqInit, PartTypes
  <2> QED BY <2>1, <2>2, <2>3 DEF Init
<1>2. TunInv /\ PartTypes /\ [Next]_vars => PartTypes'
  <2> SUFFICES ASSUME TunInv, PartTypes, [Next]_vars PROVE PartTypes'
    OBVIOUS
  <2>1. CASE TapNext
    <3>1. program = "hello-tap" /\ program' = program /\ Tap!Next
      BY <2>1 DEF TapNext
    <3>2. EndTypes(TapSends)' /\ TapTypes'
      BY <3>1, TapTypesKept DEF TunInv, PartTypes
    <3> QED BY <3>1, <3>2 DEF PartTypes
  <2>2. CASE FwdNext
    <3>1. program = "tproxyfwd" /\ program' = program /\ Fwd!Next
      BY <2>2 DEF FwdNext
    <3>2. EndTypes(FwdSends)' /\ FwdTypes'
      BY <3>1, FwdTypesKept DEF TunInv, PartTypes
    <3> QED BY <3>1, <3>2 DEF PartTypes
  <2>3. CASE ReqNext
    BY <2>3 DEF ReqNext, PartTypes
  <2>4. CASE UNCHANGED vars
    BY <2>4 DEF vars, relayVars, tapOnly, fwdOnly, PartTypes, EndTypes, TapTypes, FwdTypes
  <2> QED BY <2>1, <2>2, <2>3, <2>4 DEF Next
<1>3. TunInv /\ PartTypes => TypeOK
  <2> SUFFICES ASSUME TunInv, PartTypes PROVE TypeOK
    OBVIOUS
  <2>1. CASE program = "hello-tap"
    <3>1. hello \in Seq(1..2)
      <4>1. hello \in {<<>>, <<1, 2>>}
        BY <2>1 DEF TunInv, TapInv
      <4>2. <<>> \in Seq(1..2) /\ <<1, 2>> \in Seq(1..2)
        OBVIOUS
      <4> QED BY <4>1, <4>2
    <3>2. Tap!RelayTypeOK
      BY <2>1 DEF TunInv, PartTypes, EndTypes, CopyInv, RelayTypes, Tap!RelayTypeOK, Tap!Directions,
                  Directions
    <3> QED BY <2>1, <3>1, <3>2 DEF PartTypes, TapTypes, Tap!TypeOK, TypeOK
  <2>2. CASE program = "tproxyfwd"
    <3>1. Fwd!RelayTypeOK
      BY <2>2 DEF TunInv, PartTypes, EndTypes, CopyInv, RelayTypes, Fwd!RelayTypeOK, Fwd!Directions,
                  Directions
    <3> QED BY <2>2, <3>1 DEF PartTypes, FwdTypes, Fwd!TypeOK, TypeOK
  <2>3. CASE program = "request"
    BY <2>3 DEF TunInv, TypeOK
  <2> QED BY <2>1, <2>2, <2>3 DEF PartTypes
<1> QED BY <1>1, <1>2, <1>3, TunInvHolds, PTL DEF Spec

==============================================================================
