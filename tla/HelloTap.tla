------------------------------- MODULE HelloTap -------------------------------
(***************************************************************************)
(* One connection of cmd/hello-tap: from the first byte through the        *)
(* CONNECT exchange or the transparent mode, the reading of the            *)
(* ClientHello and its record, to the relay.                               *)
(*                                                                         *)
(* A client's stream (direction "up") begins after the proxy request, if   *)
(* there is one.  Of a TLS stream, chunk 1 is the header of the first      *)
(* record and chunk 2 its body; of any other, chunk 1 is the five bytes    *)
(* that readClientHello takes for a header.                                *)
(***************************************************************************)
EXTENDS Relay

VARIABLES
    pc,        \* where handle is
    kind,      \* what the client speaks
    upstream,  \* the upstream is dialed
    hello,     \* the chunks of the ClientHello that was read
    deadline,  \* the 60 s deadline on the client's socket is armed
    records    \* how many records have been written for the connection

tapVars == <<pc, kind, upstream, hello, deadline, records>>
vars == <<relayVars, tapVars>>

Kinds == {"connect tls", "connect plain", "tls", "other"}
Connects == {"connect tls", "connect plain"}
IsTLS == kind \in {"connect tls", "tls"}

TypeOK ==
    /\ RelayTypeOK
    /\ pc \in {"peek", "reply", "dial", "header", "body", "record", "forward",
               "relay", "returned"}
    /\ kind \in Kinds
    /\ upstream \in BOOLEAN
    /\ hello \in Seq(1..2)
    /\ deadline \in BOOLEAN
    /\ records \in 0..1

Init ==
    /\ RelayInit
    /\ pc = "peek"
    /\ kind \in Kinds
    /\ upstream = FALSE
    /\ hello = <<>>
    /\ deadline = TRUE
    /\ records = 0

Return == pc' = "returned" /\ Close
         /\ UNCHANGED <<sent, ended, taken, buf, wrote, room, copier>>
Go(where) == pc' = where /\ UNCHANGED relayVars

\* The first byte, and the proxy request where there is one: a request other
\* than CONNECT goes the way of a bare handshake.  A client that leaves before
\* ends the connection.
Peek ==
    /\ pc = "peek"
    /\ \/ kind \in Connects /\ Go("reply")
       \/ kind = "other" /\ Go("header")
       \/ kind = "tls" /\ sent["up"] > 0 /\ Go("header")
       \/ Return
    /\ UNCHANGED <<kind, upstream, hello, deadline, records>>

\* "200 Connection Established", and the deadline is cleared.
Reply ==
    /\ pc = "reply"
    /\ Fits("down")
    /\ pc' = "dial" /\ deadline' = FALSE
    /\ UNCHANGED <<sent, ended, taken, buf, wrote, fin, copier, over>>
    /\ UNCHANGED <<kind, upstream, hello, records>>

\* In the CONNECT mode the dial comes before the hello is read, and its
\* failure is recorded; in the transparent mode it comes after the record.
Dial ==
    /\ pc = "dial"
    /\ \/ /\ upstream' = TRUE
          /\ Go(IF kind \in Connects THEN "header" ELSE "forward")
          /\ UNCHANGED records
       \/ /\ Return
          /\ records' = IF kind \in Connects THEN records + 1 ELSE records
          /\ UNCHANGED upstream
    /\ UNCHANGED <<kind, hello, deadline>>

\* readClientHello fails: a tunnel is relayed without a record.
NoHello == IF kind \in Connects THEN pc' = "forward" /\ UNCHANGED <<fin, over>>
                                ELSE pc' = "returned" /\ Close

\* The header is read, and is that of a handshake or not.
ReadHeader ==
    /\ pc = "header"
    /\ \/ /\ sent["up"] > taken["up"]
          /\ taken' = [taken EXCEPT !["up"] = @ + 1]
          /\ IF IsTLS THEN pc' = "body" /\ UNCHANGED <<fin, over>> ELSE NoHello
       \/ /\ sent["up"] = taken["up"] /\ ended["up"]
          /\ NoHello
          /\ UNCHANGED taken
    /\ UNCHANGED <<sent, ended, buf, wrote, room, copier, kind, upstream, hello, deadline, records>>

\* Mutated form of ReadBody: the end of the stream is not noticed.
ReadBodyWaits ==
    /\ pc = "body"
    /\ sent["up"] > taken["up"]
    /\ taken' = [taken EXCEPT !["up"] = @ + 1]
    /\ hello' = <<1, 2>>
    /\ pc' = "record"
    /\ UNCHANGED <<sent, ended, buf, wrote, room, fin, copier, over, kind, upstream, deadline,
                   records>>

\* Mutated form of ReadBody: the header is not kept with the body.
ReadBodyAlone ==
    /\ pc = "body"
    /\ \/ /\ sent["up"] > taken["up"]
          /\ taken' = [taken EXCEPT !["up"] = @ + 1]
          /\ hello' = <<2>>
          /\ pc' = "record"
          /\ UNCHANGED <<fin, over>>
       \/ /\ sent["up"] = taken["up"] /\ ended["up"]
          /\ NoHello
          /\ UNCHANGED <<taken, hello>>
    /\ UNCHANGED <<sent, ended, buf, wrote, room, copier, kind, upstream, deadline, records>>

\* The body of the record is read, or the stream ends inside it.
ReadBody ==
    /\ pc = "body"
    /\ \/ /\ sent["up"] > taken["up"]
          /\ taken' = [taken EXCEPT !["up"] = @ + 1]
          /\ hello' = <<1, 2>>
          /\ pc' = "record"
          /\ UNCHANGED <<fin, over>>
       \/ /\ sent["up"] = taken["up"] /\ ended["up"]
          /\ NoHello
          /\ UNCHANGED <<taken, hello>>
    /\ UNCHANGED <<sent, ended, buf, wrote, room, copier, kind, upstream, deadline, records>>

\* The record is written, parsed or not.  Without a server name in the hello
\* the transparent mode does not know where to go.
Record ==
    /\ pc = "record"
    /\ records' = records + 1
    /\ \/ kind \in Connects /\ Go("forward")
       \/ kind \notin Connects /\ Go("dial")
       \/ kind \notin Connects /\ Return
    /\ UNCHANGED <<kind, upstream, hello, deadline>>

\* The bytes already read go upstream, and the copiers start.
Forward ==
    /\ pc = "forward"
    /\ pc' = "relay"
    /\ IF hello # <<>> THEN Fits("up") ELSE UNCHANGED room
    /\ wrote' = [wrote EXCEPT !["up"] = hello]
    /\ StartCopiers
    /\ UNCHANGED <<sent, ended, taken, buf, fin, over>>
    /\ UNCHANGED <<kind, upstream, hello, deadline, records>>

\* A write of the handler fails, or a read of the ClientHello does.
SocketFails ==
    /\ \/ pc \in {"reply", "forward"} /\ Return
       \/ /\ pc \in {"header", "body"}
          /\ NoHello
          /\ UNCHANGED <<sent, ended, taken, buf, wrote, room, copier>>
    /\ UNCHANGED <<kind, upstream, hello, deadline, records>>

\* Sixty seconds after the connection was accepted, when the handler is at the
\* client's socket.  In the relay the same deadline is a CopyFails.
DeadlinePasses ==
    /\ deadline /\ pc \in {"peek", "reply", "header", "body"}
    /\ deadline' = FALSE
    /\ Return
    /\ UNCHANGED <<kind, upstream, hello, records>>

handleStep ==
    Peek \/ Reply \/ Dial \/ ReadHeader \/ ReadBody \/ Record \/ Forward

Next ==
    \/ peer("up") /\ UNCHANGED tapVars
    \/ upstream /\ peer("down") /\ UNCHANGED tapVars
    \/ relayEvent /\ UNCHANGED tapVars
    \/ copyStep /\ UNCHANGED tapVars
    \/ handleStep
    \/ SocketFails
    \/ DeadlinePasses

Spec == Init /\ [][Next]_vars

\* The goroutines run, and the dials come to an end.  Nothing makes a peer
\* read, send or end.
FairSpec == Spec /\ WF_vars(handleStep) /\ WF_vars(copyStep /\ UNCHANGED tapVars)

------------------------------------------------------------------------------
(* Properties.                                                             *)

\* Whatever was consumed to read the ClientHello is forwarded before the rest:
\* the upstream receives a TLS client's stream from its first byte.
HelloIsForwarded == hello # <<>> => Gapless("up", 0)

\* A TLS connection is not relayed without a record, and has one at most.
RecordedFirst == copier["up"] # "off" /\ hello # <<>> => records = 1

\* When a closing of both sockets cuts one of the streams it leaves the other
\* whole, the ClientHello included.
OneStreamArrives == hello # <<>> => OneArrives([d \in Directions |-> 0])

\* When the client ends its stream the handler returns, whatever it was doing,
\* unless it is held in a write to a peer that does not read: nothing but the
\* 60 s deadline of the transparent mode would end that.
ReturnsAfterClient ==
    (\A d \in Directions : KeepsReading(d)) => (ended["up"] ~> over)

------------------------------------------------------------------------------
(* What the documentation says, which the code does not do.                *)

\* cmd/hello-tap/main.go:2, "forwards the traffic untouched".
Untouched == Gapless("up", 0) /\ Gapless("down", 0)

\* cmd/hello-tap/main.go:7, "the app keeps working exactly as before", also
\* when it is the server that speaks first.
ServerIsHeard ==
    (upstream /\ sent["down"] > 0 /\ ~over) ~> (Len(wrote["down"]) > 0 \/ over)

==============================================================================
