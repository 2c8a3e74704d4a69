------------------------------ MODULE WireCall ------------------------------
(***************************************************************************)
(* One call on a connection of its own: wireRoundTripper of mimic/http1.go *)
(* under a program that asks once (examples/minimax-agent-gateway), or the *)
(* dial of DialWebSocket, with what bounds each phase: dialProfileTLS, the *)
(* CONNECT of a proxy, the handshake, the exchange.                        *)
(*                                                                         *)
(* A bound is the number of ticks that are left of it.  The server and the *)
(* proxy may answer, refuse or stall in every phase.  Closing a body first *)
(* reads it to its end, as net/http does.  The upgrade of a WebSocket is   *)
(* external: a write and a read under the deadline of its context.         *)
(***************************************************************************)
EXTENDS Naturals

CONSTANTS
    DialTimeout,   \* o.dialTimeout, in ticks
    Timeout,       \* the time a caller gives its context
    Forever        \* no bound

VARIABLES
    kind,      \* "http" or "ws"
    proxied,   \* through a CONNECT proxy
    step,      \* where the call is
    life,      \* what is left of the context's time
    done,      \* the context is cancelled, or its time is over
    left,      \* what is left of the dialer's or the socket's deadline
    sock,      \* the connection
    watched,   \* context.AfterFunc is set
    result,    \* what the caller got
    spent      \* ticks since the dial began
vars == <<kind, proxied, step, life, done, left, sock, watched, result, spent>>

Ticks(n) == 0..n \cup {Forever}
Dialing == {"dial", "connect", "tls"}

TypeOK ==
    /\ kind \in {"http", "ws"} /\ proxied \in BOOLEAN
    /\ step \in Dialing \cup {"idle", "write", "read", "decode", "upgrade", "body", "closing", "over"}
    /\ {life, left} \subseteq Ticks(Timeout) \cup Ticks(DialTimeout)
    /\ done \in BOOLEAN /\ watched \in BOOLEAN
    /\ sock \in {"none", "open", "closed"}
    /\ result \in {"none", "error", "response", "conn"}
    /\ spent \in 0..3 * DialTimeout

Init ==
    /\ kind \in {"http", "ws"} /\ proxied \in BOOLEAN
    /\ step = "idle" /\ done = FALSE
    /\ life \in {Timeout, Forever} /\ left = Forever
    /\ sock = "none" /\ watched = FALSE /\ result = "none" /\ spent = 0

Constant == UNCHANGED <<kind, proxied>>
Context == UNCHANGED <<life, done>>

\* The call ends without a connection.
Fail ==
    /\ step' = "over" /\ result' = "error"
    /\ sock' = IF sock = "open" THEN "closed" ELSE sock
    /\ watched' = FALSE /\ left' = Forever

------------------------------------------------------------------------------
(* Time, and the context.                                                  *)

Less(t) == IF t = Forever THEN t ELSE t - 1

\* A bound that is over is noticed before more time passes.
Tick ==
    /\ step \notin {"idle", "over"}
    /\ left # 0 /\ (life # 0 \/ done)
    /\ left # Forever \/ (life # Forever /\ ~done)
    /\ left' = Less(left)
    /\ life' = IF done THEN life ELSE Less(life)
    /\ spent' = IF step \in Dialing THEN spent + 1 ELSE spent
    /\ Constant /\ UNCHANGED <<step, done, sock, watched, result>>

Cancel ==
    /\ ~done /\ step \notin {"idle", "over"} /\ done' = TRUE
    /\ Constant /\ UNCHANGED <<step, life, left, sock, watched, result, spent>>

Expires ==
    /\ ~done /\ life = 0 /\ step \notin {"idle", "over"} /\ done' = TRUE
    /\ Constant /\ UNCHANGED <<step, life, left, sock, watched, result, spent>>

------------------------------------------------------------------------------
(* The dial.                                                               *)

\* Reading the caller's body fails, or it does not.
drainBody == {"read", "error"}

\* The body is drained; a WebSocket dial has none, and bounds its context.
Begin ==
    /\ step = "idle"
    /\ \E body \in drainBody :
         \/ /\ body = "read"
            /\ step' = "dial" /\ left' = DialTimeout
            /\ life' = IF kind = "ws" /\ (life = Forever \/ life > DialTimeout)
                         THEN DialTimeout ELSE life
            /\ UNCHANGED <<sock, watched, result>>
         \/ body = "error" /\ kind = "http" /\ Fail /\ UNCHANGED life
    /\ Constant /\ UNCHANGED <<done, spent>>

\* dialUnderProxy, up to the connection; what follows has a deadline of its own.
Dialed ==
    /\ step = "dial"
    /\ sock' = "open" /\ left' = DialTimeout
    /\ step' = IF proxied THEN "connect" ELSE "tls"
    /\ Constant /\ Context /\ UNCHANGED <<watched, result, spent>>

\* The proxy says 200; the deadline is taken off and set again.
Tunnelled ==
    /\ step = "connect"
    /\ step' = "tls" /\ left' = DialTimeout
    /\ Constant /\ Context /\ UNCHANGED <<sock, watched, result, spent>>

\* The deadline is taken off; a WebSocket's dialer sets that of its context.
Handshaken ==
    /\ step = "tls"
    /\ step' = IF kind = "ws" THEN "upgrade" ELSE "write"
    /\ left' = IF kind = "ws" THEN life ELSE Forever
    /\ Constant /\ Context /\ UNCHANGED <<sock, watched, result, spent>>

\* Whatever fails in the dial closes the socket.  The context ends the TCP
\* dial and the handshake, and not the CONNECT.
DialFails ==
    /\ step \in Dialing
    /\ Fail /\ Constant /\ Context /\ UNCHANGED spent
DialMustFail == DialFails /\ (left = 0 \/ (done /\ step # "connect"))

------------------------------------------------------------------------------
(* The exchange.                                                           *)

\* Mutated form of Written: only the deadline is set.
WrittenUnwatched ==
    /\ step = "write"
    /\ step' = "read" /\ left' = life
    /\ Constant /\ Context /\ UNCHANGED <<sock, watched, result, spent>>

\* The request is out; only now are the deadline and the watch set.
Written ==
    /\ step = "write"
    /\ step' = "read" /\ left' = life /\ watched' = TRUE
    /\ Constant /\ Context /\ UNCHANGED <<sock, result, spent>>

\* AfterFunc: the watcher closes the connection.
Watcher ==
    /\ watched /\ done
    /\ watched' = FALSE /\ sock' = "closed"
    /\ Constant /\ Context /\ UNCHANGED <<step, left, result, spent>>

\* The header of the answer; a gzip reader reads on before the call returns.
Answered ==
    /\ step = "read" /\ sock = "open"
    /\ \/ step' = "body" /\ result' = "response"
       \/ step' = "decode" /\ UNCHANGED result
    /\ Constant /\ Context /\ UNCHANGED <<left, sock, watched, spent>>

\* With an error too, the body is what the caller gets.
Decoded ==
    /\ step = "decode"
    /\ step' = "body" /\ result' = "response"
    /\ Constant /\ Context /\ UNCHANGED <<left, sock, watched, spent>>
ReadsNoMore == left = 0 \/ sock = "closed"

ExchangeFails ==
    /\ step \in {"write", "read", "upgrade"}
    /\ Fail /\ Constant /\ Context /\ UNCHANGED spent
ExchangeMustFail == ExchangeFails /\ ReadsNoMore

Upgraded ==
    /\ step = "upgrade" /\ left # 0
    /\ step' = "over" /\ result' = "conn" /\ left' = Forever
    /\ Constant /\ Context /\ UNCHANGED <<sock, watched, spent>>

\* The deferred Close of the caller.
CloseBody ==
    /\ step = "body" /\ step' = "closing"
    /\ Constant /\ Context /\ UNCHANGED <<left, sock, watched, result, spent>>

\* Mutated form of Drained: the decompressor is closed, and not what it reads.
DrainedOuter ==
    /\ step = "closing"
    /\ step' = "over" /\ left' = Forever
    /\ Constant /\ Context /\ UNCHANGED <<sock, watched, result, spent>>

\* wireBody.Close: the rest of the body, the watch, the connection.
Drained ==
    /\ step = "closing"
    /\ step' = "over" /\ sock' = "closed" /\ watched' = FALSE /\ left' = Forever
    /\ Constant /\ Context /\ UNCHANGED <<result, spent>>

Next ==
    \/ Tick \/ Cancel \/ Expires
    \/ Begin \/ Dialed \/ Tunnelled \/ Handshaken \/ DialFails
    \/ Written \/ Watcher \/ Answered \/ Decoded \/ ExchangeFails \/ Upgraded
    \/ CloseBody \/ Drained

\* Time passes, and what has to end ends; nothing makes a server answer.
Fairness ==
    /\ WF_vars(Tick) /\ WF_vars(Expires) /\ WF_vars(Watcher)
    /\ WF_vars(DialMustFail) /\ WF_vars(ExchangeMustFail)
    /\ WF_vars(Decoded /\ ReadsNoMore) /\ WF_vars(Drained /\ ReadsNoMore)

Spec == Init /\ [][Next]_vars /\ Fairness

------------------------------------------------------------------------------
(* Properties.                                                             *)

\* A call that is over has let go of its connection and of its context, unless
\* it was to open a connection and did.
NoSocketLeft == step = "over" => (sock = "open" <=> result = "conn") /\ ~watched

\* A cancelled call, or one whose time is over, ends in every phase but the
\* write (http1.go:109-114); a body it has returned reads an error.
CancelledCallEnds ==
    done ~> \/ step \in {"over", "write"}
            \/ step = "body" /\ sock = "closed"

\* A dial takes three of its bounds at most, one for each phase that arms it
\* anew (client.go:331-449).
ThreeDialWindows == spent <= 3 * DialTimeout

\* What the comment of RoundTrip says (http1.go:109): a cancelled context ends
\* the call of a server that stalls.
CancelledWriteEnds == done ~> step # "write"

\* What the comment of WithDialTimeout says (client.go:119): one bound for the
\* TCP dial, the CONNECT and the handshake.
OneDialWindow == spent <= DialTimeout

==============================================================================
