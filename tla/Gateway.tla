------------------------------- MODULE Gateway -------------------------------
(***************************************************************************)
(* One forward of the gateway examples/zai-start-gateway/main.go: the      *)
(* /forward handler, awaitResponseHeaders and the goroutine in it that     *)
(* makes the call.  client.Do is external: it may answer, or fail, at any  *)
(* time, also after nobody waits for it any more; a cancelled context may  *)
(* make it fail.                                                           *)
(*                                                                         *)
(* The goroutine hands over its outcome on a channel without a buffer, so  *)
(* the outcome has one owner at every moment: the goroutine, the handler,  *)
(* or nobody, when its body is closed.                                     *)
(***************************************************************************)
EXTENDS Naturals

CONSTANTS Bodies   \* the captured bodies that are forwarded

VARIABLES
    body,       \* the body of the envelope, and then the one that is sent
    token,      \* whose token it is: "desktop", "stored" or "none"
    at,         \* the handler
    worker,     \* the goroutine
    gone,       \* the caller of the gateway has left: r.Context() is done
    cancelled,  \* upstreamCtx is done
    fired,      \* the timer for the header
    answer,     \* history: what client.Do returned
    closes,     \* history: how often the body of the answer was closed
    reply       \* the status of the gateway's own answer, 0 before it has one
vars == <<body, token, at, worker, gone, cancelled, fired, answer, closes, reply>>

TypeOK ==
    /\ at \in {"envelope", "token", "request", "await", "stream", "closing", "returned"}
    /\ worker \in {"none", "call", "offer", "over"}
    /\ gone \in BOOLEAN /\ cancelled \in BOOLEAN /\ fired \in BOOLEAN
    /\ answer \in {"none", "response", "error"}
    /\ closes \in Nat
    /\ reply \in {0, 200, 400, 500, 502, 504}

Init ==
    /\ body \in Bodies /\ token = "none"
    /\ at = "envelope" /\ worker = "none"
    /\ gone = FALSE /\ cancelled = FALSE /\ fired = FALSE
    /\ answer = "none" /\ closes = 0 /\ reply = 0

Call == UNCHANGED <<worker, cancelled, fired, answer, closes>>

Fails(status) == at' = "returned" /\ reply' = status

------------------------------------------------------------------------------
(* The request.                                                            *)

\* The token of the desktop is the newest of the log's tail that has both
\* headers, and counts for half an hour; logs is <<age, usable>> pairs.
harvestJWTs(entries) ==
    LET usable == {e \in entries : e.usable}
    IN  \E e \in usable : e.age <= 30 /\ \A f \in usable : e.age <= f.age

\* A body that has no session to be renewed goes out as it is; a user_id that
\* is a string is opened and closed again.  The string "null" makes a nil map,
\* and the assignment panics.
withFreshSessionID(b) ==
    IF b.user \in {"text", "object"} THEN [b EXCEPT !.session = "fresh"] ELSE b
Panics(b) == b.user = "null text"

\* The token of the CLI's file: there may be no such file, no entry in it, or
\* one that does not open under this machine's key.
readZcodeJWT == {"stored", "none"}

Envelope ==
    /\ at = "envelope"
    /\ \/ at' = "token" /\ UNCHANGED reply
       \/ Fails(400)
    /\ Call /\ UNCHANGED <<body, token, gone>>

\* The desktop's token, or that of the file.
Token(entries) ==
    /\ at = "token"
    /\ IF harvestJWTs(entries)
         THEN token' = "desktop" /\ at' = "request" /\ UNCHANGED reply
         ELSE /\ token' \in readZcodeJWT
              /\ IF token' = "none" THEN Fails(500) ELSE at' = "request" /\ UNCHANGED reply
    /\ Call /\ UNCHANGED <<body, gone>>

\* The client, the body and its ids, the request; the call starts.  A panic
\* ends the handler without an answer.
Forward ==
    /\ at = "request"
    /\ \/ /\ ~Panics(body)
          /\ body' = withFreshSessionID(body)
          /\ worker' = "call" /\ cancelled' = gone /\ at' = "await"
          /\ UNCHANGED reply
       \/ /\ Panics(body)
          /\ at' = "returned" /\ UNCHANGED <<body, worker, cancelled, reply>>
       \/ /\ \E status \in {400, 500} : Fails(status)
          /\ UNCHANGED <<body, worker, cancelled>>
    /\ UNCHANGED <<token, gone, fired, answer, closes>>

\* The caller goes away, which cancels the contexts of its request.
CallerLeaves ==
    /\ ~gone /\ at # "returned" /\ gone' = TRUE
    /\ cancelled' = (cancelled \/ worker # "none")
    /\ UNCHANGED <<body, token, at, worker, fired, answer, closes, reply>>

------------------------------------------------------------------------------
(* awaitResponseHeaders.                                                   *)

DoReturns ==
    /\ worker = "call"
    /\ worker' = "offer" /\ answer' \in {"response", "error"}
    /\ UNCHANGED <<body, token, at, gone, cancelled, fired, closes, reply>>

\* http.Error, unless the caller has left.
Refuse(status) == at' = "returned" /\ reply' = IF gone THEN reply ELSE status

\* The handler receives the outcome, and may find its context done.
Receive ==
    /\ at = "await" /\ worker = "offer"
    /\ worker' = "over"
    /\ \/ /\ ~cancelled /\ answer = "response"
          /\ at' = "stream" /\ reply' = 200 /\ UNCHANGED <<cancelled, closes>>
       \/ /\ cancelled \/ answer = "error"
          /\ closes' = IF answer = "response" THEN closes + 1 ELSE closes
          /\ cancelled' = TRUE /\ Refuse(502)
    /\ UNCHANGED <<body, token, gone, fired, answer>>

\* Mutated form of GiveUp: the goroutine is left with the late answer.
GiveUpSilently ==
    /\ worker = "offer" /\ cancelled
    /\ worker' = "over"
    /\ UNCHANGED <<body, token, at, gone, cancelled, fired, answer, closes, reply>>

\* Nobody receives: the goroutine closes what it has.
GiveUp ==
    /\ worker = "offer" /\ cancelled
    /\ worker' = "over"
    /\ closes' = IF answer = "response" THEN closes + 1 ELSE closes
    /\ UNCHANGED <<body, token, at, gone, cancelled, fired, answer, reply>>

HeaderTimeout ==
    /\ at = "await" /\ ~fired /\ fired' = TRUE
    /\ UNCHANGED <<body, token, at, worker, gone, cancelled, answer, closes, reply>>

\* The select takes the timer, or the context, also when an outcome is there.
TimedOut ==
    /\ at = "await" /\ fired
    /\ cancelled' = TRUE /\ Refuse(504)
    /\ UNCHANGED <<body, token, worker, gone, fired, answer, closes>>

SeesCancel ==
    /\ at = "await" /\ cancelled
    /\ Refuse(502)
    /\ UNCHANGED <<body, token, worker, gone, cancelled, fired, answer, closes>>

------------------------------------------------------------------------------
\* The body ends, or reading or writing it fails, as it does for a caller that
\* has left; then the deferred calls, the body's Close before the cancel.
StreamEnds ==
    /\ at = "stream" /\ at' = "closing"
    /\ closes' = closes + 1
    /\ UNCHANGED <<body, token, worker, gone, cancelled, fired, answer, reply>>
Return ==
    /\ at = "closing" /\ at' = "returned" /\ cancelled' = TRUE
    /\ UNCHANGED <<body, token, worker, gone, fired, answer, closes, reply>>

Entry == [age : {10, 40}, usable : BOOLEAN]
Next ==
    \/ Envelope \/ (\E entries \in SUBSET Entry : Token(entries)) \/ Forward
    \/ CallerLeaves \/ DoReturns \/ Receive \/ GiveUp
    \/ HeaderTimeout \/ TimedOut \/ SeesCancel \/ StreamEnds \/ Return

Spec == Init /\ [][Next]_vars

------------------------------------------------------------------------------
(* Properties.                                                             *)

\* Whoever wins the race of the answer, the timer and the two contexts, the
\* body of an answer is closed once and only once, and no goroutine stays with
\* an answer in its hands (main.go:55-57).
AnswerIsClosedOnce ==
    /\ closes <= (IF answer = "response" THEN 1 ELSE 0)
    /\ at = "returned" /\ worker \in {"none", "over"} =>
         closes = IF answer = "response" THEN 1 ELSE 0
    /\ at = "returned" => worker = "none" \/ cancelled

\* What the comment of withFreshSessionID says (main.go:222-226): what cannot
\* be renewed passes through.
EveryBodyPasses == at = "returned" => ~(Panics(body) /\ reply = 0 /\ ~gone)

==============================================================================
