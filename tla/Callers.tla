-------------------------------- MODULE Callers --------------------------------
(***************************************************************************)
(* The programs and the parts of the library that make calls: a behaviour  *)
(* is one of fetchd's pool, of one call on a connection of its own, of a   *)
(* forward of the gateway, or of sessions that walk a plan; the variables  *)
(* of the others keep their first values.                                  *)
(***************************************************************************)
EXTENDS FetchdPool

CONSTANTS
    DialTimeout, CallTimeout, Forever,     \* WireCall, in ticks
    Bodies,                                \* Gateway
    Sessions, Plan, Captured, SiteOf(_, _), Versions, Assets, MaxAnswers   \* PagePlan

\* Bounds are in ticks, and no bound is told from them.  A profile without a
\* plan is refused (plan.go:235-237).
ASSUME CallersAssumption ==
    /\ DialTimeout \in Nat /\ CallTimeout \in Nat
    /\ Forever \notin 0..DialTimeout /\ Forever \notin 0..CallTimeout
    /\ Len(Plan) \in Nat \ {0} /\ DOMAIN Plan = 1..Len(Plan)

VARIABLES
    program,
    kind, proxied, step, life, done, left, sock, watched, result, spent,   \* WireCall
    body, token, at, worker, gone, cancelled, fired, answer, closes, reply, \* Gateway
    cache, stepOf, asking, document, request, answers, read, asOf         \* PagePlan

wireOnly == <<kind, proxied, step, life, done, left, sock, watched, result, spent>>
gatewayOnly == <<body, token, at, worker, gone, cancelled, fired, answer, closes, reply>>
planOnly == <<cache, stepOf, asking, document, request, answers, read, asOf>>
callersVars == <<program, vars, wireOnly, gatewayOnly, planOnly>>

Wire == INSTANCE WireCall WITH Timeout <- CallTimeout
Zai == INSTANCE Gateway
Walk == INSTANCE PagePlan WITH step <- stepOf

------------------------------------------------------------------------------
FetchdIdle ==
    /\ clients = [k \in {} |-> 0] /\ clientOrder = <<>> /\ made = 0 /\ settings = <<>>
    /\ idle = <<>> /\ closing = <<>>
    /\ pc = [c \in Calls |-> "idle"]
    /\ req = [c \in Calls |-> CHOOSE r \in Requests : TRUE]
    /\ client = [c \in Calls |-> 0]
WireIdle ==
    /\ kind = "none" /\ proxied = FALSE /\ step = "none" /\ life = 0 /\ done = FALSE /\ left = 0
    /\ sock = "none" /\ watched = FALSE /\ result = "none" /\ spent = 0
GatewayIdle ==
    /\ body = [user |-> "absent", session |-> "used"] /\ token = "none"
    /\ at = "none" /\ worker = "none" /\ gone = FALSE /\ cancelled = FALSE /\ fired = FALSE
    /\ answer = "none" /\ closes = 0 /\ reply = 0
PlanIdle ==
    /\ cache = <<>> /\ stepOf = [s \in Sessions |-> 0] /\ asking = [s \in Sessions |-> FALSE]
    /\ document = <<>> /\ request = <<>> /\ answers = <<>> /\ read = <<>> /\ asOf = <<>>

\* The types of the program that runs.
CallersTypeOK ==
    \/ program = "fetchd" /\ TypeOK
    \/ program = "wire" /\ Wire!TypeOK
    \/ program = "gateway" /\ Zai!TypeOK
    \/ program = "plan" /\ Walk!TypeOK

CallersInit ==
    \/ program = "fetchd" /\ Init /\ WireIdle /\ GatewayIdle /\ PlanIdle
    \/ program = "wire" /\ Wire!Init /\ FetchdIdle /\ GatewayIdle /\ PlanIdle
    \/ program = "gateway" /\ Zai!Init /\ FetchdIdle /\ WireIdle /\ PlanIdle
    \/ program = "plan" /\ Walk!Init /\ FetchdIdle /\ WireIdle /\ GatewayIdle

FetchdNext == program = "fetchd" /\ Next /\ UNCHANGED <<program, wireOnly, gatewayOnly, planOnly>>
WireRest == program = "wire" /\ UNCHANGED <<program, vars, gatewayOnly, planOnly>>
GatewayNext ==
    program = "gateway" /\ Zai!Next /\ UNCHANGED <<program, vars, wireOnly, planOnly>>
PlanNext == program = "plan" /\ Walk!Next /\ UNCHANGED <<program, vars, wireOnly, gatewayOnly>>
CallersNext == FetchdNext \/ (Wire!Next /\ WireRest) \/ GatewayNext \/ PlanNext

\* The fairness of FetchdPool and of WireCall, each over its own actions.
Rest == UNCHANGED <<program, wireOnly, gatewayOnly, planOnly>>
FetchdFairness ==
    /\ \A c \in Calls : WF_callersVars((Do(c) \/ Done(c)) /\ Rest)
    /\ \A i \in 1..MaxClients : WF_callersVars(IdleConnTimeout(i) /\ Rest)
WireFairness ==
    /\ WF_callersVars(Wire!Tick /\ WireRest) /\ WF_callersVars(Wire!Expires /\ WireRest)
    /\ WF_callersVars(Wire!Watcher /\ WireRest)
    /\ WF_callersVars(Wire!DialMustFail /\ WireRest) /\ WF_callersVars(Wire!ExchangeMustFail /\ WireRest)
    /\ WF_callersVars(Wire!Decoded /\ Wire!ReadsNoMore /\ WireRest)
    /\ WF_callersVars(Wire!Drained /\ Wire!ReadsNoMore /\ WireRest)

CallersSpec == CallersInit /\ [][CallersNext]_callersVars
CallersFairSpec == CallersSpec /\ FetchdFairness /\ WireFairness

------------------------------------------------------------------------------
(* Properties, beside those of FetchdPool, which hold of its idle state.   *)

\* A call on a connection of its own lets go of it (http1.go, client.go:331-449).
NoSocketLeft == Wire!NoSocketLeft

\* A cancelled call ends, but for the write of its request (http1.go:109-114).
CancelledCallEnds == program = "wire" => Wire!CancelledCallEnds

\* The body of the upstream's answer is closed once, whoever wins the race of
\* the header timer, the answer and the caller (gateway main.go:54-106).
AnswerIsClosedOnce == program = "gateway" => Zai!AnswerIsClosedOnce

\* Walks over one cache send the validators and the relation of the page they
\* are at (plan.go:183-283).
AsksAsABrowser == program = "plan" => Walk!AsksAsABrowser

==============================================================================
