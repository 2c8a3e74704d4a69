------------------------------- MODULE PagePlan -------------------------------
(***************************************************************************)
(* Sessions that walk a resource plan (mimic/plan.go) over one PageCache:  *)
(* the validators of a page are read before a request and stored after it, *)
(* under a lock that is not held in between.                               *)
(*                                                                         *)
(* The server is external: the version of a page changes at any time, and  *)
(* an answer carries the validators of the version it shows, or fewer, as  *)
(* a 304 may; the assets of fpd never change.  Where a request is          *)
(* redirected, the header of the last answer counts.                       *)
(***************************************************************************)
EXTENDS Integers, Sequences

CONSTANTS
    Sessions,     \* the goroutines that run the plan
    Plan,         \* the steps: [url, type, referer, given]
    Captured,     \* the Sec-Fetch-Site of the captured navigation
    SiteOf(_, _), \* headless.SecFetchSite: the relation of two pages
    Versions,     \* the validators an answer may carry
    Assets,       \* the pages that are fpd's pixel
    MaxAnswers    \* bound: how often the server answers

Nowhere == "nowhere"
Nothing == ""
NoValidators == [etag |-> 0, lastMod |-> 0]
Subresources == {"image", "xhr", "font", "style", "script"}
Urls == {Plan[i].url : i \in DOMAIN Plan}

VARIABLES
    cache,     \* PageCache.entries
    step,      \* the step a session is at, or 0 when it is not walking
    asking,    \* it waits for the answer
    document,  \* documentURL
    request,   \* the request it makes
    answers,   \* history: what the server answered, in its order
    read,      \* history: the answers that were read, in the order of reading
    asOf       \* history: how many were read when a session asked
vars == <<cache, step, asking, document, request, answers, read, asOf>>

NoRequest == [url |-> Nowhere, navigation |-> FALSE, referer |-> Nowhere,
              site |-> Nothing, validators |-> NoValidators]

TypeOK ==
    /\ DOMAIN cache \subseteq Urls
    /\ step \in [Sessions -> 0..Len(Plan)] /\ asking \in [Sessions -> BOOLEAN]
    /\ document \in [Sessions -> Urls \cup {Nowhere}]
    /\ asOf \in [Sessions -> 0..Len(read)]

Init ==
    /\ cache = [u \in {} |-> NoValidators]
    /\ step = [s \in Sessions |-> 0] /\ asking = [s \in Sessions |-> FALSE]
    /\ document = [s \in Sessions |-> Nowhere]
    /\ request = [s \in Sessions |-> NoRequest]
    /\ answers = <<>> /\ read = <<>> /\ asOf = [s \in Sessions |-> 0]

------------------------------------------------------------------------------
(* A request.                                                              *)

\* A typed or captured navigation keeps its value.
stepSecFetchSite(initiator, target, captured) ==
    IF initiator = Nowhere /\ captured # Nothing THEN captured ELSE SiteOf(initiator, target)

\* The referrer of a step, or the document it is part of.
Initiator(s) ==
    LET now == Plan[step[s]]
    IN IF now.referer # Nowhere THEN now.referer
       ELSE IF now.type = "document" THEN Nowhere ELSE document[s]

\* Profile.Request: the captured headers, which are those of a navigation.
Request(url) == [NoRequest EXCEPT !.url = url, !.navigation = TRUE, !.site = Captured]

\* They are reshaped for what is not one; then come those the plan gives.
stepRequest(now, initiator) ==
    LET page == now.type = "document"
        computed == stepSecFetchSite(initiator, now.url, IF page THEN Captured ELSE Nothing)
    IN [Request(now.url) EXCEPT !.navigation = page, !.referer = now.referer,
                                !.site = IF now.given = Nothing THEN computed ELSE now.given]

applyValidators(r) ==
    IF r.url \in DOMAIN cache THEN [r EXCEPT !.validators = cache[r.url]] ELSE r

Entry(u, v) == [w \in DOMAIN cache \cup {u} |-> IF w = u THEN v ELSE cache[w]]

\* Mutated form of Store: an answer without validators leaves the entry.
StoreAnyway(u, v) == IF v = NoValidators THEN cache ELSE Entry(u, v)

Store(u, v) ==
    IF v = NoValidators THEN [w \in DOMAIN cache \ {u} |-> cache[w]] ELSE Entry(u, v)

------------------------------------------------------------------------------
(* Actions.                                                                *)

\* RunPlanSession begins, with no document.
Begin(s) ==
    /\ step[s] = 0
    /\ step' = [step EXCEPT ![s] = 1]
    /\ document' = [document EXCEPT ![s] = Nowhere]
    /\ UNCHANGED <<cache, asking, request, answers, read, asOf>>

End(s) == step' = [step EXCEPT ![s] = 0]

\* A step, after its delay: the request is made, validators are added, and it
\* goes out.
Ask(s) ==
    /\ step[s] # 0 /\ ~asking[s]
    /\ LET now == Plan[step[s]]
       IN /\ now.type \in Subresources \cup {"document"}
          /\ request' = [request EXCEPT ![s] = applyValidators(stepRequest(now, Initiator(s)))]
          /\ document' = [document EXCEPT ![s] = IF now.type = "document" THEN now.url ELSE @]
          /\ asking' = [asking EXCEPT ![s] = TRUE]
          /\ asOf' = [asOf EXCEPT ![s] = Len(read)]
    /\ UNCHANGED <<cache, step, answers, read>>

\* A type the library does not know ends the walk.
BadStep(s) ==
    /\ step[s] # 0 /\ ~asking[s]
    /\ Plan[step[s]].type \notin Subresources \cup {"document"}
    /\ End(s) /\ UNCHANGED <<cache, asking, document, request, answers, read, asOf>>

\* fpd's pixel carries both validators, always the same, with a 200 as with a
\* 304.
serveAsset == [etag |-> 1, lastMod |-> 1]
Carried(u) == IF u \in Assets THEN {serveAsset} ELSE Versions

OnItsWay(s, i) == answers[i].to = s /\ answers[i].state = "due"

\* The server has answered s, and the answer is still on its way.
Answer(s, v) ==
    /\ asking[s] /\ v \in Carried(request[s].url) /\ ~\E i \in DOMAIN answers : OnItsWay(s, i)
    /\ Len(answers) < MaxAnswers
    /\ answers' = Append(answers, [to |-> s, url |-> request[s].url, validators |-> v, state |-> "due"])
    /\ UNCHANGED <<cache, step, asking, document, request, read, asOf>>

\* It arrives: the validators are stored and the walk goes on.
Receive(s, i) ==
    /\ OnItsWay(s, i)
    /\ request' = [request EXCEPT ![s] = NoRequest]
    /\ cache' = Store(answers[i].url, answers[i].validators)
    /\ answers' = [answers EXCEPT ![i].state = "read"]
    /\ read' = Append(read, [url |-> answers[i].url, validators |-> answers[i].validators,
                             nr |-> i, since |-> asOf[s]])
    /\ asking' = [asking EXCEPT ![s] = FALSE]
    /\ step' = [step EXCEPT ![s] = IF @ = Len(Plan) THEN 0 ELSE @ + 1]
    /\ UNCHANGED <<document, asOf>>

\* The call fails, with or without an answer on its way: the walk ends.
Fails(s) ==
    /\ asking[s]
    /\ asking' = [asking EXCEPT ![s] = FALSE] /\ End(s)
    /\ answers' = [i \in DOMAIN answers |->
                     IF OnItsWay(s, i) THEN [answers[i] EXCEPT !.state = "lost"] ELSE answers[i]]
    /\ request' = [request EXCEPT ![s] = NoRequest]
    /\ UNCHANGED <<cache, document, read, asOf>>

Next ==
    \E s \in Sessions :
        \/ Begin(s) \/ Ask(s) \/ BadStep(s) \/ Fails(s)
        \/ \E v \in Versions : Answer(s, v)
        \/ \E i \in DOMAIN answers : Receive(s, i)

------------------------------------------------------------------------------
(* Properties.                                                             *)

\* The answer for u that was read last, of the first n, or 0.
Latest(n, u) ==
    LET its == {k \in 1..n : read[k].url = u}
    IN IF its = {} THEN 0 ELSE CHOOSE k \in its : \A j \in its : j <= k
Shown(n, u) == IF Latest(n, u) = 0 THEN NoValidators ELSE read[Latest(n, u)].validators

\* A request carries exactly the validators of the answer for its page that was
\* read last before it was made, by whichever session, and none when that answer
\* had none, or no answer was read (plan.go:183-219).
SendsWhatWasReadLast ==
    \A s \in Sessions : asking[s] => request[s].validators = Shown(asOf[s], request[s].url)

\* They are older than those of an answer read before only where the exchange
\* they are from had begun when that one was read: of exchanges that do not
\* overlap the later counts, and the stale values of one that does are gone with
\* the next that begins after it (plan.go:204-206).
OnlyAnOverlapIsStale ==
    \A s \in Sessions : asking[s] =>
        LET k == Latest(asOf[s], request[s].url)
        IN \A j \in 1..k - 1 :
             read[j].url = request[s].url /\ read[j].nr > read[k].nr => read[k].since < j

\* The document a session has open at a step of its walk: that of the last step
\* before it that was one.
OpenAt(i) ==
    LET documents == {j \in 1..i - 1 : Plan[j].type = "document"}
    IN IF documents = {} THEN Nowhere
       ELSE Plan[CHOOSE j \in documents : \A k \in documents : k <= j].url

\* What a page embeds says how it relates to the page open in its own walk, and
\* not to one of an earlier walk (plan.go:83-92, 237-239).
SiteFollowsTheDocument ==
    \A s \in Sessions : asking[s] =>
        LET now == Plan[step[s]]
        IN now.type # "document" /\ now.referer = Nowhere /\ now.given = Nothing =>
             request[s].site = SiteOf(OpenAt(step[s]), now.url)

\* Walks over one cache ask as one browser does.
AsksAsABrowser == SendsWhatWasReadLast /\ OnlyAnOverlapIsStale /\ SiteFollowsTheDocument

\* What the comment of store says, of sessions that overlap too: a request never
\* has older validators than those of an answer that was read before it.
StaleIsNeverReplayed ==
    \A s \in Sessions : asking[s] =>
        LET k == Latest(asOf[s], request[s].url)
        IN \A j \in 1..k : read[j].url = request[s].url => read[j].nr <= read[k].nr

==============================================================================
