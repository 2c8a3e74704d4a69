-------------------------------- MODULE MCCalls --------------------------------
\* Callers for TLC: the bodies, the plan and the server.
EXTENDS Callers, MCFetchd

SomeBodies == [user : {"absent", "unreadable", "text", "object", "null text"}, session : {"used"}]

\* An icon before any page, the page, what it embeds, what names its referrer,
\* what has its header given, and a type nobody knows.
PlanStep(url, type, referer, given) ==
    [url |-> url, type |-> type, referer |-> referer, given |-> given]
SomePlan ==
    << PlanStep("icon", "image", "nowhere", ""), PlanStep("page", "document", "nowhere", ""),
       PlanStep("page", "xhr", "page", ""), PlanStep("api", "media", "nowhere", "none") >>
SameSite(from, to) == IF from = "nowhere" THEN "none" ELSE "same-origin"
\* Both validators, one of them, none.
SomeVersions == { [etag |-> 0, lastMod |-> 0], [etag |-> 1, lastMod |-> 1], [etag |-> 2, lastMod |-> 0] }

================================================================================
