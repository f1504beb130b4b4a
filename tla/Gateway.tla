------------------------------ MODULE Gateway ------------------------------
(***************************************************************************)
(* The gateway's /los/* proxy: an applicant without an account applies,    *)
(* decides, takes the offer and accepts it from one browser.  Origination  *)
(* hands out one continuation token per application, once; the gateway     *)
(* keeps it in Redis under an id that only the browser's cookie holds.     *)
(*                                                                         *)
(* A handler is the sequence of its calls to Redis and to origination, any *)
(* of which may fail; the gateway may die between two of them, and the     *)
(* answer may miss the browser.  Origination is its promise: a route acts  *)
(* for an officer, an owner or the token of that application, and only an  *)
(* inert application is abandoned (module Origination has the details).    *)
(*                                                                         *)
(* Left out: login, the other proxies (which hold no state), headers and   *)
(* bodies.  A session id is named by its application: an id stored by an   *)
(* attempt that raised is in nobody's cookie.                              *)
(***************************************************************************)
EXTENDS Integers

CONSTANTS
    Handlers,   \* requests in progress at one time
    Browsers,
    Apps,       \* bounds the applications there ever are
    NoApp,
    Attempts    \* of _create_resume_session_with_retry

ASSUME GatewayAssumption ==
    /\ NoApp \notin Apps
    /\ Browsers # {}
    /\ Attempts \in Nat /\ Attempts > 0

VARIABLES
    redis,      \* whether Redis answers
    linked,     \* applications of the back book, linked to a borrower's account
    app,        \* origination's applications
    session,    \* the resume sessions in Redis that a cookie was made for
    cookie,     \* each browser's resume cookie
    pc,         \* the call each handler will do next
    call,       \* the request it serves
    token,      \* inject_token
    left,       \* attempts left to store the session
    by,         \* history: the browser that submitted an application for itself
    parted      \* history: applications some fault has separated from their browser

back == <<redis, linked>>
work == <<pc, call, token, left>>
vars == <<back, app, session, cookie, work, by, parted>>

Roles == {"anonymous", "owner", "officer"}
Kinds == {"submit", "decide", "offer", "accept"}

Request == [browser : Browsers, role : Roles, kind : Kinds,
            app : Apps \cup {NoApp}, sid : Apps \cup {NoApp}]

PCs == {"idle", "precheck", "resolve", "forward", "store",
        "compensate", "delete", "clear", "respond"}

Stages == {"absent", "inert", "decided", "funded", "abandoned"}

TypeOK ==
    /\ redis \in {"up", "down"}
    /\ linked \subseteq Apps
    /\ app \in [Apps -> Stages]
    /\ session \subseteq Apps
    /\ cookie \in [Browsers -> Apps \cup {NoApp}]
    /\ pc \in [Handlers -> PCs]
    /\ call \in [Handlers -> Request]
    /\ token \in [Handlers -> Apps \cup {NoApp}]
    /\ left \in [Handlers -> 0 .. Attempts]
    /\ by \in [Apps -> Browsers \cup {NoApp}]
    /\ parted \subseteq Apps

NoRequest == [browser |-> CHOOSE b \in Browsers : TRUE, role |-> "anonymous",
              kind |-> "submit", app |-> NoApp, sid |-> NoApp]

Init ==
    /\ redis \in {"up", "down"}
    /\ linked \in SUBSET Apps
    /\ app = [a \in Apps |-> IF a \in linked THEN "decided" ELSE "absent"]
    /\ session = {}
    /\ cookie = [b \in Browsers |-> NoApp]
    /\ pc = [h \in Handlers |-> "idle"]
    /\ call = [h \in Handlers |-> NoRequest]
    /\ token = [h \in Handlers |-> NoApp]
    /\ left = [h \in Handlers |-> 0]
    /\ by = [a \in Apps |-> NoApp]
    /\ parted = {}

-----------------------------------------------------------------------------
At(h, p) == pc[h] = p

Officer(h) == call[h].role = "officer"

Submitting(h) == call[h].kind = "submit"

Goto(h, p) == pc' = [pc EXCEPT ![h] = p] /\ UNCHANGED <<call, token, left>>

(* The handler is done, and forgets its request.                           *)
Finish(h) ==
    /\ pc' = [pc EXCEPT ![h] = "idle"]
    /\ call' = [call EXCEPT ![h] = NoRequest]
    /\ token' = [token EXCEPT ![h] = NoApp]
    /\ left' = [left EXCEPT ![h] = 0]

(* An error answer, and a 4xx: nothing that the browser would keep.        *)
Refuse(h) == Finish(h)

(* A fault, or the browser's own doing, separates it from an application.  *)
Part(as) == parted' = parted \cup (as \cap Apps)

(* The browser attaches its cookie to every /los request.  get_session     *)
(* asks Redis when a bearer token is presented, and an error of Redis is   *)
(* not caught: such a request ends here.  A borrower's account matters for *)
(* its own applications only; those that are not there are a 404.          *)
Receive(h) ==
    /\ At(h, "idle")
    /\ \E q \in Request :
          /\ q.sid = cookie[q.browser]
          /\ q.role = "anonymous" \/ redis = "up"
          /\ IF q.kind = "submit" THEN q.app = NoApp
             ELSE q.app # NoApp /\ app[q.app] \notin {"absent", "abandoned"}
          /\ q.role = "owner" => q.app \in linked
          /\ call' = [call EXCEPT ![h] = q]
          /\ pc' = [pc EXCEPT ![h] =
                IF q.kind = "submit" /\ q.role # "officer" THEN "precheck" ELSE "resolve"]
    /\ UNCHANGED <<back, app, session, cookie, token, left, by, parted>>

(* redis_reachable answers from a cache, so it may say either (module      *)
(* ReadinessCache).                                                        *)
Precheck(h) ==
    /\ At(h, "precheck")
    /\ Goto(h, "resolve") \/ Refuse(h)
    /\ UNCHANGED <<back, app, session, cookie, by, parted>>

(* The session's token goes with a request on the session's application,   *)
(* and with /offer, which names its application in the body.               *)
Resolve(h) ==
    /\ At(h, "resolve")
    /\ LET sid == call[h].sid
           scoped == call[h].app = sid \/ call[h].kind = "offer"
       IN  IF sid # NoApp /\ redis = "down" /\ ~Officer(h) THEN Refuse(h)
           ELSE /\ pc' = [pc EXCEPT ![h] = "forward"]
                /\ token' = [token EXCEPT ![h] =
                       IF sid \in session /\ redis = "up" /\ scoped THEN sid ELSE NoApp]
                /\ UNCHANGED <<call, left>>
    /\ UNCHANGED <<back, app, session, cookie, by, parted>>

-----------------------------------------------------------------------------
(* Origination *)

(* require_officer_or_owner, and the replay of an acceptance, for which    *)
(* the retired token is enough.                                            *)
Authorized(h, a) ==
    \/ Officer(h)
    \/ call[h].role = "owner" /\ a \in linked
    \/ token[h] = a

Advance == [decide |-> [inert |-> "decided", decided |-> "decided"],
            offer |-> [decided |-> "decided"],
            accept |-> [decided |-> "funded", funded |-> "funded"]]

(* submit_application commits an application and its token.                *)
Create(h, a) ==
    /\ Submitting(h) /\ app[a] = "absent"
    /\ app' = [app EXCEPT ![a] = "inert"]
    /\ by' = [by EXCEPT ![a] = call[h].browser]

(* The later stages, each of which repeats what is already so.             *)
Act(h, a) ==
    LET stages == Advance[call[h].kind]
    IN  /\ ~Submitting(h) /\ call[h].app = a /\ Authorized(h, a)
        /\ app[a] \in DOMAIN stages
        /\ app' = [app EXCEPT ![a] = stages[app[a]]]
        /\ UNCHANGED by

(* The answer decides what is left to do; an officer gets no session.      *)
Forward(h) ==
    /\ At(h, "forward")
    /\ \E a \in Apps :
          /\ Create(h, a) \/ Act(h, a)
          /\ call' = [call EXCEPT ![h].app = a]
    /\ pc' = [pc EXCEPT ![h] =
          CASE Submitting(h) /\ ~Officer(h) -> "store"
            [] call[h].kind = "accept" /\ call[h].sid # NoApp -> "clear"
            [] OTHER -> "respond"]
    /\ token' = [token EXCEPT ![h] = NoApp]
    /\ left' = [left EXCEPT ![h] = Attempts]
    /\ Part(IF Submitting(h) /\ Officer(h) THEN {call'[h].app} ELSE {})
    /\ UNCHANGED <<back, session, cookie>>

(* The 35 s pass, or the connection breaks, after origination has acted.   *)
ForwardLost(h) ==
    /\ At(h, "forward")
    /\ \E a \in Apps :
          \/ Create(h, a) /\ Part({a})
          \/ Act(h, a) /\ UNCHANGED parted
    /\ Refuse(h)
    /\ UNCHANGED <<back, session, cookie>>

(* Refused by origination, or never reached it.                            *)
ForwardRefused(h) ==
    /\ At(h, "forward")
    /\ Refuse(h)
    /\ UNCHANGED <<back, app, session, cookie, by, parted>>

-----------------------------------------------------------------------------
(* _create_resume_session_with_retry and _abandon_application              *)

StoreSession(h) ==
    /\ At(h, "store") /\ redis = "up"
    /\ session' = session \cup {call[h].app}
    /\ Goto(h, "respond")
    /\ UNCHANGED <<back, app, cookie, by, parted>>

(* Slip: a submission that cannot store its session is just refused.       *)
StoreFailsForGood(h) ==
    /\ At(h, "store")
    /\ IF left[h] = 1 THEN Refuse(h)
       ELSE /\ left' = [left EXCEPT ![h] = @ - 1]
            /\ UNCHANGED <<pc, call, token>>
    /\ UNCHANGED <<back, app, session, cookie, by, parted>>

(* An outage or a blip.                                                    *)
StoreFails(h) ==
    /\ At(h, "store")
    /\ left' = [left EXCEPT ![h] = @ - 1]
    /\ pc' = [pc EXCEPT ![h] = IF left[h] = 1 THEN "compensate" ELSE "store"]
    /\ UNCHANGED <<call, token, back, app, session, cookie, by, parted>>

(* Origination's /abandon, first statement: it refuses (409) what has been *)
(* acted on.  Its answers are not looked at.                               *)
Probe(h) ==
    /\ At(h, "compensate")
    /\ IF app[call[h].app] = "inert"
       THEN Goto(h, "delete") /\ UNCHANGED parted
       ELSE Refuse(h) /\ Part({call[h].app})
    /\ UNCHANGED <<back, app, session, cookie, by>>

(* Slip: the decisions of an application are deleted along with it.        *)
DeleteCascades(h) ==
    /\ At(h, "delete")
    /\ app' = [app EXCEPT ![call[h].app] = "abandoned"]
    /\ Refuse(h)
    /\ UNCHANGED <<back, session, cookie, by, parted>>

(* Its transaction, which an officer's decision since the probe aborts: a  *)
(* foreign key that restricts (409).                                       *)
Delete(h) ==
    /\ At(h, "delete")
    /\ IF app[call[h].app] = "inert"
       THEN app' = [app EXCEPT ![call[h].app] = "abandoned"] /\ UNCHANGED parted
       ELSE Part({call[h].app}) /\ UNCHANGED app
    /\ Refuse(h)
    /\ UNCHANGED <<back, session, cookie, by>>

(* No internal token, or origination is not reached.                       *)
AbandonFails(h) ==
    /\ At(h, "compensate")
    /\ Refuse(h)
    /\ Part({call[h].app})
    /\ UNCHANGED <<back, app, session, cookie, by>>

(* clear_resume, best effort: whatever session the cookie names.           *)
ClearSession(h) ==
    /\ At(h, "clear")
    /\ \/ redis = "up" /\ session' = session \ {call[h].sid}
       \/ UNCHANGED session
    /\ Goto(h, "respond")
    /\ Part({call[h].sid} \ {call[h].app})
    /\ UNCHANGED <<back, app, cookie, by>>

-----------------------------------------------------------------------------
(* The cookie that a 200 leaves the browser with.                          *)
NewCookie(h) ==
    CASE Submitting(h) /\ ~Officer(h) -> call[h].app
      [] call[h].kind = "accept" /\ call[h].sid # NoApp -> NoApp
      [] OTHER -> cookie[call[h].browser]

Respond(h) ==
    /\ At(h, "respond")
    /\ cookie' = [cookie EXCEPT ![call[h].browser] = NewCookie(h)]
    /\ LET old == cookie[call[h].browser]
       IN  IF NewCookie(h) \in {old, NoApp}
           THEN Part({old} \ {NewCookie(h), call[h].app})
           ELSE Part({old})
    /\ Refuse(h)
    /\ UNCHANGED <<back, app, session, by>>

RespondLost(h) ==
    /\ At(h, "respond")
    /\ Refuse(h)
    /\ Part(IF Submitting(h) THEN {call[h].app} ELSE {})
    /\ UNCHANGED <<back, app, session, cookie, by>>

(* The gateway's process dies; the application, if any, has no cookie.     *)
(* A transaction of origination's goes on without the gateway, so at the   *)
(* delete it is origination that dies.                                     *)
Crash(h) ==
    /\ ~At(h, "idle")
    /\ Refuse(h)
    /\ Part(IF Submitting(h) THEN {call[h].app} ELSE {})
    /\ UNCHANGED <<back, app, session, cookie, by>>

(* RESUME_TTL_SECONDS, which is also the token's lifetime.                 *)
Expire(a) ==
    /\ a \in session
    /\ session' = session \ {a}
    /\ Part({a})
    /\ UNCHANGED <<back, app, cookie, work, by>>

Outage ==
    /\ redis' = IF redis = "up" THEN "down" ELSE "up"
    /\ UNCHANGED <<linked, app, session, cookie, work, by, parted>>

HandlerStep(h) ==
    \/ Receive(h) \/ Precheck(h) \/ Resolve(h)
    \/ Forward(h) \/ ForwardLost(h) \/ ForwardRefused(h)
    \/ StoreSession(h) \/ StoreFails(h) \/ AbandonFails(h)
    \/ Probe(h) \/ Delete(h)
    \/ ClearSession(h) \/ Respond(h) \/ RespondLost(h) \/ Crash(h)

Next ==
    \/ \E h \in Handlers : HandlerStep(h)
    \/ \E a \in Apps : Expire(a)
    \/ Outage

Spec == Init /\ [][Next]_vars

-----------------------------------------------------------------------------
(* A submission the applicant was not told of, or cannot go on with, has   *)
(* one of the listed reasons: a fault, an expiry, a newer application of   *)
(* the same browser, or the acceptance of another one.  Otherwise the      *)
(* browser holds the cookie and Redis the session, or the application is   *)
(* gone (los's submit branch, "must NOT let origination create the         *)
(* application and then discard the one-time raw token").                  *)
InProgress(a) == \E h \in Handlers : ~At(h, "idle") /\ Submitting(h) /\ call[h].app = a

Unfinished(a) == by[a] # NoApp /\ app[a] \in {"inert", "decided"}

InHand(a) == a \in session /\ cookie[by[a]] = a

NobodyStranded ==
    \A a \in Apps :
        Unfinished(a) /\ a \notin parted => InProgress(a) \/ InHand(a)

(* The compensation takes only what no one has or will ever have acted on: *)
(* no browser was given it, and it was not decided, not even between the   *)
(* probe and the DELETE (abandon_application).                             *)
CompensationTakesTheInert ==
    [][\A a \in Apps : app'[a] = "abandoned" /\ app[a] # "abandoned" =>
          /\ app[a] = "inert"
          /\ a \notin session /\ \A b \in Browsers : cookie[b] # a]_vars

=============================================================================
