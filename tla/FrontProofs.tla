--------------------------- MODULE FrontProofs ----------------------------
(***************************************************************************)
(* What stands between a person and the services, for any number of        *)
(* requests, browsers, applications, runs and requesters.  A submission is *)
(* in its browser's hands, under way, taken back, or parted from it by a   *)
(* fault, and the compensation takes only what nobody holds.  A run of the *)
(* assistant answers with an event of its own request and marks only what  *)
(* it has done.  The calls a rate limit has let through match the entries  *)
(* of its window from the end, whoever dropped the others.  And nothing    *)
(* that names someone leaves the request builder as it came.               *)
(***************************************************************************)
EXTENDS Gateway, Assistant, RateLimit, RequestBuilder, WellFoundedInduction, SequenceTheorems,
        FiniteSetTheorems, TLAPS

(* A set of natural numbers has a least element.                           *)
LEMMA LessIsWellFounded == IsWellFoundedOn({ss \in Nat \X Nat : ss[1] < ss[2]}, Nat)
BY NatLessThanWellFounded DEF OpToRel

(* A set of natural numbers has a least element.                           *)
LEMMA Least ==
  ASSUME NEW T \in SUBSET Nat, T # {}
  PROVE \E x \in T : \A y \in T : x <= y
<1> DEFINE R == {ss \in Nat \X Nat : ss[1] < ss[2]}
<1>1. IsWellFoundedOn(R, Nat)
  BY LessIsWellFounded
<1>2. PICK x \in T : \A y \in T : ~ (<<y, x>> \in R)
  <2> HIDE DEF R
  <2> QED BY <1>1, WFMin
<1>3. ASSUME NEW y \in T PROVE x <= y
  <2>1. ~ (<<y, x>> \in R)
    BY <1>2
  <2>2. <<y, x>> \in Nat \X Nat
    OBVIOUS
  <2>3. ~ (y < x)
    BY <2>1, <2>2
  <2> QED BY <2>3
<1> QED BY <1>3

-----------------------------------------------------------------------------
(* The gateway (main.py).                                                  *)

(* The application a request's submission has created, until it is         *)
(* answered or given up (los's submit branch).                             *)
Submits(h, a) == ~At(h, "idle") /\ Submitting(h) /\ call[h].app = a

(* What each stage of a handler may rely on.                               *)
Relies(h) ==
    /\ pc[h] \in {"precheck", "resolve", "forward"} /\ Submitting(h) => call[h].app = NoApp
    /\ pc[h] \in {"store", "compensate", "delete"} =>
          Submitting(h) /\ ~Officer(h) /\ call[h].app \notin session
    /\ pc[h] \in {"store", "compensate", "delete", "respond", "clear"} => call[h].app \in Apps
    /\ pc[h] = "store" => left[h] > 0
    /\ pc[h] = "respond" /\ Submitting(h) =>
          \/ call[h].app \in parted
          \/ ~Officer(h) /\ (call[h].app \in session \/ app[call[h].app] = "funded")
    /\ pc[h] = "clear" => call[h].kind = "accept"
    /\ pc[h] \in {"clear", "respond"} /\ call[h].kind = "accept" => app[call[h].app] = "funded"

HandlersRely == \A h \in Handlers : Relies(h)

(* Whoever submits an application is alone with it, until his answer.      *)
SubmitterIsAlone ==
    \A h \in Handlers : \A a \in Apps : Submits(h, a) =>
        /\ app[a] # "absent" /\ by[a] = call[h].browser
        /\ \A b \in Browsers : cookie[b] # a
        /\ \A g \in Handlers : Submits(g, a) => g = h

(* What is not yet there nobody holds.                                     *)
AbsentIsFresh ==
    \A a \in Apps : app[a] = "absent" => a \notin session /\ \A b \in Browsers : cookie[b] # a

GatewayInv == TypeOK /\ HandlersRely /\ SubmitterIsAlone /\ AbsentIsFresh /\ NobodyStranded

-----------------------------------------------------------------------------
(* At first there is no request, and nothing of anyone's.                  *)
LEMMA StartsKept == Init => GatewayInv
<1> SUFFICES ASSUME Init PROVE GatewayInv
  OBVIOUS
<1> USE GatewayAssumption DEF Init
<1>1. NoRequest \in Request
  BY DEF NoRequest, Request, Roles, Kinds
<1>2. TypeOK
  BY <1>1 DEF TypeOK, PCs, Stages
<1>3. HandlersRely
  BY DEF HandlersRely, Relies
<1>4. SubmitterIsAlone
  BY DEF SubmitterIsAlone, Submits, At
<1>5. AbsentIsFresh
  BY DEF AbsentIsFresh
<1>6. NobodyStranded
  BY DEF NobodyStranded, Unfinished
<1> QED BY <1>2, <1>3, <1>4, <1>5, <1>6 DEF GatewayInv

(* A request forgotten: no application was its own, or it is parted.       *)
LEMMA EndKeeps ==
    ASSUME GatewayInv, NEW h \in Handlers, Finish(h),
           UNCHANGED <<back, app, session, cookie, by>>,
           parted \subseteq parted', parted' \subseteq Apps,
           \A a \in Apps : Submits(h, a) => a \in parted' \/ app[a] \in {"abandoned", "funded"}
    PROVE  GatewayInv'
<1> USE GatewayAssumption DEF GatewayInv, Finish, back
<1>1. NoRequest \in Request
  BY DEF NoRequest, Request, Roles, Kinds
<1>2. TypeOK'
  BY <1>1 DEF TypeOK, PCs
<1>3. pc'[h] = "idle" /\ \A g \in Handlers : g # h => pc'[g] = pc[g] /\ call'[g] = call[g] /\ left'[g] = left[g]
  BY DEF TypeOK
<1>4. HandlersRely'
  BY <1>3 DEF HandlersRely, Relies, Submitting, Officer
<1>5. \A g \in Handlers, a \in Apps : Submits(g, a)' => g # h /\ Submits(g, a)
  BY <1>3 DEF Submits, At, Submitting
<1>6. SubmitterIsAlone'
  BY <1>3, <1>5 DEF SubmitterIsAlone
<1>7. AbsentIsFresh'
  BY DEF AbsentIsFresh
<1>8. NobodyStranded'
  <2> SUFFICES ASSUME NEW a \in Apps, Unfinished(a)', a \notin parted'
               PROVE  InProgress(a)' \/ InHand(a)'
    BY DEF NobodyStranded
  <2>1. Unfinished(a) /\ a \notin parted /\ ~Submits(h, a)
    BY DEF Unfinished
  <2>2. CASE InHand(a)
    BY <2>2 DEF InHand
  <2>3. CASE InProgress(a)
    <3>1. PICK g \in Handlers : ~At(g, "idle") /\ Submitting(g) /\ call[g].app = a
      BY <2>3 DEF InProgress
    <3>2. g # h
      BY <3>1, <2>1 DEF Submits
    <3> QED BY <3>1, <3>2, <1>3 DEF InProgress, At, Submitting
  <2> QED BY <2>1, <2>2, <2>3 DEF NobodyStranded
<1> QED BY <1>2, <1>4, <1>6, <1>7, <1>8

(* A request on its way to origination: nothing is its own yet.            *)
LEMMA MoveKeeps ==
    ASSUME GatewayInv, TypeOK', NEW h \in Handlers,
           UNCHANGED <<app, session, cookie, by, parted>>,
           \A g \in Handlers \ {h} : pc'[g] = pc[g] /\ call'[g] = call[g] /\ left'[g] = left[g],
           \A a \in Apps : ~Submits(h, a),
           pc'[h] \in {"precheck", "resolve", "forward"},
           Submitting(h)' => call'[h].app = NoApp
    PROVE  GatewayInv'
<1> USE GatewayAssumption DEF GatewayInv
<1>1. HandlersRely'
  BY DEF HandlersRely, Relies, Submitting, Officer
<1>2. \A g \in Handlers, a \in Apps : Submits(g, a)' <=> Submits(g, a)
  BY DEF Submits, At, Submitting
<1>3. SubmitterIsAlone'
  <2>1. \A g \in Handlers, a \in Apps : Submits(g, a)' => g # h
    BY <1>2
  <2> QED BY <1>2, <2>1 DEF SubmitterIsAlone
<1>4. AbsentIsFresh'
  BY DEF AbsentIsFresh
<1>5. NobodyStranded'
  <2>1. \A a \in Apps : InProgress(a) => InProgress(a)'
    BY <1>2 DEF InProgress, Submits
  <2> QED BY <2>1 DEF NobodyStranded, Unfinished, InHand
<1> QED BY <1>1, <1>3, <1>4, <1>5

(* A request comes in with what its browser holds (Receive).               *)
LEMMA ReceiveKeeps == ASSUME GatewayInv, NEW h \in Handlers, Receive(h) PROVE GatewayInv'
<1>1. TypeOK'
  BY DEF GatewayInv, TypeOK, Receive, PCs, back
<1>2. pc'[h] \in {"precheck", "resolve", "forward"} /\ (Submitting(h)' => call'[h].app = NoApp)
  BY DEF GatewayInv, TypeOK, Receive, Submitting
<1>3. \A a \in Apps : ~Submits(h, a)
  BY DEF Receive, Submits
<1> QED BY <1>1, <1>2, <1>3, MoveKeeps DEF GatewayInv, TypeOK, Receive

(* Before it is forwarded, no application is a request's own.              *)
LEMMA NothingYet ==
    ASSUME GatewayInv, NEW h \in Handlers, pc[h] \in {"precheck", "resolve", "forward"}
    PROVE  \A a \in Apps : ~Submits(h, a)
BY GatewayAssumption DEF GatewayInv, HandlersRely, Relies, Submits

(* It is refused, or goes on, before anything is created (Precheck).       *)
LEMMA PrecheckKeeps == ASSUME GatewayInv, NEW h \in Handlers, Precheck(h) PROVE GatewayInv'
<1>1. \A a \in Apps : ~Submits(h, a)
  BY NothingYet DEF Precheck, At
<1>2. CASE Goto(h, "resolve")
  <2>1. TypeOK'
    BY <1>2 DEF GatewayInv, TypeOK, Precheck, Goto, PCs, back
  <2>2. Submitting(h) => call[h].app = NoApp
    BY DEF GatewayInv, HandlersRely, Relies, Precheck, At
  <2> QED BY <1>1, <1>2, <2>1, <2>2, MoveKeeps DEF GatewayInv, TypeOK, Precheck, Goto, Submitting
<1>3. CASE Refuse(h)
  BY <1>1, <1>3, EndKeeps DEF GatewayInv, TypeOK, Precheck, Refuse
<1> QED BY <1>2, <1>3 DEF Precheck

(* A session resolves to the application it was stored for (Resolve).      *)
LEMMA ResolveKeeps == ASSUME GatewayInv, NEW h \in Handlers, Resolve(h) PROVE GatewayInv'
<1>1. \A a \in Apps : ~Submits(h, a)
  BY NothingYet DEF Resolve, At
<1>2. CASE Refuse(h)
  BY <1>1, <1>2, EndKeeps DEF GatewayInv, TypeOK, Resolve, Refuse
<1>3. CASE pc' = [pc EXCEPT ![h] = "forward"] /\ UNCHANGED <<call, left>>
  <2>1. token' \in [Handlers -> Apps \cup {NoApp}]
    BY DEF GatewayInv, TypeOK, Resolve, Refuse, Finish
  <2>2. TypeOK'
    BY <1>3, <2>1 DEF GatewayInv, TypeOK, Resolve, PCs, back
  <2>3. Submitting(h) => call[h].app = NoApp
    BY DEF GatewayInv, HandlersRely, Relies, Resolve, At
  <2> QED BY <1>1, <1>3, <2>2, <2>3, MoveKeeps DEF GatewayInv, TypeOK, Resolve, Submitting
<1> QED BY <1>2, <1>3 DEF Resolve

(* The ends of a request that leave everything where it is.                *)
LEMMA OtherEndsKeep ==
    ASSUME GatewayInv, NEW h \in Handlers,
           \/ ForwardRefused(h) \/ AbandonFails(h) \/ RespondLost(h) \/ Crash(h)
           \/ Probe(h) /\ app[call[h].app] # "inert"
           \/ Delete(h) /\ app[call[h].app] # "inert"
    PROVE  GatewayInv'
<1>1. Finish(h) /\ UNCHANGED <<back, app, session, cookie, by>>
  BY DEF ForwardRefused, AbandonFails, RespondLost, Crash, Probe, Delete, Refuse
<1>2. parted \subseteq parted' /\ parted' \subseteq Apps
  BY DEF GatewayInv, TypeOK, ForwardRefused, AbandonFails, RespondLost, Crash, Probe, Delete, Part
<1>3. \A a \in Apps : Submits(h, a) => a \in parted'
  <2>1. CASE ForwardRefused(h)
    BY <2>1, NothingYet DEF ForwardRefused, At
  <2>2. CASE AbandonFails(h)
    BY <2>2 DEF AbandonFails, Part, Submits
  <2>4. CASE (Probe(h) \/ Delete(h)) /\ app[call[h].app] # "inert"
    BY <2>4 DEF Probe, Delete, Part, Submits
  <2>3. CASE RespondLost(h) \/ Crash(h)
    BY <2>3 DEF RespondLost, Crash, Part, Submits
  <2> QED BY <2>1, <2>2, <2>3, <2>4
<1> QED BY <1>1, <1>2, <1>3, EndKeeps

(* A step that begins and ends no request.                                 *)
LEMMA StayKeeps ==
    ASSUME GatewayInv, TypeOK', HandlersRely', UNCHANGED <<by, cookie>>,
           \A g \in Handlers :
               /\ At(g, "idle")' <=> At(g, "idle")
               /\ call'[g].kind = call[g].kind /\ call'[g].app = call[g].app
               /\ call'[g].browser = call[g].browser,
           parted \subseteq parted',
           \A a \in Apps :
               /\ app'[a] = "absent" <=> app[a] = "absent"
               /\ Unfinished(a)' => Unfinished(a)
               /\ a \in session' => a \in session \/ app[a] # "absent"
               /\ a \in session => a \in session' \/ a \in parted' \/ app'[a] = "funded"
    PROVE  GatewayInv'
<1> USE DEF GatewayInv
<1>1. \A g \in Handlers, a \in Apps : Submits(g, a)' <=> Submits(g, a)
  BY DEF Submits, Submitting
<1>2. SubmitterIsAlone'
  BY <1>1 DEF SubmitterIsAlone
<1>3. AbsentIsFresh'
  BY DEF AbsentIsFresh
<1>4. NobodyStranded'
  <2> SUFFICES ASSUME NEW a \in Apps, Unfinished(a)', a \notin parted'
               PROVE  InProgress(a)' \/ InHand(a)'
    BY DEF NobodyStranded
  <2>1. InProgress(a) \/ InHand(a)
    BY DEF NobodyStranded
  <2>2. InProgress(a) => InProgress(a)'
    BY <1>1 DEF InProgress, Submits
  <2>3. app'[a] # "funded"
    BY DEF Unfinished
  <2>4. InHand(a) => InHand(a)'
    BY <2>3 DEF InHand
  <2> QED BY <2>1, <2>2, <2>4
<1> QED BY <1>2, <1>3, <1>4

(* The token is stored before its cookie is given (StoreSession).          *)
LEMMA StoreSessionKeeps == ASSUME GatewayInv, NEW h \in Handlers, StoreSession(h) PROVE GatewayInv'
<1> USE DEF GatewayInv
<1>1. /\ Submitting(h) /\ ~Officer(h) /\ call[h].app \in Apps
      /\ pc[h] = "store" /\ Submits(h, call[h].app)
  BY DEF StoreSession, At, HandlersRely, Relies, Submits
<1>2. app[call[h].app] # "absent"
  BY <1>1 DEF SubmitterIsAlone
<1>3. TypeOK'
  BY <1>1 DEF TypeOK, StoreSession, Goto, PCs, back
<1>4. \A g \in Handlers : pc'[g] = IF g = h THEN "respond" ELSE pc[g]
  BY DEF TypeOK, StoreSession, Goto
<1>5. HandlersRely'
  <2> SUFFICES ASSUME NEW g \in Handlers PROVE Relies(g)'
    BY DEF HandlersRely
  <2>1. CASE g = h
    BY <1>1, <1>4, <2>1 DEF StoreSession, Goto, Relies, Submitting, Officer
  <2>2. CASE g # h
    <3>1. Relies(g) /\ pc'[g] = pc[g]
      BY <1>4, <2>2 DEF HandlersRely
    <3>2. pc[g] \in {"store", "compensate", "delete"} => call[g].app # call[h].app
      <4>1. pc[g] \in {"store", "compensate", "delete"} => Submits(g, call[g].app) /\ call[g].app \in Apps
        BY <3>1 DEF Relies, Submits, At
      <4> QED BY <1>1, <2>2, <4>1 DEF SubmitterIsAlone
    <3> QED BY <3>1, <3>2 DEF StoreSession, Goto, Relies, Submitting, Officer
  <2> QED BY <2>1, <2>2
<1> QED BY <1>1, <1>2, <1>3, <1>4, <1>5, StayKeeps DEF StoreSession, Goto, At, Unfinished

(* A token that cannot be stored is tried again, or its submission is to   *)
(* be taken back (StoreFails).                                             *)
LEMMA StoreFailsKeeps == ASSUME GatewayInv, NEW h \in Handlers, StoreFails(h) PROVE GatewayInv'
<1> USE DEF GatewayInv
<1>1. pc[h] = "store" /\ left[h] > 0 /\ left[h] \in 0 .. Attempts
  BY DEF StoreFails, At, HandlersRely, Relies, TypeOK
<1>2. \A g \in Handlers :
        /\ pc'[g] = IF g = h THEN IF left[h] = 1 THEN "compensate" ELSE "store" ELSE pc[g]
        /\ left'[g] = IF g = h THEN left[h] - 1 ELSE left[g]
  BY DEF TypeOK, StoreFails
<1>3. TypeOK'
  <2>1. left[h] - 1 \in 0 .. Attempts
    BY <1>1, GatewayAssumption
  <2>2. left' \in [Handlers -> 0 .. Attempts]
    BY <2>1 DEF TypeOK, StoreFails
  <2> QED BY <2>2 DEF TypeOK, StoreFails, PCs, back
<1>4. HandlersRely'
  <2> SUFFICES ASSUME NEW g \in Handlers PROVE Relies(g)'
    BY DEF HandlersRely
  <2>1. CASE g = h
    BY <1>1, <1>2, <2>1 DEF StoreFails, HandlersRely, Relies, Submitting, Officer
  <2>2. CASE g # h
    BY <1>2, <2>2 DEF StoreFails, HandlersRely, Relies, Submitting, Officer
  <2> QED BY <2>1, <2>2
<1> QED BY <1>1, <1>2, <1>3, <1>4, StayKeeps DEF StoreFails, At, Unfinished

(* The session that the cookie names is cleared if Redis is up             *)
(* (ClearSession).                                                         *)
LEMMA ClearKeeps == ASSUME GatewayInv, NEW h \in Handlers, ClearSession(h) PROVE GatewayInv'
<1> USE DEF GatewayInv
<1>1. pc[h] = "clear" /\ call[h].app \in Apps /\ ~Submitting(h)
  BY DEF ClearSession, At, HandlersRely, Relies, Submitting
<1>2. \A g \in Handlers : pc'[g] = IF g = h THEN "respond" ELSE pc[g]
  BY DEF TypeOK, ClearSession, Goto
<1>3. TypeOK' /\ session' \subseteq session
  BY DEF TypeOK, ClearSession, Goto, Part, PCs, back
<1>4. call[h].kind = "accept" /\ app[call[h].app] = "funded"
  BY <1>1 DEF HandlersRely, Relies
<1>5. \A a \in Apps : a \in session => a \in session' \/ a \in parted' \/ app'[a] = "funded"
  BY <1>4 DEF ClearSession, Part
<1>6. parted \subseteq parted'
  BY DEF ClearSession, Part
<1>7. HandlersRely'
  <2> SUFFICES ASSUME NEW g \in Handlers PROVE Relies(g)'
    BY DEF HandlersRely
  <2>1. CASE g = h
    BY <1>1, <1>2, <1>4, <2>1 DEF ClearSession, Goto, Relies, Submitting
  <2>2. CASE g # h
    BY <1>2, <1>3, <1>5, <1>6, <2>2 DEF ClearSession, Goto, HandlersRely, Relies, Submitting, Officer
  <2> QED BY <2>1, <2>2
<1> QED BY <1>1, <1>2, <1>3, <1>5, <1>6, <1>7, StayKeeps DEF ClearSession, Goto, At, Unfinished

(* What origination does for a request on an application that is there.    *)
LEMMA ActAdvances ==
    ASSUME GatewayInv, NEW h \in Handlers, NEW a \in Apps, Act(h, a)
    PROVE  /\ ~Submitting(h) /\ call[h].app = a /\ by' = by
           /\ app[a] \in {"inert", "decided", "funded"}
           /\ \E v \in {"decided", "funded"} :
                 /\ app' = [app EXCEPT ![a] = v]
                 /\ call[h].kind = "accept" \/ app[a] = "funded" => v = "funded"
<1>1. call[h].kind \in {"decide", "offer", "accept"}
  BY DEF GatewayInv, TypeOK, Request, Kinds, Act, Submitting
<1> DEFINE stages == Advance[call[h].kind]
<1>2. /\ ~Submitting(h) /\ call[h].app = a /\ by' = by
      /\ app[a] \in DOMAIN stages /\ app' = [app EXCEPT ![a] = stages[app[a]]]
  BY DEF Act
<1>3. /\ DOMAIN stages \subseteq {"inert", "decided", "funded"}
      /\ \A s \in DOMAIN stages :
            /\ stages[s] \in {"decided", "funded"}
            /\ call[h].kind = "accept" \/ s = "funded" => stages[s] = "funded"
  <2>1. CASE call[h].kind = "decide"
    <3>1. stages = [inert |-> "decided", decided |-> "decided"]
      BY <2>1 DEF Advance
    <3> HIDE DEF stages
    <3> QED BY <2>1, <3>1
  <2>2. CASE call[h].kind = "offer"
    <3>1. stages = [decided |-> "decided"]
      BY <2>2 DEF Advance
    <3> HIDE DEF stages
    <3> QED BY <2>2, <3>1
  <2>3. CASE call[h].kind = "accept"
    <3>1. stages = [decided |-> "funded", funded |-> "funded"]
      BY <2>3 DEF Advance
    <3> HIDE DEF stages
    <3> QED BY <2>3, <3>1
  <2> QED BY <1>1, <2>1, <2>2, <2>3
<1> HIDE DEF stages
<1> QED BY <1>2, <1>3

(* Whoever has done its work may forget it, as long as it is parted.       *)
LEMMA ForwardLostKeeps == ASSUME GatewayInv, NEW h \in Handlers, ForwardLost(h) PROVE GatewayInv'
<1> USE GatewayAssumption DEF GatewayInv
<1>1. NoRequest \in Request
  BY DEF NoRequest, Request, Roles, Kinds
<1>2. /\ UNCHANGED <<back, session, cookie>> /\ Finish(h)
      /\ parted \subseteq parted' /\ parted' \subseteq Apps
  BY DEF ForwardLost, Part, Refuse, TypeOK
<1>3. PICK a \in Apps : \/ Create(h, a) /\ a \in parted'
                        \/ Act(h, a)
  BY DEF ForwardLost, Part
<1>4. \E v \in {"inert", "decided", "funded"} :
         /\ app' = [app EXCEPT ![a] = v]
         /\ v = "inert" => app[a] = "absent" /\ a \in parted'
         /\ app[a] = "funded" => v = "funded"
         /\ v # "inert" => app[a] \in {"inert", "decided", "funded"}
  BY <1>3, ActAdvances DEF Create
<1>5. by' \in [Apps -> Browsers \cup {NoApp}] /\ \A c \in Apps : c # a \/ app[a] # "absent" => by'[c] = by[c]
  BY <1>3, ActAdvances DEF Create, TypeOK, Request
<1>6. TypeOK'
  <2>1. app' \in [Apps -> Stages]
    BY <1>4 DEF TypeOK, Stages
  <2> QED BY <1>1, <1>2, <1>5, <2>1 DEF TypeOK, PCs, Finish, back
<1>7. pc'[h] = "idle" /\ \A g \in Handlers : g # h => pc'[g] = pc[g] /\ call'[g] = call[g] /\ left'[g] = left[g]
  BY <1>2 DEF TypeOK, Finish
<1>8. \A c \in Apps : /\ c # a => app'[c] = app[c]
                      /\ app[c] = "funded" => app'[c] = "funded"
                      /\ app[c] # "absent" => app'[c] # "absent"
                      /\ app'[c] = "absent" => app[c] = "absent"
  BY <1>4 DEF TypeOK
<1>9. HandlersRely'
  BY <1>2, <1>7, <1>8 DEF HandlersRely, Relies, Submitting, Officer
<1>10. \A g \in Handlers, c \in Apps : Submits(g, c)' => g # h /\ Submits(g, c)
  BY <1>7 DEF Submits, At, Submitting
<1>11. SubmitterIsAlone'
  BY <1>2, <1>5, <1>7, <1>8, <1>10 DEF SubmitterIsAlone
<1>12. AbsentIsFresh'
  BY <1>2, <1>8 DEF AbsentIsFresh
<1>13. NobodyStranded'
  <2> SUFFICES ASSUME NEW c \in Apps, Unfinished(c)', c \notin parted'
               PROVE  InProgress(c)' \/ InHand(c)'
    BY DEF NobodyStranded
  <2>1. Unfinished(c) /\ c \notin parted /\ by'[c] = by[c]
    BY <1>2, <1>4, <1>5, <1>8 DEF Unfinished, TypeOK
  <2>2. ~Submits(h, c)
    BY NothingYet DEF ForwardLost, At
  <2>3. CASE InHand(c)
    BY <1>2, <2>1, <2>3 DEF InHand
  <2>4. CASE InProgress(c)
    <3>1. PICK g \in Handlers : ~At(g, "idle") /\ Submitting(g) /\ call[g].app = c
      BY <2>4 DEF InProgress
    <3>2. g # h
      BY <3>1, <2>2 DEF Submits
    <3> QED BY <3>1, <3>2, <1>7 DEF InProgress, At, Submitting
  <2> QED BY <2>1, <2>3, <2>4 DEF NobodyStranded
<1> QED BY <1>6, <1>9, <1>11, <1>12, <1>13

(* An inert application is on its way to being deleted (Probe).            *)
LEMMA ProbeKeeps ==
    ASSUME GatewayInv, NEW h \in Handlers, Probe(h), app[call[h].app] = "inert"
    PROVE  GatewayInv'
<1> USE DEF GatewayInv
<1>1. pc[h] = "compensate" /\ Goto(h, "delete") /\ UNCHANGED parted
  BY DEF Probe, At
<1>2. \A g \in Handlers : pc'[g] = IF g = h THEN "delete" ELSE pc[g]
  BY <1>1 DEF TypeOK, Goto
<1>3. TypeOK'
  BY <1>1 DEF TypeOK, Probe, Goto, PCs, back
<1>4. HandlersRely'
  BY <1>1, <1>2 DEF Probe, Goto, HandlersRely, Relies, Submitting, Officer
<1> QED BY <1>1, <1>2, <1>3, <1>4, StayKeeps DEF Probe, Goto, At, Unfinished

(* The compensation takes back what was parted from its browser (Delete).  *)
LEMMA DeleteKeeps ==
    ASSUME GatewayInv, NEW h \in Handlers, Delete(h), app[call[h].app] = "inert"
    PROVE  GatewayInv'
<1> USE GatewayAssumption DEF GatewayInv
<1> DEFINE a == call[h].app
<1>1. a \in Apps /\ app[a] = "inert" /\ Submits(h, a)
  BY DEF Delete, At, HandlersRely, Relies, Submits
<1> HIDE DEF a
<1>2. Finish(h) /\ UNCHANGED <<back, session, cookie, by, parted>> /\ app' = [app EXCEPT ![a] = "abandoned"]
  BY DEF Delete, Refuse, a
<1>3. NoRequest \in Request
  BY DEF NoRequest, Request, Roles, Kinds
<1>4. TypeOK'
  BY <1>1, <1>2, <1>3 DEF TypeOK, PCs, Stages, Finish, back
<1>5. pc'[h] = "idle" /\ \A g \in Handlers : g # h => pc'[g] = pc[g] /\ call'[g] = call[g] /\ left'[g] = left[g]
  BY <1>2 DEF TypeOK, Finish
<1>6. \A c \in Apps : app'[c] = IF c = a THEN "abandoned" ELSE app[c]
  BY <1>2 DEF TypeOK
<1>7. HandlersRely'
  BY <1>1, <1>2, <1>5, <1>6 DEF HandlersRely, Relies, Submitting, Officer
<1>8. \A g \in Handlers, c \in Apps : Submits(g, c)' => g # h /\ Submits(g, c)
  BY <1>5 DEF Submits, At, Submitting
<1>9. SubmitterIsAlone'
  BY <1>2, <1>5, <1>6, <1>8 DEF SubmitterIsAlone
<1>10. AbsentIsFresh'
  BY <1>2, <1>6 DEF AbsentIsFresh
<1>11. NobodyStranded'
  <2> SUFFICES ASSUME NEW c \in Apps, Unfinished(c)', c \notin parted'
               PROVE  InProgress(c)' \/ InHand(c)'
    BY DEF NobodyStranded
  <2>1. Unfinished(c) /\ c \notin parted /\ c # a
    BY <1>2, <1>6 DEF Unfinished
  <2>2. CASE InHand(c)
    BY <1>2, <2>2 DEF InHand
  <2>3. CASE InProgress(c)
    <3>1. PICK g \in Handlers : ~At(g, "idle") /\ Submitting(g) /\ call[g].app = c
      BY <2>3 DEF InProgress
    <3>2. g # h
      BY <3>1, <2>1 DEF a
    <3> QED BY <3>1, <3>2, <1>5 DEF InProgress, At, Submitting
  <2> QED BY <2>1, <2>2, <2>3 DEF NobodyStranded
<1> QED BY <1>4, <1>7, <1>9, <1>10, <1>11

(* What a forwarded request leaves to do is its answer, but for a          *)
(* submission's session and an acceptance's.                               *)
LEMMA ForwardCreates ==
    ASSUME GatewayInv, NEW h \in Handlers, Forward(h), NEW a \in Apps, Create(h, a),
           call' = [call EXCEPT ![h].app = a]
    PROVE  GatewayInv'
<1> USE GatewayAssumption DEF GatewayInv
<1>1. /\ pc[h] = "forward" /\ Submitting(h) /\ app[a] = "absent" /\ call[h] \in Request
      /\ app' = [app EXCEPT ![a] = "inert"] /\ by' = [by EXCEPT ![a] = call[h].browser]
      /\ UNCHANGED <<back, session, cookie>>
  BY DEF Forward, At, Create, TypeOK
<1>2. /\ pc' = [pc EXCEPT ![h] = IF Officer(h) THEN "respond" ELSE "store"]
      /\ left' = [left EXCEPT ![h] = Attempts] /\ token' = [token EXCEPT ![h] = NoApp]
  BY <1>1 DEF Forward, Submitting
<1>3. /\ \A g \in Handlers : g # h => call'[g] = call[g] /\ pc'[g] = pc[g] /\ left'[g] = left[g]
      /\ call'[h].app = a /\ call'[h].kind = "submit" /\ call'[h].role = call[h].role
      /\ call'[h].browser = call[h].browser /\ call'[h] \in Request
      /\ left'[h] = Attempts /\ pc'[h] = IF Officer(h) THEN "respond" ELSE "store"
  BY <1>1, <1>2 DEF TypeOK, Request, Submitting
<1>4. parted' = parted \cup (IF Officer(h) THEN {a} ELSE {})
  BY <1>1, <1>3 DEF Forward, Part
<1>5. TypeOK'
  <2>1. call' \in [Handlers -> Request]
    BY <1>3 DEF TypeOK
  <2>2. by' \in [Apps -> Browsers \cup {NoApp}]
    BY <1>1 DEF TypeOK, Request
  <2>3. app' \in [Apps -> Stages]
    BY <1>1 DEF TypeOK, Stages
  <2>4. left' \in [Handlers -> 0 .. Attempts]
    BY <1>2 DEF TypeOK
  <2>5. pc' \in [Handlers -> PCs]
    BY <1>2 DEF TypeOK, PCs
  <2> QED BY <1>1, <1>2, <1>4, <2>1, <2>2, <2>3, <2>4, <2>5 DEF TypeOK, back
<1>6. \A g \in Handlers : ~Submits(g, a)
  BY <1>1 DEF SubmitterIsAlone
<1>7. /\ a \notin session /\ \A b \in Browsers : cookie[b] # a
      /\ \A c \in Apps : c # a => app'[c] = app[c] /\ by'[c] = by[c]
      /\ app'[a] = "inert" /\ by'[a] = call[h].browser
  BY <1>1 DEF AbsentIsFresh, TypeOK
<1>8. HandlersRely'
  <2> SUFFICES ASSUME NEW g \in Handlers PROVE Relies(g)'
    BY DEF HandlersRely
  <2>1. CASE g = h
    BY <1>1, <1>3, <1>4, <1>7, <2>1 DEF Relies, Submitting, Officer
  <2>2. CASE g # h
    BY <1>1, <1>3, <1>4, <1>7, <2>2 DEF HandlersRely, Relies, Submitting, Officer
  <2> QED BY <2>1, <2>2
<1>9. \A g \in Handlers, c \in Apps :
         Submits(g, c)' <=> (g = h /\ c = a) \/ (g # h /\ c # a /\ Submits(g, c))
  BY <1>3, <1>6 DEF Submits, At, Submitting
<1>10. SubmitterIsAlone'
  BY <1>1, <1>3, <1>7, <1>9 DEF SubmitterIsAlone
<1>11. AbsentIsFresh'
  BY <1>1, <1>7 DEF AbsentIsFresh
<1>12. NobodyStranded'
  <2> SUFFICES ASSUME NEW c \in Apps, Unfinished(c)', c \notin parted'
               PROVE  InProgress(c)' \/ InHand(c)'
    BY DEF NobodyStranded
  <2>1. CASE c = a
    BY <1>9, <2>1 DEF InProgress, Submits
  <2>2. CASE c # a
    <3>1. InProgress(c) \/ InHand(c)
      BY <1>4, <1>7, <2>2 DEF NobodyStranded, Unfinished
    <3>2. ~Submits(h, c)
      BY <1>1, NothingYet
    <3>3. InProgress(c) => InProgress(c)'
      BY <1>9, <2>2, <3>2 DEF InProgress, Submits
    <3>4. InHand(c) => InHand(c)'
      BY <1>1, <1>7, <2>2 DEF InHand
    <3> QED BY <3>1, <3>3, <3>4
  <2> QED BY <2>1, <2>2
<1> QED BY <1>5, <1>8, <1>10, <1>11, <1>12

(* What origination does for a forwarded request keeps the invariant       *)
(* (Act).                                                                  *)
LEMMA ForwardActs ==
    ASSUME GatewayInv, NEW h \in Handlers, Forward(h), NEW a \in Apps, Act(h, a),
           call' = [call EXCEPT ![h].app = a]
    PROVE  GatewayInv'
<1> USE GatewayAssumption DEF GatewayInv
<1>1. /\ pc[h] = "forward" /\ ~Submitting(h) /\ call[h].app = a /\ call[h] \in Request /\ by' = by
      /\ UNCHANGED <<back, session, cookie>>
  BY ActAdvances DEF Forward, At, TypeOK
<1>2. PICK v \in {"decided", "funded"} :
         /\ app' = [app EXCEPT ![a] = v]
         /\ call[h].kind = "accept" \/ app[a] = "funded" => v = "funded"
  BY ActAdvances
<1>3. app[a] \in {"inert", "decided", "funded"}
  BY ActAdvances
<1>4. /\ pc' = [pc EXCEPT ![h] = IF call[h].kind = "accept" /\ call[h].sid # NoApp THEN "clear" ELSE "respond"]
      /\ left' = [left EXCEPT ![h] = Attempts] /\ token' = [token EXCEPT ![h] = NoApp]
      /\ parted' = parted
  BY <1>1 DEF Forward, Submitting, Part
<1>5. \A g \in Handlers :
         /\ call'[g] \in Request /\ call'[g].app = call[g].app /\ call'[g].kind = call[g].kind
         /\ call'[g].role = call[g].role /\ call'[g].browser = call[g].browser
         /\ g # h => pc'[g] = pc[g] /\ left'[g] = left[g]
  BY <1>1, <1>4 DEF TypeOK, Request
<1>6. /\ pc'[h] \in {"clear", "respond"} /\ (pc'[h] = "clear" => call[h].kind = "accept")
  BY <1>4 DEF TypeOK
<1>7. TypeOK'
  <2>1. call' \in [Handlers -> Request]
    BY <1>5 DEF TypeOK
  <2>2. app' \in [Apps -> Stages]
    BY <1>2 DEF TypeOK, Stages
  <2>3. left' \in [Handlers -> 0 .. Attempts]
    BY <1>4 DEF TypeOK
  <2>4. pc' \in [Handlers -> PCs]
    BY <1>4 DEF TypeOK, PCs
  <2> QED BY <1>1, <1>4, <2>1, <2>2, <2>3, <2>4 DEF TypeOK, back
<1>8. \A c \in Apps : /\ c # a => app'[c] = app[c]
                      /\ app[c] = "funded" => app'[c] = "funded"
                      /\ app'[c] = "absent" <=> app[c] = "absent"
                      /\ Unfinished(c)' => Unfinished(c)
  BY <1>1, <1>2, <1>3 DEF TypeOK, Unfinished
<1>9. call[h].kind = "accept" => app'[a] = "funded"
  BY <1>2 DEF TypeOK
<1>10. HandlersRely'
  <2> SUFFICES ASSUME NEW g \in Handlers PROVE Relies(g)'
    BY DEF HandlersRely
  <2>1. CASE g = h
    BY <1>1, <1>5, <1>6, <1>9, <2>1 DEF Relies, Submitting, Officer
  <2>2. CASE g # h
    BY <1>1, <1>4, <1>5, <1>8, <2>2 DEF HandlersRely, Relies, Submitting, Officer
  <2> QED BY <2>1, <2>2
<1>11. \A g \in Handlers : At(g, "idle")' <=> At(g, "idle")
  BY <1>1, <1>5, <1>6 DEF At
<1> QED BY <1>1, <1>4, <1>5, <1>7, <1>8, <1>10, <1>11, StayKeeps

(* And so does each way a forwarded request may go (Forward).              *)
LEMMA ForwardKeeps == ASSUME GatewayInv, NEW h \in Handlers, Forward(h) PROVE GatewayInv'
<1>1. PICK a \in Apps : /\ Create(h, a) \/ Act(h, a)
                        /\ call' = [call EXCEPT ![h].app = a]
  BY DEF Forward
<1> QED BY <1>1, ForwardCreates, ForwardActs

(* The answer changes the browser's cookie, and nothing that another       *)
(* request in progress relies on.                                          *)
LEMMA RespondKeeps == ASSUME GatewayInv, NEW h \in Handlers, Respond(h) PROVE GatewayInv'
<1> USE GatewayAssumption DEF GatewayInv
<1> DEFINE b == call[h].browser
           a == call[h].app
           new == NewCookie(h)
<1>1. /\ pc[h] = "respond" /\ Finish(h) /\ UNCHANGED <<back, app, session, by>>
      /\ cookie' = [cookie EXCEPT ![b] = new] /\ parted \subseteq parted' /\ parted' \subseteq Apps
  BY DEF Respond, At, Refuse, Part, TypeOK
<1>2. call[h] \in Request /\ b \in Browsers /\ a \in Apps
  BY <1>1 DEF TypeOK, Request, HandlersRely, Relies
<1>3. new \in {a, NoApp, cookie[b]}
  BY DEF NewCookie
<1>4. new = a /\ new # cookie[b] => Submits(h, a)
  BY <1>1, <1>2 DEF NewCookie, Submits, At
<1>5. cookie[b] \in Apps /\ cookie[b] # new =>
         cookie[b] \in parted' \/ (cookie[b] = a /\ app[a] = "funded")
  <2>1. CASE new \in {cookie[b], NoApp}
    <3>1. parted' = parted \cup (({cookie[b]} \ {new, a}) \cap Apps)
      BY <2>1 DEF Respond, Part
    <3>2. new = NoApp /\ cookie[b] # NoApp => call[h].kind = "accept"
      BY <1>2 DEF NewCookie
    <3>3. call[h].kind = "accept" => app[a] = "funded"
      BY <1>1 DEF HandlersRely, Relies
    <3> QED BY <2>1, <3>1, <3>2, <3>3
  <2>2. CASE new \notin {cookie[b], NoApp}
    BY <2>2 DEF Respond, Part
  <2> QED BY <2>1, <2>2
<1>6. Submits(h, a) => a \in parted' \/ app[a] = "funded" \/ (a \in session /\ new = a)
  <2>1. Submits(h, a) => a \in parted \/ (~Officer(h) /\ (a \in session \/ app[a] = "funded"))
    BY <1>1 DEF HandlersRely, Relies, Submits
  <2>2. Submits(h, a) /\ ~Officer(h) => new = a
    BY DEF Submits, Submitting, NewCookie
  <2> QED BY <1>1, <2>1, <2>2
<1> HIDE DEF new
<1>7. NoRequest \in Request
  BY DEF NoRequest, Request, Roles, Kinds
<1>8. cookie' \in [Browsers -> Apps \cup {NoApp}]
  BY <1>1, <1>2, <1>3 DEF TypeOK
<1>9. TypeOK'
  BY <1>1, <1>7, <1>8 DEF TypeOK, PCs, Finish, back
<1>10. pc'[h] = "idle" /\ \A g \in Handlers : g # h => pc'[g] = pc[g] /\ call'[g] = call[g] /\ left'[g] = left[g]
  BY <1>1 DEF TypeOK, Finish
<1>11. \A d \in Browsers : cookie'[d] = IF d = b THEN new ELSE cookie[d]
  BY <1>1 DEF TypeOK
<1>12. HandlersRely'
  BY <1>1, <1>10 DEF HandlersRely, Relies, Submitting, Officer
<1>13. \A g \in Handlers, c \in Apps : Submits(g, c)' => g # h /\ Submits(g, c)
  BY <1>10 DEF Submits, At, Submitting
<1>14. SubmitterIsAlone'
  <2> SUFFICES ASSUME NEW g \in Handlers, NEW c \in Apps, Submits(g, c)'
               PROVE  /\ app'[c] # "absent" /\ by'[c] = call'[g].browser
                      /\ \A d \in Browsers : cookie'[d] # c
                      /\ \A k \in Handlers : Submits(k, c)' => k = g
    BY DEF SubmitterIsAlone
  <2>1. g # h /\ Submits(g, c) /\ call'[g] = call[g]
    BY <1>10, <1>13
  <2>2. /\ app[c] # "absent" /\ by[c] = call[g].browser
        /\ \A d \in Browsers : cookie[d] # c
        /\ \A k \in Handlers : Submits(k, c) => k = g
    BY <2>1 DEF SubmitterIsAlone
  <2>3. new # c
    BY <1>2, <1>3, <1>4, <2>1, <2>2
  <2> QED BY <1>1, <1>11, <1>13, <2>1, <2>2, <2>3
<1>15. AbsentIsFresh'
  <2>1. new \in Apps /\ new # cookie[b] => app[new] # "absent"
    BY <1>2, <1>3, <1>4 DEF SubmitterIsAlone
  <2> QED BY <1>1, <1>2, <1>11, <2>1 DEF AbsentIsFresh
<1>16. NobodyStranded'
  <2> SUFFICES ASSUME NEW c \in Apps, Unfinished(c)', c \notin parted'
               PROVE  InProgress(c)' \/ InHand(c)'
    BY DEF NobodyStranded
  <2>1. Unfinished(c) /\ c \notin parted /\ app[c] # "funded"
    BY <1>1 DEF Unfinished
  <2>2. CASE InHand(c)
    <3>1. by[c] = b => new = c
      BY <1>5, <2>1, <2>2 DEF InHand
    <3>2. by[c] \in Browsers
      BY <2>1 DEF Unfinished, TypeOK
    <3> QED BY <1>1, <1>11, <2>2, <3>1, <3>2 DEF InHand
  <2>3. CASE InProgress(c)
    <3>1. PICK g \in Handlers : ~At(g, "idle") /\ Submitting(g) /\ call[g].app = c
      BY <2>3 DEF InProgress
    <3>2. CASE g # h
      BY <3>1, <3>2, <1>10 DEF InProgress, At, Submitting
    <3>3. CASE g = h
      <4>1. c = a /\ Submits(h, a)
        BY <3>1, <3>3 DEF Submits
      <4>2. by[c] = b /\ c \in session /\ new = c
        BY <1>2, <1>6, <2>1, <4>1 DEF SubmitterIsAlone
      <4> QED BY <1>1, <1>2, <1>11, <4>2 DEF InHand
    <3> QED BY <3>2, <3>3
  <2> QED BY <2>1, <2>2, <2>3 DEF NobodyStranded
<1> QED BY <1>9, <1>12, <1>14, <1>15, <1>16

(* A session that expires parts a submission from its browser (Expire).    *)
LEMMA ExpireKeeps == ASSUME GatewayInv, NEW a \in Apps, Expire(a) PROVE GatewayInv'
<1> USE DEF GatewayInv
<1>1. /\ session' = session \ {a} /\ parted' = parted \cup {a}
      /\ UNCHANGED <<redis, linked, app, cookie, pc, call, token, left, by>>
  BY DEF Expire, Part, back, work
<1>2. TypeOK'
  BY <1>1 DEF TypeOK
<1>3. HandlersRely'
  BY <1>1 DEF HandlersRely, Relies, Submitting, Officer
<1> QED BY <1>1, <1>2, <1>3, StayKeeps DEF At, Unfinished

(* An outage of Redis, or its end, moves no submission (Outage).           *)
LEMMA OutageKeeps == ASSUME GatewayInv, Outage PROVE GatewayInv'
<1> USE DEF GatewayInv
<1>1. redis' \in {"up", "down"} /\ UNCHANGED <<linked, app, session, cookie, pc, call, token, left, by, parted>>
  BY DEF Outage, work
<1>2. TypeOK'
  BY <1>1 DEF TypeOK
<1>3. HandlersRely'
  BY <1>1 DEF HandlersRely, Relies, Submitting, Officer
<1> QED BY <1>1, <1>2, <1>3, StayKeeps DEF At, Unfinished

-----------------------------------------------------------------------------
(* Each step of any request, and each fault, keeps the invariant (Next).   *)
LEMMA StepKeeps == GatewayInv /\ [Next]_vars => GatewayInv'
<1> SUFFICES ASSUME GatewayInv, [Next]_vars PROVE GatewayInv'
  OBVIOUS
<1>1. ASSUME NEW h \in Handlers, HandlerStep(h) PROVE GatewayInv'
  BY <1>1, ReceiveKeeps, PrecheckKeeps, ResolveKeeps, ForwardKeeps, ForwardLostKeeps,
     OtherEndsKeep, StoreSessionKeeps, StoreFailsKeeps, ProbeKeeps, DeleteKeeps,
     ClearKeeps, RespondKeeps DEF HandlerStep
<1>2. ASSUME NEW a \in Apps, Expire(a) PROVE GatewayInv'
  BY <1>2, ExpireKeeps
<1>3. CASE Outage
  BY <1>3, OutageKeeps
<1>4. CASE UNCHANGED vars
  BY <1>4 DEF vars, back, work, GatewayInv, TypeOK, HandlersRely, Relies, SubmitterIsAlone,
     AbsentIsFresh, NobodyStranded, Submits, At, Submitting, Officer, Unfinished, InProgress, InHand
<1> QED BY <1>1, <1>2, <1>3, <1>4 DEF Next

(* So the gateway's invariant holds in every state.                        *)
LEMMA GatewayInvHolds == Spec => []GatewayInv
<1> QED BY StartsKept, StepKeeps, PTL DEF Spec

(* The variables of the /los proxy keep their types: a handler's call, its *)
(* attempts and its token (the proxy's locals) are those of one request.   *)
THEOREM GatewayTypeHolds == Spec => []TypeOK
<1>1. GatewayInv => TypeOK
  BY DEF GatewayInv
<1> QED BY <1>1, GatewayInvHolds, PTL

(* However the requests of however many browsers interleave, whatever      *)
(* fails: an application its browser submitted, and no fault has parted    *)
(* from it, is under way, or in that browser's cookie with its session in  *)
(* Redis (los's submit branch and _create_resume_session_with_retry).      *)
THEOREM NobodyIsStranded == Spec => []NobodyStranded
<1>1. GatewayInv => NobodyStranded
  BY DEF GatewayInv
<1> QED BY <1>1, GatewayInvHolds, PTL

(* The compensation is alone with what it takes: its application has no    *)
(* session, is in no browser's cookie, and was not decided                 *)
(* (abandon_application).                                                  *)
THEOREM CompensationHolds == Spec => CompensationTakesTheInert
<1> DEFINE Takes(a) == app'[a] = "abandoned" /\ app[a] # "abandoned"
           Alone(a) == app[a] = "inert" /\ a \notin session /\ \A b \in Browsers : cookie[b] # a
<1>1. ASSUME GatewayInv, [Next]_vars, NEW a \in Apps, Takes(a) PROVE Alone(a)
  <2>1. app' # app
    BY <1>1
  <2>2. PICK h \in Handlers : Forward(h) \/ ForwardLost(h) \/ Delete(h)
    BY <1>1, <2>1 DEF Next, HandlerStep, vars, Receive, Precheck, Resolve, ForwardRefused,
       StoreSession, StoreFails, AbandonFails, Probe, ClearSession, Respond, RespondLost, Crash,
       Expire, Outage
  <2>3. CASE Forward(h) \/ ForwardLost(h)
    <3>1. PICK c \in Apps : Create(h, c) \/ Act(h, c)
      BY <2>3 DEF Forward, ForwardLost
    <3>2. \E v \in {"inert", "decided", "funded"} : app' = [app EXCEPT ![c] = v]
      BY <1>1, <3>1, ActAdvances DEF Create
    <3> QED BY <1>1, <3>2 DEF GatewayInv, TypeOK
  <2>4. CASE Delete(h)
    <3>1. a = call[h].app /\ app[a] = "inert"
      BY <1>1, <2>4 DEF Delete, GatewayInv, TypeOK
    <3>2. Submits(h, a) /\ a \notin session
      BY <1>1, <2>4, <3>1 DEF Delete, At, GatewayInv, HandlersRely, Relies, Submits
    <3> QED BY <1>1, <3>1, <3>2 DEF GatewayInv, SubmitterIsAlone
  <2> QED BY <2>2, <2>3, <2>4
<1>2. GatewayInv /\ [Next]_vars =>
         [\A a \in Apps : app'[a] = "abandoned" /\ app[a] # "abandoned" =>
             /\ app[a] = "inert"
             /\ a \notin session /\ \A b \in Browsers : cookie[b] # a]_vars
  BY <1>1
<1> QED BY <1>2, GatewayInvHolds, PTL DEF Spec, CompensationTakesTheInert

-----------------------------------------------------------------------------
(* The assistant (assistant.py, assistant_runs.py).                        *)

(* The stages in which the model and the tools have the run.               *)
InLoop == {"model", "score", "record", "policy", "validate"}

ByRun(r) == {e \in DOMAIN events : events[e].by = r}

(* Nothing is answered before the run ends.                                *)
AnswersLast == \A r \in Runs : stage[r] \in InLoop \cup {"idle"} => reply[r] = NoReply

(* A run that holds no score has recorded nothing yet: the call that       *)
(* records either fills state["score"] or ends the loop.                   *)
HoldsWhatItRecorded ==
    \A r \in Runs : /\ stage[r] = "idle" => ByRun(r) = {}
                    /\ stage[r] \in InLoop /\ scored[r] = 0 => ByRun(r) = {}

(* The score a run holds is an event of its own request.                   *)
HoldsItsOwn ==
    \A r \in Runs : scored[r] # 0 => /\ stage[r] # "idle"
                                     /\ scored[r] \in Recorded(ask[r].request)

(* A decision's 200 shows an event of its own request.                     *)
AnswersItsRequest ==
    \A r \in Runs :
        reply[r].status = "served" /\ Deciding(r)
            => /\ reply[r].event \in DOMAIN events
               /\ events[reply[r].event].request = ask[r].request

RunInv ==
    /\ AnswersLast
    /\ HoldsWhatItRecorded
    /\ HoldsItsOwn
    /\ AnswersItsRequest
    /\ MarkIsTrue

(* A request is recorded once, and replayed afterwards.                    *)
RecordedOnce ==
    \A e, f \in DOMAIN events :
        events[e].request = events[f].request /\ events[e].request # NoRun => e = f

AssistantInv == AssistantTypeOK /\ RunInv /\ RecordedOnce

-----------------------------------------------------------------------------
(* The greatest element that _validated_final's record has *)

(* A set of numbers below a bound has a greatest element.                  *)
LEMMA Greatest ==
  ASSUME NEW n \in Nat, NEW T \in SUBSET (0 .. n), T # {}
  PROVE \E x \in T : \A y \in T : y <= x
<1> DEFINE U == {m \in Nat : \E x \in T : m = n - x}
<1>1. U \in SUBSET Nat
  OBVIOUS
<1>2. U # {}
  <2>1. PICK x \in T : TRUE
    OBVIOUS
  <2>2. n - x \in Nat
    OBVIOUS
  <2>3. n - x \in U
    BY <2>2
  <2> QED BY <2>3
<1>3. PICK u \in U : \A v \in U : u <= v
  <2> HIDE DEF U
  <2> QED BY <1>1, <1>2, Least
<1>4. PICK x \in T : u = n - x
  OBVIOUS
<1>5. ASSUME NEW y \in T PROVE y <= x
  <2>1. n - y \in Nat
    OBVIOUS
  <2>2. n - y \in U
    BY <2>1
  <2>3. u <= n - y
    BY <2>2, <1>3
  <2> QED BY <2>3, <1>4
<1> QED BY <1>5

(* What `Newest' takes of a record is in the record.                       *)
LEMMA NewestIsOne ==
  ASSUME NEW n \in Nat, NEW T \in SUBSET (0 .. n), T # {}
  PROVE Newest(T) \in T
<1>1. \E x \in T : \A y \in T : y <= x
  BY Greatest
<1> QED BY <1>1 DEF Newest

-----------------------------------------------------------------------------
(* Types *)

(* No run has begun at first (AssistantInit).                              *)
LEMMA AssistantTypesStart == AssistantInit => AssistantTypeOK
<1> SUFFICES ASSUME AssistantInit PROVE AssistantTypeOK
  OBVIOUS
<1>1. NoReply \in Reply
  BY AssistantAssumption DEF NoReply, Reply
<1>2. ASSUME NEW r \in Runs
      PROVE  [task |-> "explain", topic |-> FALSE, request |-> r] \in Ask
  BY DEF Ask
<1>3. events \in Seq(Event) /\ Len(events) <= MaxEvents
  BY AssistantAssumption DEF AssistantInit
<1>4. stage \in [Runs -> RunStages]
  BY DEF AssistantInit, RunStages
<1>5. ask \in [Runs -> Ask]
  BY <1>2 DEF AssistantInit
<1>6. reply \in [Runs -> Reply]
  BY <1>1 DEF AssistantInit
<1>7. talk \in [Runs -> Seq(Turn)]
  BY DEF AssistantInit
<1>8. /\ nodes \in [Runs -> Nat]
      /\ tries \in [Runs -> 0 .. MaxRetries]
      /\ scored \in [Runs -> 0 .. MaxEvents]
      /\ searched \in [Runs -> BOOLEAN]
  BY AssistantAssumption DEF AssistantInit
<1> QED BY <1>3, <1>4, <1>5, <1>6, <1>7, <1>8 DEF AssistantInit, AssistantTypeOK

(* An answer that is decided is one the type allows, and so is its stage.  *)
LEMMA DecideTypes ==
  ASSUME AssistantTypeOK, NEW r \in Runs,
         NEW status \in {"none", "turned_away", "served"} \cup Refusals,
         NEW e \in 0 .. MaxEvents, NEW mark \in {"unsaid", "yes", "no"},
         Decide(r, status, e, mark)
  PROVE  reply' \in [Runs -> Reply] /\ stage' \in [Runs -> RunStages]
<1>1. [status |-> status, event |-> e, scored |-> mark] \in Reply
  BY DEF Reply
<1>2. "write" \in RunStages
  BY DEF RunStages
<1> QED BY <1>1, <1>2 DEF Decide, Move, AssistantTypeOK

(* A refused run has a reply of its type (RefuseRun).                      *)
LEMMA RefuseTypes ==
  ASSUME AssistantTypeOK, NEW r \in Runs, NEW status \in Refusals, RefuseRun(r, status)
  PROVE  reply' \in [Runs -> Reply] /\ stage' \in [Runs -> RunStages]
<1>1. 0 \in 0 .. MaxEvents
  BY AssistantAssumption
<1> QED BY <1>1, DecideTypes DEF RefuseRun

(* A run that moves on is in one of its stages (Move).                     *)
LEMMA MoveTypes ==
  ASSUME AssistantTypeOK, NEW r \in Runs, NEW to \in RunStages, Move(r, to)
  PROVE  stage' \in [Runs -> RunStages]
BY DEF Move, AssistantTypeOK

(* A tool's result is a turn of the talk (Returns).                        *)
LEMMA ReturnTypes ==
  ASSUME AssistantTypeOK, NEW r \in Runs, NEW tool \in {"score", "record", "policy"},
         Returns(r, tool)
  PROVE  /\ talk' \in [Runs -> Seq(Turn)]
         /\ nodes' \in [Runs -> Nat]
         /\ stage' \in [Runs -> RunStages]
<1>1. [kind |-> "result", tool |-> tool] \in Turn
  BY DEF Turn
<1>2. talk[r] \in Seq(Turn)
  BY DEF AssistantTypeOK
<1>3. Append(talk[r], [kind |-> "result", tool |-> tool]) \in Seq(Turn)
  BY <1>1, <1>2
<1>4. talk' \in [Runs -> Seq(Turn)]
  BY <1>3 DEF Returns, AssistantTypeOK
<1>5. "model" \in RunStages
  BY DEF RunStages
<1>6. stage' \in [Runs -> RunStages]
  BY <1>5, MoveTypes DEF Returns
<1> QED BY <1>4, <1>6 DEF Returns, AssistantTypeOK

(* A completion is counted within the retries (Completes).                 *)
LEMMA CompleteTypes ==
  ASSUME AssistantTypeOK, NEW r \in Runs, Completes(r)
  PROVE  tries' \in [Runs -> 0 .. MaxRetries] /\ nodes' \in [Runs -> Nat]
BY AssistantAssumption DEF Completes, AssistantTypeOK

(* The record grows by an event of the application's, or not at all.       *)
LEMMA ScoresGrow ==
  ASSUME AssistantTypeOK, NEW r \in Runs, NEW o \in Outcomes, NEW e \in 1 .. MaxEvents,
         Scores(r, e, o)
  PROVE  /\ events' \in Seq(Event) /\ Len(events') <= MaxEvents
         /\ Len(events) <= Len(events')
         /\ \A f \in DOMAIN events : events'[f] = events[f]
         /\ \A f \in DOMAIN events' : f \notin DOMAIN events => events'[f].by = r
         /\ e \in DOMAIN events' /\ events'[e].request = ask[r].request
<1>1. /\ events \in Seq(Event) /\ Len(events) <= MaxEvents /\ Len(events) \in Nat
      /\ ask[r] \in Ask
  BY DEF AssistantTypeOK
<1>2. CASE Recorded(ask[r].request) # {}
  <2>1. e \in Recorded(ask[r].request) /\ events' = events
    BY <1>2 DEF Scores
  <2> QED BY <1>1, <2>1 DEF Recorded
<1>3. CASE ~ (Recorded(ask[r].request) # {})
  <2> DEFINE new == [request |-> ask[r].request, outcome |-> o, by |-> r]
  <2>1. Len(events) < MaxEvents /\ e = Len(events) + 1 /\ events' = Append(events, new)
    BY <1>3 DEF Scores
  <2>2. ask[r].request \in Keys \cup Runs
    BY <1>1 DEF Ask
  <2>3. new \in Event
    BY <2>2 DEF Event
  <2>4. new.by = r /\ new.request = ask[r].request
    OBVIOUS
  <2> HIDE DEF new
  <2> QED BY <1>1, <2>1, <2>3, <2>4, AssistantAssumption
<1> QED BY <1>2, <1>3

(* Each step keeps the types (AssistantNext).                              *)
LEMMA AssistantTypesStep == AssistantTypeOK /\ [AssistantNext]_assistantVars => AssistantTypeOK'
<1> SUFFICES ASSUME AssistantTypeOK, [AssistantNext]_assistantVars PROVE AssistantTypeOK'
  OBVIOUS
<1>1. ASSUME NEW r \in Runs, NotAdmitted(r) PROVE AssistantTypeOK'
  <2>1. stage' \in [Runs -> RunStages]
    BY <1>1, MoveTypes DEF NotAdmitted, RunStages
  <2>2. [reply[r] EXCEPT !.status = "turned_away"] \in Reply
    BY DEF AssistantTypeOK, Reply
  <2>3. reply' \in [Runs -> Reply]
    BY <1>1, <2>2 DEF NotAdmitted, AssistantTypeOK
  <2> QED BY <1>1, <2>1, <2>3 DEF NotAdmitted, AssistantTypeOK, loop
<1>2. ASSUME NEW r \in Runs, RefuseBeforeLoop(r) PROVE AssistantTypeOK'
  <2>1. "before_loop" \in Refusals
    BY DEF Refusals
  <2> QED BY <1>2, <2>1, RefuseTypes DEF RefuseBeforeLoop, AssistantTypeOK, loop
<1>3. ASSUME NEW r \in Runs, BeginRun(r) PROVE AssistantTypeOK'
  <2>1. stage' \in [Runs -> RunStages]
    BY <1>3, MoveTypes DEF BeginRun, RunStages
  <2>2. ask' \in [Runs -> Ask]
    BY <1>3 DEF BeginRun, AssistantTypeOK
  <2> QED BY <1>3, <2>1, <2>2 DEF BeginRun, AssistantTypeOK, loop
<1>4. ASSUME NEW r \in Runs, NoRoom(r) \/ CallFails(r) PROVE AssistantTypeOK'
  <2>1. "llm_unavailable" \in Refusals
    BY DEF Refusals
  <2> QED BY <1>4, <2>1, RefuseTypes DEF NoRoom, CallFails, AssistantTypeOK, loop
<1>5. ASSUME NEW r \in Runs, RetryCall(r) PROVE AssistantTypeOK'
  BY <1>5, AssistantAssumption DEF RetryCall, AssistantTypeOK
<1>6. ASSUME NEW r \in Runs, Misspeaks(r) PROVE AssistantTypeOK'
  <2>1. "llm_unavailable" \in Refusals
    BY DEF Refusals
  <2> QED BY <1>6, <2>1, RefuseTypes, CompleteTypes DEF Misspeaks, AssistantTypeOK
<1>7. ASSUME NEW r \in Runs, Concludes(r) PROVE AssistantTypeOK'
  <2>1. "assistant_refused" \in Refusals /\ "validate" \in RunStages
    BY DEF Refusals, RunStages
  <2>2. CASE RefuseRun(r, "assistant_refused")
    BY <1>7, <2>1, <2>2, RefuseTypes, CompleteTypes DEF Concludes, AssistantTypeOK
  <2>3. CASE Move(r, "validate") /\ UNCHANGED reply
    BY <1>7, <2>1, <2>3, MoveTypes, CompleteTypes DEF Concludes, AssistantTypeOK
  <2> QED BY <1>7, <2>2, <2>3 DEF Concludes
<1>8. ASSUME NEW r \in Runs, NEW tool \in {"score", "record", "policy"}, ChoosesTool(r, tool)
      PROVE  AssistantTypeOK'
  <2>1. CASE OutOfSteps(r)
    <3> DEFINE mark == IF scored[r] # 0 THEN "yes" ELSE "no"
    <3>1. Decide(r, "assistant_refused", 0, mark) /\ UNCHANGED talk
      BY <1>8, <2>1 DEF ChoosesTool, RefuseUnfinished
    <3>2. /\ "assistant_refused" \in {"none", "turned_away", "served"} \cup Refusals
          /\ 0 \in 0 .. MaxEvents /\ mark \in {"unsaid", "yes", "no"}
      BY AssistantAssumption DEF Refusals
    <3>3. reply' \in [Runs -> Reply] /\ stage' \in [Runs -> RunStages]
      <4> HIDE DEF mark
      <4> QED BY <3>1, <3>2, DecideTypes
    <3> QED BY <1>8, <3>1, <3>3, CompleteTypes DEF ChoosesTool, AssistantTypeOK
  <2>2. CASE ~ OutOfSteps(r)
    <3>1. Chosen(r, tool) \in {"score", "record", "policy"}
      BY DEF Chosen
    <3> DEFINE turn == [kind |-> "use", tool |-> Chosen(r, tool)]
    <3>2. turn \in Turn /\ Chosen(r, tool) \in RunStages
      BY <3>1 DEF Turn, RunStages
    <3>3. /\ Move(r, Chosen(r, tool))
          /\ talk' = [talk EXCEPT ![r] = Append(talk[r], turn)]
          /\ UNCHANGED reply
      BY <1>8, <2>2 DEF ChoosesTool
    <3>4. stage' \in [Runs -> RunStages]
      BY <3>2, <3>3, MoveTypes
    <3>5. talk' \in [Runs -> Seq(Turn)]
      <4> HIDE DEF turn
      <4>1. Append(talk[r], turn) \in Seq(Turn)
        BY <3>2 DEF AssistantTypeOK
      <4> QED BY <4>1, <3>3 DEF AssistantTypeOK
    <3> QED BY <1>8, <3>3, <3>4, <3>5, CompleteTypes DEF ChoosesTool, AssistantTypeOK
  <2> QED BY <2>1, <2>2
<1>9. ASSUME NEW r \in Runs, ScoreRefused(r) PROVE AssistantTypeOK'
  <2>1. PICK status \in Refusals : RefuseRun(r, status)
    BY <1>9 DEF ScoreRefused, Refusals
  <2> QED BY <1>9, <2>1, RefuseTypes DEF ScoreRefused, AssistantTypeOK, loop
<1>10. ASSUME NEW r \in Runs, ScoreConflicts(r) PROVE AssistantTypeOK'
  <2>1. "idempotency_conflict" \in Refusals
    BY DEF Refusals
  <2> QED BY <1>10, <2>1, RefuseTypes DEF ScoreConflicts, AssistantTypeOK, loop
<1>11. ASSUME NEW r \in Runs, NEW o \in Outcomes, ScoreTool(r, o) PROVE AssistantTypeOK'
  <2>1. PICK e \in 1 .. MaxEvents : Scores(r, e, o) /\ scored' = [scored EXCEPT ![r] = e]
    BY <1>11 DEF ScoreTool
  <2>2. events' \in Seq(Event) /\ Len(events') <= MaxEvents
    BY <2>1, ScoresGrow
  <2>3. scored' \in [Runs -> 0 .. MaxEvents]
    BY <2>1, AssistantAssumption DEF AssistantTypeOK
  <2>4. Returns(r, "score")
    BY <1>11 DEF ScoreTool
  <2> QED BY <1>11, <2>2, <2>3, <2>4, ReturnTypes DEF ScoreTool, AssistantTypeOK
<1>12. ASSUME NEW r \in Runs, NEW o \in Outcomes, ScoreLost(r, o) PROVE AssistantTypeOK'
  <2>1. "downstream_unavailable" \in Refusals
    BY DEF Refusals
  <2>2. events' \in Seq(Event) /\ Len(events') <= MaxEvents
    BY <1>12, ScoresGrow DEF ScoreLost, AssistantTypeOK
  <2> QED BY <1>12, <2>1, <2>2, RefuseTypes DEF ScoreLost, AssistantTypeOK, loop
<1>13. ASSUME NEW r \in Runs, RecordTool(r) PROVE AssistantTypeOK'
  BY <1>13, ReturnTypes DEF RecordTool, AssistantTypeOK
<1>14. ASSUME NEW r \in Runs, ReadFails(r) PROVE AssistantTypeOK'
  <2>1. "assistant_refused" \in Refusals /\ "downstream_unavailable" \in Refusals
    BY DEF Refusals
  <2> QED BY <1>14, <2>1, RefuseTypes DEF ReadFails, AssistantTypeOK, loop
<1>15. ASSUME NEW r \in Runs, PolicyTool(r) PROVE AssistantTypeOK'
  <2>1. searched' \in [Runs -> BOOLEAN]
    BY <1>15 DEF PolicyTool, AssistantTypeOK
  <2> QED BY <1>15, <2>1, ReturnTypes DEF PolicyTool, AssistantTypeOK
<1>16. ASSUME NEW r \in Runs, Validates(r) PROVE AssistantTypeOK'
  <2>1. \/ Shown(r) # {} /\ Decide(r, "served", Newest(Shown(r)), "unsaid")
        \/ Decide(r, "served", 0, "unsaid")
        \/ \E status \in Refusals : RefuseRun(r, status)
    BY <1>16 DEF Validates, Refusals
  <2>2. Shown(r) \in SUBSET (0 .. MaxEvents)
    BY AssistantAssumption DEF Shown, Recorded, AssistantTypeOK
  <2>3. Shown(r) # {} => Newest(Shown(r)) \in 0 .. MaxEvents
    BY <2>2, NewestIsOne, AssistantAssumption
  <2>4. 0 \in 0 .. MaxEvents
    BY AssistantAssumption
  <2>5. reply' \in [Runs -> Reply] /\ stage' \in [Runs -> RunStages]
    BY <2>1, <2>3, <2>4, DecideTypes, RefuseTypes
  <2> QED BY <1>16, <2>5 DEF Validates, AssistantTypeOK, loop
<1>17. ASSUME NEW r \in Runs, WritesRow(r) PROVE AssistantTypeOK'
  <2>1. stage' \in [Runs -> RunStages]
    BY <1>17, MoveTypes DEF WritesRow, RunStages
  <2>2. <<>> \in Seq(Turn) /\ 0 \in 0 .. MaxEvents /\ 0 \in 0 .. MaxRetries
    BY AssistantAssumption
  <2> QED BY <1>17, <2>1, <2>2 DEF WritesRow, AssistantTypeOK
<1>18. ASSUME NEW o \in Outcomes, Redecides(o) PROVE AssistantTypeOK'
  <2> DEFINE new == [request |-> NoRun, outcome |-> o, by |-> NoRun]
  <2>1. new \in Event
    BY DEF Event
  <2>2. Len(events) < MaxEvents /\ events' = Append(events, new)
    BY <1>18 DEF Redecides
  <2>3. events' \in Seq(Event) /\ Len(events') <= MaxEvents
    <3> HIDE DEF new
    <3> QED BY <2>1, <2>2, AssistantAssumption DEF AssistantTypeOK
  <2> QED BY <1>18, <2>3 DEF Redecides, AssistantTypeOK, loop
<1>19. ASSUME UNCHANGED assistantVars PROVE AssistantTypeOK'
  BY <1>19 DEF assistantVars, loop, AssistantTypeOK
<1> QED BY <1>1, <1>2, <1>3, <1>4, <1>5, <1>6, <1>7, <1>8, <1>9, <1>10, <1>11, <1>12,
           <1>13, <1>14, <1>15, <1>16, <1>17, <1>18, <1>19 DEF AssistantNext, RunStep

-----------------------------------------------------------------------------
(* What a run's step may do to what is asked of an answer: nothing, go on  *)
(* in the loop, decide, or add to the record.                              *)

answerVars == <<stage, ask, scored, events, reply>>

(* Nothing was asked, scored or answered at first (AssistantInit).         *)
LEMMA RunStarts == AssistantInit => RunInv
BY DEF AssistantInit, RunInv, AnswersLast, HoldsWhatItRecorded, HoldsItsOwn, ByRun,
       AnswersItsRequest, MarkIsTrue, Recorded, NoReply, InLoop

(* A step that leaves the answers alone keeps what they say.               *)
LEMMA QuietStep == RunInv /\ UNCHANGED answerVars => RunInv'
BY DEF RunInv, answerVars, AnswersLast, HoldsWhatItRecorded, HoldsItsOwn, ByRun,
       AnswersItsRequest, MarkIsTrue, Recorded, InLoop, Deciding

(* A turn of the loop records and answers nothing (Move).                  *)
LEMMA LoopStep ==
  ASSUME AssistantTypeOK, RunInv, NEW r \in Runs, NEW to \in InLoop,
         stage[r] \in InLoop, Move(r, to), UNCHANGED <<ask, scored, events, reply>>
  PROVE  RunInv'
<1>1. /\ stage'[r] \in InLoop
      /\ \A q \in Runs : q # r => stage'[q] = stage[q]
  BY DEF Move, AssistantTypeOK
<1>2. stage[r] # "idle" /\ stage'[r] # "idle"
  BY <1>1 DEF InLoop
<1>3. AnswersLast'
  BY <1>1 DEF RunInv, AnswersLast
<1>4. HoldsWhatItRecorded'
  BY <1>1, <1>2 DEF RunInv, HoldsWhatItRecorded, ByRun
<1>5. HoldsItsOwn'
  BY <1>1, <1>2 DEF RunInv, HoldsItsOwn, Recorded
<1> QED BY <1>3, <1>4, <1>5 DEF RunInv, AnswersItsRequest, MarkIsTrue, Recorded, Deciding

(* A reply made of an event and a mark that the run has earned is true     *)
(* (Decide).                                                               *)
LEMMA DecideStep ==
  ASSUME AssistantTypeOK, RunInv, NEW r \in Runs, NEW status, NEW e, NEW mark,
         stage[r] \in InLoop \cup {"idle"},
         Decide(r, status, e, mark), UNCHANGED <<ask, scored, events>>,
         mark = "yes" => scored[r] # 0,
         mark = "no" => stage[r] \in InLoop /\ scored[r] = 0,
         status = "served" /\ Deciding(r) => e \in Recorded(ask[r].request)
  PROVE  RunInv'
<1>1. /\ stage'[r] = "write"
      /\ reply'[r] = [status |-> status, event |-> e, scored |-> mark]
      /\ \A q \in Runs : q # r => stage'[q] = stage[q] /\ reply'[q] = reply[q]
  BY DEF Decide, Move, AssistantTypeOK
<1>2. "write" \notin InLoop /\ "write" # "idle"
  BY DEF InLoop
<1>3. AnswersLast'
  BY <1>1, <1>2 DEF RunInv, AnswersLast
<1>4. HoldsWhatItRecorded'
  BY <1>1, <1>2 DEF RunInv, HoldsWhatItRecorded, ByRun
<1>5. HoldsItsOwn'
  BY <1>1, <1>2 DEF RunInv, HoldsItsOwn, Recorded
<1>6. AnswersItsRequest'
  BY <1>1 DEF RunInv, AnswersItsRequest, Recorded, Deciding
<1>7. ASSUME NEW q \in Runs
      PROVE  /\ reply'[q].scored = "yes" => Recorded(ask[q].request) # {}
             /\ reply'[q].scored = "no" => \A f \in DOMAIN events : events[f].by # q
  <2>1. CASE q = r
    BY <1>1, <2>1 DEF RunInv, HoldsItsOwn, HoldsWhatItRecorded, ByRun
  <2>2. CASE q # r
    BY <1>1, <2>2 DEF RunInv, MarkIsTrue
  <2> QED BY <2>1, <2>2
<1>8. MarkIsTrue'
  BY <1>7 DEF MarkIsTrue, Recorded
<1> QED BY <1>3, <1>4, <1>5, <1>6, <1>8 DEF RunInv

(* A refusal tells nothing of the record (RefuseRun).                      *)
LEMMA RefuseStep ==
  ASSUME AssistantTypeOK, RunInv, NEW r \in Runs, NEW status \in Refusals,
         stage[r] \in InLoop \cup {"idle"},
         RefuseRun(r, status), UNCHANGED <<ask, scored, events>>
  PROVE  RunInv'
<1>1. status # "served"
  BY DEF Refusals
<1> QED BY <1>1, DecideStep DEF RefuseRun

(* The record grows by events of one author, as a step that leaves every   *)
(* other run where it was.                                                 *)
Grows(author) ==
    /\ Len(events) <= Len(events')
    /\ events' \in Seq(Event)
    /\ \A f \in DOMAIN events : events'[f] = events[f]
    /\ \A f \in DOMAIN events' : f \notin DOMAIN events => events'[f].by = author

(* A run that stands still keeps its part of the record while another's    *)
(* grows.                                                                  *)
LEMMA GrownRecord ==
  ASSUME AssistantTypeOK, RunInv, NEW author, Grows(author),
         NEW q \in Runs, q # author, UNCHANGED <<stage[q], ask[q], scored[q], reply[q]>>
  PROVE  /\ stage'[q] \in InLoop \cup {"idle"} => reply'[q] = NoReply
         /\ stage'[q] = "idle" => ByRun(q)' = {}
         /\ stage'[q] \in InLoop /\ scored'[q] = 0 => ByRun(q)' = {}
         /\ scored'[q] # 0 => stage'[q] # "idle" /\ scored'[q] \in Recorded(ask[q].request)'
         /\ reply'[q].status = "served" /\ Deciding(q)'
               => /\ reply'[q].event \in DOMAIN events'
                  /\ events'[reply'[q].event].request = ask'[q].request
         /\ reply'[q].scored = "yes" => Recorded(ask[q].request)' # {}
         /\ reply'[q].scored = "no" => \A f \in DOMAIN events' : events'[f].by # q
<1>1. DOMAIN events \subseteq DOMAIN events'
  BY DEF Grows, AssistantTypeOK
<1>2. ByRun(q)' = ByRun(q)
  BY <1>1 DEF Grows, ByRun
<1>3. \A f \in Recorded(ask[q].request) : f \in Recorded(ask[q].request)'
  BY <1>1 DEF Grows, Recorded
<1>4. /\ stage'[q] \in InLoop \cup {"idle"} => reply'[q] = NoReply
      /\ stage'[q] = "idle" => ByRun(q)' = {}
      /\ stage'[q] \in InLoop /\ scored'[q] = 0 => ByRun(q)' = {}
  BY <1>2 DEF RunInv, AnswersLast, HoldsWhatItRecorded
<1>5. scored'[q] # 0 => stage'[q] # "idle" /\ scored'[q] \in Recorded(ask[q].request)'
  BY <1>3 DEF RunInv, HoldsItsOwn
<1>6. reply'[q].status = "served" /\ Deciding(q)'
               => /\ reply'[q].event \in DOMAIN events'
                  /\ events'[reply'[q].event].request = ask'[q].request
  BY <1>1 DEF RunInv, AnswersItsRequest, Grows, Deciding
<1>7. reply'[q].scored = "yes" => Recorded(ask[q].request)' # {}
  BY <1>3 DEF RunInv, MarkIsTrue
<1>8. reply'[q].scored = "no" => \A f \in DOMAIN events' : events'[f].by # q
  BY <1>2 DEF RunInv, MarkIsTrue, ByRun
<1> QED BY <1>4, <1>5, <1>6, <1>7, <1>8

(* The same of every run, put together.                                    *)
RunAgrees(q) ==
    /\ stage[q] \in InLoop \cup {"idle"} => reply[q] = NoReply
    /\ stage[q] = "idle" => ByRun(q) = {}
    /\ stage[q] \in InLoop /\ scored[q] = 0 => ByRun(q) = {}
    /\ scored[q] # 0 => stage[q] # "idle" /\ scored[q] \in Recorded(ask[q].request)
    /\ reply[q].status = "served" /\ Deciding(q)
          => /\ reply[q].event \in DOMAIN events
             /\ events[reply[q].event].request = ask[q].request
    /\ reply[q].scored = "yes" => Recorded(ask[q].request) # {}
    /\ reply[q].scored = "no" => \A f \in DOMAIN events : events[f].by # q

(* The invariant speaks of one run at a time.                              *)
LEMMA RunInvOfRuns == RunInv <=> \A q \in Runs : RunAgrees(q)
BY DEF RunInv, RunAgrees, AnswersLast, HoldsWhatItRecorded, HoldsItsOwn,
       AnswersItsRequest, MarkIsTrue

(* So the others' runs agree with the record after one has written.        *)
LEMMA OthersAgree ==
  ASSUME AssistantTypeOK, RunInv, NEW author, Grows(author),
         NEW q \in Runs, q # author, UNCHANGED <<stage[q], ask[q], scored[q], reply[q]>>
  PROVE  RunAgrees(q)'
BY GrownRecord DEF RunAgrees

(* A request that is not let in answers so (NotAdmitted).                  *)
LEMMA NotAdmittedStep ==
  ASSUME AssistantTypeOK, RunInv, NEW r \in Runs, NotAdmitted(r)
  PROVE  RunInv'
<1>1. /\ stage[r] = "idle" /\ stage' = [stage EXCEPT ![r] = "done"]
      /\ reply' = [reply EXCEPT ![r].status = "turned_away"]
      /\ UNCHANGED <<ask, scored, events>>
  BY DEF NotAdmitted, Move, loop
<1>2. stage \in [Runs -> RunStages] /\ reply \in [Runs -> Reply]
  BY DEF AssistantTypeOK
<1>3. reply[r] = NoReply /\ scored[r] = 0
  BY <1>1 DEF RunInv, AnswersLast, HoldsItsOwn
<1>4. /\ reply'[r].status = "turned_away" /\ reply'[r].scored = "unsaid"
      /\ stage'[r] = "done"
  BY <1>1, <1>2, <1>3 DEF NoReply
<1>5. RunAgrees(r)'
  BY <1>1, <1>3, <1>4 DEF RunAgrees, InLoop
<1>6. ASSUME NEW q \in Runs, q # r PROVE RunAgrees(q)'
  <2>1. stage'[q] = stage[q] /\ reply'[q] = reply[q]
    BY <1>1, <1>2, <1>6
  <2>2. RunAgrees(q)
    BY RunInvOfRuns
  <2> QED BY <1>1, <2>1, <2>2 DEF RunAgrees, ByRun, Recorded, Deciding
<1>7. \A q \in Runs : RunAgrees(q)'
  BY <1>5, <1>6
<1> QED BY <1>7 DEF RunAgrees, RunInv, AnswersLast, HoldsWhatItRecorded, HoldsItsOwn,
                    AnswersItsRequest, MarkIsTrue

(* A run starts with nothing scored (BeginRun).                            *)
LEMMA BeginRunStep ==
  ASSUME AssistantTypeOK, RunInv, NEW r \in Runs, BeginRun(r)
  PROVE  RunInv'
<1>1. /\ stage[r] = "idle" /\ stage' = [stage EXCEPT ![r] = "model"]
      /\ UNCHANGED <<scored, events, reply>>
  BY DEF BeginRun, Move, loop
<1>2. PICK p \in Ask : ask' = [ask EXCEPT ![r] = p]
  BY DEF BeginRun
<1>3. stage \in [Runs -> RunStages] /\ ask \in [Runs -> Ask]
  BY DEF AssistantTypeOK
<1>4. reply[r] = NoReply /\ scored[r] = 0 /\ ByRun(r) = {}
  BY <1>1 DEF RunInv, AnswersLast, HoldsItsOwn, HoldsWhatItRecorded
<1>5. stage'[r] = "model"
  BY <1>1, <1>3
<1>6. RunAgrees(r)'
  BY <1>1, <1>4, <1>5 DEF RunAgrees, ByRun, NoReply
<1>7. ASSUME NEW q \in Runs, q # r PROVE RunAgrees(q)'
  <2>1. stage'[q] = stage[q] /\ ask'[q] = ask[q]
    BY <1>1, <1>2, <1>3, <1>7
  <2>2. RunAgrees(q)
    BY RunInvOfRuns
  <2> QED BY <1>1, <2>1, <2>2 DEF RunAgrees, ByRun, Recorded, Deciding
<1>8. \A q \in Runs : RunAgrees(q)'
  BY <1>6, <1>7
<1> QED BY <1>8 DEF RunAgrees, RunInv, AnswersLast, HoldsWhatItRecorded, HoldsItsOwn,
                    AnswersItsRequest, MarkIsTrue

(* The score tool writes one event of its own request (ScoreTool).         *)
LEMMA ScoreToolStep ==
  ASSUME AssistantTypeOK, RunInv, NEW r \in Runs, NEW o \in Outcomes, ScoreTool(r, o)
  PROVE  RunInv'
<1>1. PICK e \in 1 .. MaxEvents : Scores(r, e, o) /\ scored' = [scored EXCEPT ![r] = e]
  BY DEF ScoreTool
<1>2. /\ Grows(r)
      /\ e \in DOMAIN events' /\ events'[e].request = ask[r].request
  BY <1>1, ScoresGrow DEF Grows, AssistantTypeOK
<1>3. /\ stage[r] = "score" /\ stage' = [stage EXCEPT ![r] = "model"]
      /\ UNCHANGED <<ask, reply>>
  BY <1>1 DEF ScoreTool, Scores, Returns, Move
<1>4. stage \in [Runs -> RunStages] /\ scored \in [Runs -> 0 .. MaxEvents]
  BY DEF AssistantTypeOK
<1>5. stage'[r] = "model" /\ scored'[r] = e /\ reply[r] = NoReply
  BY <1>1, <1>3, <1>4 DEF RunInv, AnswersLast, InLoop
<1>6. RunAgrees(r)'
  <2>1. e # 0 /\ e \in Recorded(ask[r].request)'
    BY <1>2, <1>3 DEF Recorded
  <2> QED BY <1>3, <1>5, <2>1 DEF RunAgrees, NoReply
<1>7. ASSUME NEW q \in Runs, q # r PROVE RunAgrees(q)'
  <2>1. stage'[q] = stage[q] /\ scored'[q] = scored[q]
    BY <1>1, <1>3, <1>4, <1>7
  <2>2. UNCHANGED <<stage[q], ask[q], scored[q], reply[q]>>
    BY <2>1, <1>3
  <2> QED BY <1>2, <1>7, <2>2, OthersAgree
<1>8. \A q \in Runs : RunAgrees(q)'
  BY <1>6, <1>7
<1> QED BY <1>8 DEF RunAgrees, RunInv, AnswersLast, HoldsWhatItRecorded, HoldsItsOwn,
                    AnswersItsRequest, MarkIsTrue

(* Its event may be written and its answer lost (ScoreLost).               *)
LEMMA ScoreLostStep ==
  ASSUME AssistantTypeOK, RunInv, NEW r \in Runs, NEW o \in Outcomes, ScoreLost(r, o)
  PROVE  RunInv'
<1>1. Grows(r)
  <2>1. ASSUME NEW e \in 1 .. MaxEvents, Scores(r, e, o) PROVE Grows(r)
    BY <2>1, ScoresGrow DEF Grows
  <2>2. CASE UNCHANGED events
    BY <2>2 DEF Grows, AssistantTypeOK
  <2> QED BY <2>1, <2>2 DEF ScoreLost
<1>2. /\ stage[r] = "score" /\ stage' = [stage EXCEPT ![r] = "write"]
      /\ reply' = [reply EXCEPT ![r] = [status |-> "downstream_unavailable",
                                         event |-> 0, scored |-> "unsaid"]]
      /\ UNCHANGED <<ask, scored>>
  BY DEF ScoreLost, RefuseRun, Decide, Move, loop
<1>3. stage \in [Runs -> RunStages] /\ reply \in [Runs -> Reply]
  BY DEF AssistantTypeOK
<1>4. /\ stage'[r] = "write" /\ reply'[r].scored = "unsaid"
      /\ reply'[r].status = "downstream_unavailable"
  BY <1>2, <1>3
<1>5. RunAgrees(r)'
  <2>1. scored[r] # 0 => scored[r] \in Recorded(ask[r].request)'
    BY <1>1, <1>2 DEF RunInv, HoldsItsOwn, Grows, Recorded, AssistantTypeOK
  <2> QED BY <1>2, <1>4, <2>1 DEF RunAgrees, InLoop
<1>6. ASSUME NEW q \in Runs, q # r PROVE RunAgrees(q)'
  <2>1. stage'[q] = stage[q] /\ reply'[q] = reply[q]
    BY <1>2, <1>3, <1>6
  <2>2. UNCHANGED <<stage[q], ask[q], scored[q], reply[q]>>
    BY <2>1, <1>2
  <2> QED BY <1>1, <1>6, <2>2, OthersAgree
<1>7. \A q \in Runs : RunAgrees(q)'
  BY <1>5, <1>6
<1> QED BY <1>7 DEF RunAgrees, RunInv, AnswersLast, HoldsWhatItRecorded, HoldsItsOwn,
                    AnswersItsRequest, MarkIsTrue

(* A row of the run is written beside the loop (WritesRow).                *)
LEMMA WritesRowStep ==
  ASSUME AssistantTypeOK, RunInv, NEW r \in Runs, WritesRow(r)
  PROVE  RunInv'
<1>1. /\ stage[r] = "write" /\ stage' = [stage EXCEPT ![r] = "done"]
      /\ scored' = [scored EXCEPT ![r] = 0]
      /\ UNCHANGED <<ask, events, reply>>
  BY DEF WritesRow, Move
<1>2. stage \in [Runs -> RunStages] /\ scored \in [Runs -> 0 .. MaxEvents]
  BY DEF AssistantTypeOK
<1>3. stage'[r] = "done" /\ scored'[r] = 0
  BY <1>1, <1>2
<1>4. ASSUME NEW q \in Runs PROVE RunAgrees(q)'
  <2>1. RunAgrees(q)
    BY RunInvOfRuns
  <2>2. CASE q = r
    BY <1>1, <1>3, <2>1, <2>2 DEF RunAgrees, InLoop, Recorded, Deciding
  <2>3. CASE q # r
    <3>1. stage'[q] = stage[q] /\ scored'[q] = scored[q]
      BY <1>1, <1>2, <2>3
    <3> QED BY <1>1, <2>1, <3>1 DEF RunAgrees, ByRun, Recorded, Deciding
  <2> QED BY <2>2, <2>3
<1> QED BY <1>4 DEF RunAgrees, RunInv, AnswersLast, HoldsWhatItRecorded, HoldsItsOwn,
                    AnswersItsRequest, MarkIsTrue

(* A decision taken elsewhere is of no run's request (Redecides).          *)
LEMMA RedecidesStep ==
  ASSUME AssistantTypeOK, RunInv, NEW o \in Outcomes, Redecides(o)
  PROVE  RunInv'
<1> DEFINE new == [request |-> NoRun, outcome |-> o, by |-> NoRun]
<1>1. events' = Append(events, new) /\ UNCHANGED <<stage, ask, scored, reply>>
  BY DEF Redecides, loop
<1>2. new \in Event /\ new.by = NoRun
  BY DEF Event
<1>3. Grows(NoRun)
  <2> HIDE DEF new
  <2> QED BY <1>1, <1>2 DEF Grows, AssistantTypeOK
<1>4. ASSUME NEW q \in Runs PROVE RunAgrees(q)'
  <2>1. q # NoRun
    BY AssistantAssumption
  <2> QED BY <1>1, <1>3, <2>1, OthersAgree
<1> QED BY <1>4 DEF RunAgrees, RunInv, AnswersLast, HoldsWhatItRecorded, HoldsItsOwn,
                    AnswersItsRequest, MarkIsTrue

(* Each step of any run keeps what the replies say (AssistantNext).        *)
LEMMA RunsAgreeStep ==
  AssistantTypeOK /\ RunInv /\ [AssistantNext]_assistantVars => RunInv'
<1> SUFFICES ASSUME AssistantTypeOK, RunInv, [AssistantNext]_assistantVars PROVE RunInv'
  OBVIOUS
<1>1. ASSUME NEW r \in Runs, NotAdmitted(r) PROVE RunInv'
  BY <1>1, NotAdmittedStep
<1>2. ASSUME NEW r \in Runs, RefuseBeforeLoop(r) PROVE RunInv'
  <2>1. "before_loop" \in Refusals
    BY DEF Refusals
  <2> QED BY <1>2, <2>1, RefuseStep DEF RefuseBeforeLoop, loop
<1>3. ASSUME NEW r \in Runs, BeginRun(r) PROVE RunInv'
  BY <1>3, BeginRunStep
<1>4. ASSUME NEW r \in Runs, NoRoom(r) \/ CallFails(r) \/ Misspeaks(r) PROVE RunInv'
  <2>1. "llm_unavailable" \in Refusals /\ stage[r] \in InLoop
    BY <1>4 DEF Refusals, InLoop, NoRoom, CallFails, Misspeaks, Completes, Calling
  <2> QED BY <1>4, <2>1, RefuseStep DEF NoRoom, CallFails, Misspeaks, loop
<1>5. ASSUME NEW r \in Runs, RetryCall(r) PROVE RunInv'
  BY <1>5, QuietStep DEF RetryCall, answerVars
<1>6. ASSUME NEW r \in Runs, Concludes(r) PROVE RunInv'
  <2>1. /\ "assistant_refused" \in Refusals /\ "validate" \in InLoop
        /\ stage[r] \in InLoop /\ UNCHANGED <<ask, scored, events>>
    BY <1>6 DEF Refusals, InLoop, Concludes, Completes, Calling
  <2>2. CASE RefuseRun(r, "assistant_refused")
    BY <2>1, <2>2, RefuseStep
  <2>3. CASE Move(r, "validate") /\ UNCHANGED reply
    BY <2>1, <2>3, LoopStep
  <2> QED BY <1>6, <2>2, <2>3 DEF Concludes
<1>7. ASSUME NEW r \in Runs, NEW tool \in {"score", "record", "policy"}, ChoosesTool(r, tool)
      PROVE  RunInv'
  <2>1. stage[r] \in InLoop /\ UNCHANGED <<ask, scored, events>>
    BY <1>7 DEF InLoop, ChoosesTool, Completes, Calling
  <2>2. CASE OutOfSteps(r)
    <3> DEFINE mark == IF scored[r] # 0 THEN "yes" ELSE "no"
    <3>1. Decide(r, "assistant_refused", 0, mark)
      BY <1>7, <2>2 DEF ChoosesTool, RefuseUnfinished
    <3>2. (mark = "yes" => scored[r] # 0) /\ (mark = "no" => scored[r] = 0)
      OBVIOUS
    <3> HIDE DEF mark
    <3>3. "assistant_refused" # "served"
      OBVIOUS
    <3> QED BY <2>1, <3>1, <3>2, <3>3, DecideStep
  <2>3. CASE ~ OutOfSteps(r)
    <3>1. Chosen(r, tool) \in InLoop
      BY DEF Chosen, InLoop
    <3>2. Move(r, Chosen(r, tool)) /\ UNCHANGED reply
      BY <1>7, <2>3 DEF ChoosesTool
    <3> QED BY <2>1, <3>1, <3>2, LoopStep
  <2> QED BY <2>2, <2>3
<1>8. ASSUME NEW r \in Runs, ScoreRefused(r) \/ ScoreConflicts(r) PROVE RunInv'
  <2>1. stage[r] \in InLoop /\ UNCHANGED <<ask, scored, events>>
    BY <1>8 DEF InLoop, ScoreRefused, ScoreConflicts, loop
  <2>2. PICK status \in Refusals : RefuseRun(r, status)
    BY <1>8 DEF ScoreRefused, ScoreConflicts, Refusals
  <2> QED BY <2>1, <2>2, RefuseStep
<1>9. ASSUME NEW r \in Runs, NEW o \in Outcomes, ScoreTool(r, o) PROVE RunInv'
  BY <1>9, ScoreToolStep
<1>10. ASSUME NEW r \in Runs, NEW o \in Outcomes, ScoreLost(r, o) PROVE RunInv'
  BY <1>10, ScoreLostStep
<1>11. ASSUME NEW r \in Runs, RecordTool(r) \/ PolicyTool(r) PROVE RunInv'
  <2>1. "model" \in InLoop /\ stage[r] \in InLoop
    BY <1>11 DEF InLoop, RecordTool, PolicyTool
  <2>2. Move(r, "model") /\ UNCHANGED <<ask, scored, events, reply>>
    BY <1>11 DEF RecordTool, PolicyTool, Returns
  <2> QED BY <2>1, <2>2, LoopStep
<1>12. ASSUME NEW r \in Runs, ReadFails(r) PROVE RunInv'
  <2>1. /\ "assistant_refused" \in Refusals /\ "downstream_unavailable" \in Refusals
        /\ stage[r] \in InLoop /\ UNCHANGED <<ask, scored, events>>
    BY <1>12 DEF Refusals, InLoop, ReadFails, loop
  <2> QED BY <1>12, <2>1, RefuseStep DEF ReadFails
<1>13. ASSUME NEW r \in Runs, Validates(r) PROVE RunInv'
  <2>1. stage[r] \in InLoop /\ UNCHANGED <<ask, scored, events>>
    BY <1>13 DEF InLoop, Validates, loop
  <2>2. \/ Shown(r) # {} /\ Decide(r, "served", Newest(Shown(r)), "unsaid")
        \/ ~ Deciding(r) /\ Decide(r, "served", 0, "unsaid")
        \/ \E status \in Refusals : RefuseRun(r, status)
    BY <1>13 DEF Validates, Refusals
  <2>3. ASSUME Shown(r) # {}, Decide(r, "served", Newest(Shown(r)), "unsaid")
        PROVE  RunInv'
    <3>1. Shown(r) \in SUBSET (0 .. Len(events)) /\ Len(events) \in Nat
      BY DEF Shown, Recorded, AssistantTypeOK
    <3>2. Newest(Shown(r)) \in Shown(r)
      BY <3>1, <2>3, NewestIsOne
    <3>3. Deciding(r) => Newest(Shown(r)) \in Recorded(ask[r].request)
      BY <3>2 DEF Shown
    <3> QED BY <2>1, <2>3, <3>3, DecideStep
  <2>4. ASSUME ~ Deciding(r), Decide(r, "served", 0, "unsaid") PROVE RunInv'
    BY <2>1, <2>4, DecideStep
  <2> QED BY <2>1, <2>2, <2>3, <2>4, RefuseStep
<1>14. ASSUME NEW r \in Runs, WritesRow(r) PROVE RunInv'
  BY <1>14, WritesRowStep
<1>15. ASSUME NEW o \in Outcomes, Redecides(o) PROVE RunInv'
  BY <1>15, RedecidesStep
<1>16. ASSUME UNCHANGED assistantVars PROVE RunInv'
  BY <1>16, QuietStep DEF assistantVars, loop, answerVars
<1> QED BY <1>1, <1>2, <1>3, <1>4, <1>5, <1>6, <1>7, <1>8, <1>9, <1>10, <1>11, <1>12,
           <1>13, <1>14, <1>15, <1>16 DEF AssistantNext, RunStep

(* An event that is appended is of a request not yet recorded, or of none. *)
LEMMA AppendedOnce ==
  ASSUME AssistantTypeOK, RecordedOnce, NEW new \in Event, events' = Append(events, new),
         new.request = NoRun \/ Recorded(new.request) = {}
  PROVE  RecordedOnce'
<1>1. events \in Seq(Event) /\ Len(events) \in Nat /\ DOMAIN events = 1 .. Len(events)
  BY DEF AssistantTypeOK
<1>2. /\ DOMAIN events' = 1 .. Len(events) + 1
      /\ \A e \in DOMAIN events : events'[e] = events[e]
      /\ events'[Len(events) + 1] = new
  BY <1>1
<1>3. SUFFICES ASSUME NEW e \in DOMAIN events', NEW f \in DOMAIN events',
                      events'[e].request = events'[f].request, events'[e].request # NoRun
               PROVE  e = f
  BY DEF RecordedOnce
<1>4. CASE e \in DOMAIN events /\ f \in DOMAIN events
  BY <1>2, <1>3, <1>4 DEF RecordedOnce
<1>5. CASE e \in DOMAIN events /\ f \notin DOMAIN events
  BY <1>1, <1>2, <1>3, <1>5 DEF Recorded
<1>6. CASE e \notin DOMAIN events /\ f \in DOMAIN events
  BY <1>1, <1>2, <1>3, <1>6 DEF Recorded
<1>7. CASE e \notin DOMAIN events /\ f \notin DOMAIN events
  BY <1>1, <1>2, <1>7
<1> QED BY <1>4, <1>5, <1>6, <1>7

(* POST /decisions records what it has not recorded (Scores, Redecides).   *)
LEMMA RecordedOnceStep ==
  AssistantTypeOK /\ RecordedOnce /\ [AssistantNext]_assistantVars => RecordedOnce'
<1> SUFFICES ASSUME AssistantTypeOK, RecordedOnce, [AssistantNext]_assistantVars
             PROVE  RecordedOnce'
  OBVIOUS
<1>1. ASSUME UNCHANGED events PROVE RecordedOnce'
  BY <1>1 DEF RecordedOnce
<1>2. ASSUME NEW r \in Runs, NEW e \in 1 .. MaxEvents, NEW o \in Outcomes, Scores(r, e, o)
      PROVE  RecordedOnce'
  <2>1. CASE Recorded(ask[r].request) # {}
    BY <1>1, <1>2, <2>1 DEF Scores
  <2>2. CASE Recorded(ask[r].request) = {}
    <3> DEFINE new == [request |-> ask[r].request, outcome |-> o, by |-> r]
    <3>1. events' = Append(events, new)
      BY <1>2, <2>2 DEF Scores
    <3>2. new \in Event /\ new.request = ask[r].request
      BY DEF AssistantTypeOK, Ask, Event
    <3> HIDE DEF new
    <3> QED BY <2>2, <3>1, <3>2, AppendedOnce
  <2> QED BY <2>1, <2>2
<1>3. ASSUME NEW o \in Outcomes, Redecides(o) PROVE RecordedOnce'
  <2> DEFINE new == [request |-> NoRun, outcome |-> o, by |-> NoRun]
  <2>1. events' = Append(events, new)
    BY <1>3 DEF Redecides
  <2>2. new \in Event /\ new.request = NoRun
    BY DEF Event
  <2> HIDE DEF new
  <2> QED BY <2>1, <2>2, AppendedOnce
<1>4. ASSUME NEW r \in Runs, RunStep(r) PROVE RecordedOnce'
  <2>1. CASE \E o \in Outcomes : ScoreTool(r, o) \/ ScoreLost(r, o)
    BY <1>1, <1>2, <2>1 DEF ScoreTool, ScoreLost
  <2>2. CASE ~\E o \in Outcomes : ScoreTool(r, o) \/ ScoreLost(r, o)
    BY <1>1, <1>4, <2>2 DEF RunStep, NotAdmitted, RefuseBeforeLoop, BeginRun, NoRoom, RetryCall,
       CallFails, Misspeaks, Concludes, ChoosesTool, ScoreRefused, ScoreConflicts, RecordTool,
       ReadFails, PolicyTool, Validates, WritesRow
  <2> QED BY <2>1, <2>2
<1> QED BY <1>1, <1>3, <1>4 DEF AssistantNext, assistantVars

(* So the assistant's invariant holds in every state.                      *)
LEMMA AssistantInvHolds == AssistantSpec => []AssistantInv
<1>1. AssistantInit => AssistantInv
  BY AssistantTypesStart, RunStarts DEF AssistantInv, AssistantInit, RecordedOnce
<1>2. AssistantInv /\ [AssistantNext]_assistantVars => AssistantInv'
  BY AssistantTypesStep, RunsAgreeStep, RecordedOnceStep DEF AssistantInv
<1> QED BY <1>1, <1>2, PTL DEF AssistantSpec

(* A run of assistant.run is always at one of its nodes, its conversation  *)
(* made of turns, its retries within the client's limit and the events it  *)
(* refers to on the application's record.                                  *)
THEOREM AssistantTypeHolds == AssistantSpec => []AssistantTypeOK
BY AssistantInvHolds, PTL DEF AssistantInv

(* However many officers re-decide an application while the model talks,   *)
(* the decision _validated_final serves is of the run's own request, and   *)
(* the one it scored if it did.                                            *)
THEOREM AnswersAreTheirOwn == AssistantSpec => []AnswerIsOfItsRequest
<1>1. AssistantInv => AnswerIsOfItsRequest
  <2> SUFFICES ASSUME AssistantInv, NEW r \in Runs, reply[r].status = "served", Deciding(r)
               PROVE  /\ reply[r].event \in Recorded(ask[r].request)
                      /\ scored[r] # 0 => scored[r] = reply[r].event
    BY DEF AnswerIsOfItsRequest
  <2>1. reply[r].event \in Recorded(ask[r].request)
    BY DEF AssistantInv, RunInv, AnswersItsRequest, Recorded
  <2>2. scored[r] # 0 => scored[r] \in Recorded(ask[r].request)
    BY DEF AssistantInv, RunInv, HoldsItsOwn
  <2>3. ask[r].request # NoRun
    BY AssistantAssumption DEF AssistantInv, AssistantTypeOK, Ask
  <2> QED BY <2>1, <2>2, <2>3 DEF AssistantInv, RecordedOnce, Recorded
<1> QED BY <1>1, AssistantInvHolds, PTL

(* The refusal's `scored' tells the officer the truth whatever is lost:    *)
(* run() reads it off the state the score tool fills, and no step between  *)
(* the recording and that state can be survived by the run.                *)
THEOREM MarksAreTrue == AssistantSpec => []MarkIsTrue
<1>1. AssistantInv => MarkIsTrue
  BY DEF AssistantInv, RunInv
<1> QED BY <1>1, AssistantInvHolds, PTL

-----------------------------------------------------------------------------
(* The rate limit (rate_limit.py).                                         *)

(* The rate limit: the calls let through and the entries of the window,    *)
(* matched from the end.  An entry is at most MaxLate older than its call; *)
(* a call whose entry was dropped is older than the window, less MaxLate.  *)
Matched ==
    \A d \in 0 .. Len(passed) - 1 :
        IF d < Len(window)
        THEN window[Len(window) - d] <= passed[Len(passed) - d] + MaxLate
        ELSE passed[Len(passed) - d] > WindowSize - MaxLate

RateInv ==
    /\ window \in Seq(Nat) /\ Len(window) <= MaxCalls
    /\ late \in [Requesters -> Away .. MaxLate]
    /\ passed \in Seq(Nat)
    /\ Matched

(* A cut leaves the end of a sequence; what it drops is at none of the     *)
(* places.                                                                 *)
LEMMA FromKeepsTheEnd ==
  ASSUME NEW s \in Seq(Nat), NEW places \in SUBSET (1 .. Len(s))
  PROVE  /\ From(s, places) \in Seq(Nat)
         /\ Len(From(s, places)) \in 0 .. Len(s)
         /\ \A d \in 0 .. Len(From(s, places)) - 1 :
               From(s, places)[Len(From(s, places)) - d] = s[Len(s) - d]
         /\ \A i \in 1 .. Len(s) - Len(From(s, places)) : i \notin places
<1> DEFINE first == IF places = {} THEN Len(s) + 1
                    ELSE CHOOSE i \in places : \A j \in places : i <= j
<1>1. Len(s) \in Nat
  OBVIOUS
<1>2. first \in 1 .. Len(s) + 1 /\ \A i \in places : first <= i
  <2>1. CASE places = {}
    BY <1>1, <2>1
  <2>2. CASE places # {}
    <3>1. places \in SUBSET Nat
      BY <1>1
    <3>2. \E i \in places : \A j \in places : i <= j
      BY <2>2, <3>1, Least
    <3>3. first \in places /\ \A j \in places : first <= j
      BY <2>2, <3>2
    <3>4. first \in 1 .. Len(s)
      BY <3>3
    <3> HIDE DEF first
    <3>5. first \in 1 .. Len(s) + 1
      BY <1>1, <3>4
    <3> QED BY <3>3, <3>5
  <2> QED BY <2>1, <2>2
<1>3. From(s, places) = SubSeq(s, first, Len(s))
  BY DEF From
<1> HIDE DEF first
<1>4. PICK t : t = SubSeq(s, first, Len(s))
  OBVIOUS
<1>5. /\ t \in Seq(Nat) /\ Len(t) = Len(s) + 1 - first
      /\ \A i \in 1 .. Len(t) : t[i] = s[first + i - 1]
  BY <1>1, <1>2, <1>4
<1>6. \A d \in 0 .. Len(t) - 1 : t[Len(t) - d] = s[Len(s) - d]
  BY <1>1, <1>2, <1>5
<1>7. \A i \in 1 .. Len(s) - Len(t) : i \notin places
  BY <1>1, <1>2, <1>5
<1> QED BY <1>1, <1>2, <1>3, <1>4, <1>5, <1>6, <1>7

(* No call was made at first (RateInit).                                   *)
LEMMA RateStarts == RateInit => RateInv
<1> SUFFICES ASSUME RateInit PROVE RateInv
  OBVIOUS
<1>1. window = <<>> /\ passed = <<>>
  BY DEF RateInit
<1>2. late \in [Requesters -> Away .. MaxLate]
  BY RateAssumption DEF RateInit, Away
<1> QED BY <1>1, <1>2, RateAssumption DEF RateInv, Matched

(* What a caller l late drops of the window was let through long enough    *)
(* ago.                                                                    *)
LEMMA KeptMatches ==
  ASSUME RateInv, NEW l \in 0 .. MaxLate
  PROVE  /\ Kept(l) \in Seq(Nat) /\ Len(Kept(l)) \in 0 .. Len(window)
         /\ \A d \in 0 .. Len(passed) - 1 :
               IF d < Len(Kept(l))
               THEN Kept(l)[Len(Kept(l)) - d] <= passed[Len(passed) - d] + MaxLate
               ELSE passed[Len(passed) - d] > WindowSize - MaxLate
<1> DEFINE places == {i \in DOMAIN window : ~Expired(window[i], l)}
<1>1. window \in Seq(Nat) /\ passed \in Seq(Nat) /\ Len(window) \in Nat /\ Len(passed) \in Nat
  BY DEF RateInv
<1>2. Kept(l) = From(window, places) /\ places \in SUBSET (1 .. Len(window))
  BY <1>1 DEF Kept
<1>3. PICK k : k = Kept(l)
  OBVIOUS
<1>4. /\ k \in Seq(Nat) /\ Len(k) \in 0 .. Len(window)
      /\ \A d \in 0 .. Len(k) - 1 : k[Len(k) - d] = window[Len(window) - d]
      /\ \A i \in 1 .. Len(window) - Len(k) : i \notin places
  <2> PICK P \in SUBSET (1 .. Len(window)) : P = places
    BY <1>2
  <2> HIDE DEF places
  <2>1. k = From(window, P)
    BY <1>2, <1>3
  <2>2. /\ From(window, P) \in Seq(Nat) /\ Len(From(window, P)) \in 0 .. Len(window)
        /\ \A d \in 0 .. Len(From(window, P)) - 1 :
              From(window, P)[Len(From(window, P)) - d] = window[Len(window) - d]
        /\ \A i \in 1 .. Len(window) - Len(From(window, P)) : i \notin P
    <3>1. window \in Seq(Nat) /\ P \in SUBSET (1 .. Len(window))
      BY <1>1
    <3> QED BY ONLY <3>1, FromKeepsTheEnd, SMTT(30)
  <2> QED BY <2>1, <2>2
<1>5. ASSUME NEW d \in 0 .. Len(passed) - 1
      PROVE  IF d < Len(k)
             THEN k[Len(k) - d] <= passed[Len(passed) - d] + MaxLate
             ELSE passed[Len(passed) - d] > WindowSize - MaxLate
  <2>1. Len(k) \in Nat /\ d \in Nat /\ passed[Len(passed) - d] \in Nat
    BY <1>1, <1>4
  <2>2. CASE d < Len(k)
    <3>1. d < Len(window) /\ k[Len(k) - d] = window[Len(window) - d]
      BY <1>1, <1>4, <2>1, <2>2
    <3> QED BY <2>2, <3>1 DEF RateInv, Matched
  <2>3. CASE Len(k) <= d /\ d < Len(window)
    <3>1. Len(window) - d \in 1 .. Len(window) - Len(k)
      BY <1>1, <1>4, <2>1, <2>3
    <3>2. Expired(window[Len(window) - d], l)
      <4>1. Len(window) - d \notin places
        <5> HIDE DEF places
        <5> QED BY <1>4, <3>1
      <4>2. Len(window) - d \in DOMAIN window
        BY <1>1, <1>4, <2>1, <3>1
      <4> QED BY <4>1, <4>2
    <3>3. window[Len(window) - d] \in Nat
      <4>1. Len(window) - d \in 1 .. Len(window)
        BY <1>1, <1>4, <2>1, <3>1
      <4> QED BY <1>1, <4>1
    <3>4. window[Len(window) - d] <= passed[Len(passed) - d] + MaxLate
      BY <2>3 DEF RateInv, Matched
    <3> QED BY <2>1, <2>3, <3>2, <3>3, <3>4, RateAssumption DEF Expired
  <2>4. CASE Len(window) <= d
    <3>1. ~ (d < Len(window)) /\ ~ (d < Len(k))
      BY <1>1, <1>4, <2>1, <2>4
    <3> QED BY <3>1 DEF RateInv, Matched
  <2> QED BY <1>1, <2>1, <2>2, <2>3, <2>4
<1> QED BY <1>3, <1>4, <1>5

(* A call that is let through is counted in its window (LetThrough).       *)
LEMMA LetThroughStep ==
  ASSUME RateInv, NEW r \in Requesters, LetThrough(r) PROVE RateInv'
<1> DEFINE l == late[r]
<1>1. l \in 0 .. MaxLate /\ l \in Nat
  BY RateAssumption DEF RateInv, LetThrough, Away
<1>2. PICK k : k = Kept(l)
  OBVIOUS
<1>3. /\ k \in Seq(Nat) /\ Len(k) \in Nat /\ Len(k) < MaxCalls
      /\ \A d \in 0 .. Len(passed) - 1 :
               IF d < Len(k)
               THEN k[Len(k) - d] <= passed[Len(passed) - d] + MaxLate
               ELSE passed[Len(passed) - d] > WindowSize - MaxLate
  BY <1>1, <1>2, KeptMatches DEF LetThrough
<1>4. /\ window' = Append(k, l) /\ passed' = Append(passed, 0)
      /\ late' = [late EXCEPT ![r] = Away]
  BY <1>2 DEF LetThrough
<1>5. passed \in Seq(Nat) /\ Len(passed) \in Nat
  BY DEF RateInv
<1> HIDE DEF l
<1>6. /\ window' \in Seq(Nat) /\ Len(window') = Len(k) + 1
      /\ passed' \in Seq(Nat) /\ Len(passed') = Len(passed) + 1
      /\ window'[Len(k) + 1] = l /\ \A i \in 1 .. Len(k) : window'[i] = k[i]
      /\ passed'[Len(passed) + 1] = 0 /\ \A i \in 1 .. Len(passed) : passed'[i] = passed[i]
  BY <1>1, <1>3, <1>4, <1>5
<1>7. ASSUME NEW d \in 0 .. Len(passed)
      PROVE  IF d < Len(k) + 1
             THEN window'[Len(k) + 1 - d] <= passed'[Len(passed) + 1 - d] + MaxLate
             ELSE passed'[Len(passed) + 1 - d] > WindowSize - MaxLate
  <2>1. CASE d = 0
    BY <1>1, <1>3, <1>6, <2>1, RateAssumption
  <2>2. CASE d # 0
    <3>1. PICK c \in 0 .. Len(passed) - 1 : d = c + 1
      <4>1. d - 1 \in 0 .. Len(passed) - 1 /\ d = (d - 1) + 1
        BY <1>5, <2>2
      <4> QED BY <4>1
    <3>2. passed'[Len(passed) + 1 - d] = passed[Len(passed) - c]
      <4>1. Len(passed) + 1 - d = Len(passed) - c /\ Len(passed) - c \in 1 .. Len(passed)
        BY <1>5, <3>1
      <4> QED BY <1>6, <4>1
    <3>3. CASE c < Len(k)
      <4>1. window'[Len(k) + 1 - d] = k[Len(k) - c] /\ d < Len(k) + 1
        <5>1. Len(k) + 1 - d = Len(k) - c /\ Len(k) - c \in 1 .. Len(k)
          BY <1>3, <1>5, <3>1, <3>3
        <5>2. d < Len(k) + 1
          BY <1>3, <1>5, <3>1, <3>3
        <5> QED BY <1>6, <5>1, <5>2
      <4> QED BY <1>3, <3>1, <3>2, <3>3, <4>1
    <3>4. CASE ~ (c < Len(k))
      <4>1. ~ (d < Len(k) + 1)
        BY <1>3, <3>1, <3>4
      <4> QED BY <1>3, <3>1, <3>2, <3>4, <4>1
    <3> QED BY <3>3, <3>4
  <2> QED BY <2>1, <2>2
<1>8. Matched'
  <2>1. Len(passed') - 1 = Len(passed)
    BY <1>5, <1>6
  <2> QED BY <1>6, <1>7, <2>1 DEF Matched
<1>9. Len(window') <= MaxCalls
  BY <1>3, <1>6, RateAssumption
<1>10. late' \in [Requesters -> Away .. MaxLate]
  BY <1>4, RateAssumption DEF RateInv, Away
<1> QED BY <1>6, <1>8, <1>9, <1>10 DEF RateInv

(* One that is turned away is not (TurnAway).                              *)
LEMMA TurnAwayStep ==
  ASSUME RateInv, NEW r \in Requesters, TurnAway(r) PROVE RateInv'
<1>1. late[r] \in 0 .. MaxLate
  BY RateAssumption DEF RateInv, TurnAway, Away
<1>2. window' = Kept(late[r]) /\ passed' = passed
  BY DEF TurnAway
<1>3. /\ window' \in Seq(Nat) /\ Len(window') \in 0 .. Len(window)
      /\ Matched'
  BY <1>1, <1>2, KeptMatches DEF Matched
<1>4. Len(window') <= MaxCalls
  BY <1>3, RateAssumption DEF RateInv
<1>5. late' \in [Requesters -> Away .. MaxLate]
  BY RateAssumption DEF TurnAway, RateInv, Away
<1> QED BY <1>2, <1>3, <1>4, <1>5 DEF RateInv

(* Time makes the entries older, and adds none (RateTick).                 *)
LEMMA TickStep == ASSUME RateInv, RateTick PROVE RateInv'
<1> DEFINE places == {i \in DOMAIN passed : passed[i] < Memory}
<1>1. /\ window \in Seq(Nat) /\ passed \in Seq(Nat)
      /\ Len(window) \in Nat /\ Len(passed) \in Nat
  BY DEF RateInv
<1>2. PICK aged : aged = Aged(passed)
  OBVIOUS
<1>3. /\ aged \in Seq(Nat) /\ Len(aged) = Len(passed)
      /\ \A i \in 1 .. Len(passed) : aged[i] = passed[i] + 1
  BY <1>1, <1>2 DEF Aged
<1>4. places \in SUBSET (1 .. Len(aged)) /\ passed' = From(aged, places)
  BY <1>1, <1>2, <1>3 DEF RateTick
<1>5. /\ passed' \in Seq(Nat) /\ Len(passed') \in 0 .. Len(passed)
      /\ \A d \in 0 .. Len(passed') - 1 : passed'[Len(passed') - d] = aged[Len(passed) - d]
  <2> PICK P \in SUBSET (1 .. Len(aged)) : P = places
    BY <1>4
  <2> HIDE DEF places
  <2>1. passed' = From(aged, P)
    BY <1>4
  <2>2. /\ From(aged, P) \in Seq(Nat) /\ Len(From(aged, P)) \in 0 .. Len(aged)
        /\ \A d \in 0 .. Len(From(aged, P)) - 1 :
              From(aged, P)[Len(From(aged, P)) - d] = aged[Len(aged) - d]
    <3>1. aged \in Seq(Nat) /\ P \in SUBSET (1 .. Len(aged))
      BY <1>3
    <3> QED BY ONLY <3>1, FromKeepsTheEnd, Zenon
  <2> QED BY <1>3, <2>1, <2>2
<1>6. /\ window' \in Seq(Nat) /\ Len(window') = Len(window)
      /\ \A i \in 1 .. Len(window) : window'[i] <= window[i] + 1
  <2>1. window' = [i \in 1 .. Len(window) |->
                      IF window[i] > Memory THEN window[i] ELSE window[i] + 1]
    BY <1>1 DEF RateTick
  <2> QED BY <1>1, <2>1
<1>7. ASSUME NEW d \in 0 .. Len(passed') - 1
      PROVE  IF d < Len(window')
             THEN window'[Len(window') - d] <= passed'[Len(passed') - d] + MaxLate
             ELSE passed'[Len(passed') - d] > WindowSize - MaxLate
  <2>1. d \in 0 .. Len(passed) - 1 /\ Len(passed) - d \in 1 .. Len(passed)
    BY <1>1, <1>5
  <2>2. passed'[Len(passed') - d] = passed[Len(passed) - d] + 1
    BY <1>3, <1>5, <2>1
  <2>3. passed[Len(passed) - d] \in Nat
    BY <1>1, <2>1
  <2>4. CASE d < Len(window)
    <3>1. Len(window) - d \in 1 .. Len(window)
      BY <1>1, <2>1, <2>4
    <3>2. window[Len(window) - d] \in Nat /\ window'[Len(window) - d] \in Nat
      BY <1>1, <1>6, <3>1
    <3>3. window[Len(window) - d] <= passed[Len(passed) - d] + MaxLate
      BY <2>1, <2>4 DEF RateInv, Matched
    <3>4. window'[Len(window) - d] <= window[Len(window) - d] + 1
      BY <1>6, <3>1
    <3>5. window'[Len(window) - d] <= passed[Len(passed) - d] + 1 + MaxLate
      BY <2>3, <3>2, <3>3, <3>4, RateAssumption
    <3>6. window'[Len(window') - d] <= passed'[Len(passed') - d] + MaxLate
      BY <1>6, <2>2, <3>5
    <3> QED BY <1>6, <2>4, <3>6
  <2>5. CASE ~ (d < Len(window))
    <3>1. passed[Len(passed) - d] > WindowSize - MaxLate
      BY <2>1, <2>5 DEF RateInv, Matched
    <3> QED BY <1>6, <2>2, <2>3, <2>5, <3>1, RateAssumption
  <2> QED BY <2>4, <2>5
<1>8. Matched'
  BY <1>7 DEF Matched
<1>9. late' \in [Requesters -> Away .. MaxLate]
  <2>1. \A r \in Requesters : late[r] \in Away .. MaxLate /\ late[r] < MaxLate
    BY DEF RateInv, RateTick
  <2> QED BY <2>1, RateAssumption DEF RateTick, Away
<1> QED BY <1>5, <1>6, <1>8, <1>9 DEF RateInv

(* So the limiter's invariant holds in every state.                        *)
LEMMA RateInvHolds == RateSpec => []RateInv
<1>1. RateInv /\ [RateNext]_rateVars => RateInv'
  <2> SUFFICES ASSUME RateInv, [RateNext]_rateVars PROVE RateInv'
    OBVIOUS
  <2>1. ASSUME NEW r \in Requesters, ReadClock(r) PROVE RateInv'
    <3>1. late' \in [Requesters -> Away .. MaxLate]
      BY <2>1, RateAssumption DEF ReadClock, RateInv, Away
    <3> QED BY <2>1, <3>1 DEF ReadClock, RateInv, Matched
  <2>2. CASE UNCHANGED rateVars
    BY <2>2 DEF rateVars, RateInv, Matched
  <2> QED BY <2>1, <2>2, LetThroughStep, TurnAwayStep, TickStep DEF RateNext
<1> QED BY <1>1, RateStarts, PTL DEF RateSpec

(* For every limit, window and wait for the lock: no window, shortened by  *)
(* that wait, has more than _MAX_CALLS calls of check_llm_rate_limit,      *)
(* although clocks are read before the lock is taken.                      *)
THEOREM BurstsAreBounded == RateSpec => []BurstIsBounded
<1>1. RateInv => BurstIsBounded
  <2> SUFFICES ASSUME RateInv PROVE BurstIsBounded
    OBVIOUS
  <2>1. /\ Len(window) \in Nat /\ Len(passed) \in Nat /\ passed \in Seq(Nat)
        /\ Len(window) <= MaxCalls /\ MaxCalls \in Nat
    BY RateAssumption DEF RateInv
  <2> DEFINE recent == {i \in DOMAIN passed : passed[i] <= WindowSize - MaxLate}
             n == Len(passed)
             m == Len(window)
  <2>2. recent \subseteq (n - m + 1) .. n
    <3>1. ASSUME NEW i \in 1 .. n, i < n - m + 1 PROVE passed[i] > WindowSize - MaxLate
      <4>1. n - i \in 0 .. n - 1 /\ ~ (n - i < m) /\ n - (n - i) = i
        BY <2>1, <3>1
      <4> QED BY <4>1 DEF RateInv, Matched
    <3>2. \A i \in 1 .. n : passed[i] \in Nat
      BY <2>1
    <3>3. ASSUME NEW i \in recent PROVE i \in (n - m + 1) .. n
      BY <2>1, <3>1, <3>2, <3>3, RateAssumption
    <3> QED BY <3>3
  <2>3. IsFiniteSet((n - m + 1) .. n) /\ Cardinality((n - m + 1) .. n) = m
    <3>1. n - m + 1 \in Int /\ n \in Int
      BY <2>1
    <3> HIDE DEF n, m
    <3>2. /\ IsFiniteSet((n - m + 1) .. n)
          /\ Cardinality((n - m + 1) .. n)
               = IF n - m + 1 > n THEN 0 ELSE n - (n - m + 1) + 1
      BY <3>1, FS_Interval
    <3> QED BY <2>1, <3>2 DEF n, m
  <2>4. Cardinality(recent) <= m /\ Cardinality(recent) \in Nat
    <3> HIDE DEF recent, n, m
    <3> QED BY <2>2, <2>3, FS_Subset, FS_CardinalityType
  <2> QED BY <2>1, <2>4 DEF BurstIsBounded, PassedWithin
<1> QED BY <1>1, RateInvHolds, PTL

-----------------------------------------------------------------------------
(* The request builder (llm/request_builder.py).                           *)

(* The first n of a place's positions.                                     *)
LEMMA UpToIs ==
  ASSUME NEW p \in Seq(Nat), NEW n \in 0 .. Len(p)
  PROVE /\ UpTo(p, n) \in Seq(Nat) /\ Len(UpTo(p, n)) = n
        /\ \A i \in 1 .. n : UpTo(p, n)[i] = p[i]
<1>1. \A i \in 1 .. n : p[i] \in Nat
  OBVIOUS
<1>2. /\ SubSeq(p, 1, n) \in Seq(Nat)
      /\ Len(SubSeq(p, 1, n)) = IF 1 <= n THEN n - 1 + 1 ELSE 0
      /\ \A i \in 1 .. n - 1 + 1 : SubSeq(p, 1, n)[i] = p[1 + i - 1]
  <2>1. n \in Int /\ 1 \in Int
    OBVIOUS
  <2> QED BY ONLY <1>1, <2>1, SubSeqProperties
<1>3. Len(p) \in Nat /\ n \in Nat /\ n - 1 + 1 = n /\ \A i \in 1 .. n : 1 + i - 1 = i
  OBVIOUS
<1> QED BY <1>2, <1>3 DEF UpTo

(* A place's whole is itself, and a part of its part is its part.          *)
LEMMA UpToAgain ==
  ASSUME NEW p \in Seq(Nat), NEW n \in 0 .. Len(p), NEW m \in 0 .. n
  PROVE /\ UpTo(p, Len(p)) = p
        /\ UpTo(UpTo(p, n), m) = UpTo(p, m)
<1>1. UpTo(p, Len(p)) = p
  BY SubSeqFull DEF UpTo
<1> DEFINE q == UpTo(p, n)
<1>2. q \in Seq(Nat) /\ Len(q) = n /\ \A i \in 1 .. n : q[i] = p[i]
  BY UpToIs
<1>3. m \in 0 .. Len(p) /\ m \in 0 .. Len(q)
  BY <1>2
<1>4. /\ UpTo(p, m) \in Seq(Nat) /\ Len(UpTo(p, m)) = m
      /\ \A i \in 1 .. m : UpTo(p, m)[i] = p[i]
  BY <1>3, UpToIs
<1>5. /\ UpTo(q, m) \in Seq(Nat) /\ Len(UpTo(q, m)) = m
      /\ \A i \in 1 .. m : UpTo(q, m)[i] = q[i]
  <2> HIDE DEF q
  <2> QED BY <1>2, <1>3, UpToIs
<1>6. UpTo(q, m) = UpTo(p, m)
  <2> HIDE DEF q
  <2>1. \A i \in 1 .. m : UpTo(q, m)[i] = UpTo(p, m)[i]
    BY <1>2, <1>4, <1>5
  <2> QED BY <1>4, <1>5, <2>1, SeqEqual
<1> QED BY <1>1, <1>6

(* Two places in one object or list are told apart by their positions.     *)
LEMMA BesideApart ==
  ASSUME NEW p \in Seq(Nat), NEW q \in Seq(Nat), AreBeside(p, q), p[Len(p)] = q[Len(q)]
  PROVE p = q
<1>1. Len(p) \in Nat /\ Len(p) = Len(q) /\ Len(p) > 0 /\ UpTo(p, Len(p) - 1) = UpTo(q, Len(p) - 1)
  BY DEF AreBeside
<1>2. /\ \A i \in 1 .. Len(p) - 1 : UpTo(p, Len(p) - 1)[i] = p[i]
      /\ \A i \in 1 .. Len(p) - 1 : UpTo(q, Len(p) - 1)[i] = q[i]
  <2>1. Len(p) - 1 \in 0 .. Len(p) /\ Len(p) - 1 \in 0 .. Len(q)
    BY <1>1
  <2> QED BY <2>1, UpToIs
<1>3. ASSUME NEW i \in 1 .. Len(p) PROVE p[i] = q[i]
  <2>1. CASE i = Len(p)
    BY <2>1, <1>1
  <2>2. CASE i \in 1 .. Len(p) - 1
    BY <2>2, <1>1, <1>2
  <2> QED BY <2>1, <2>2, <1>1
<1> QED BY <1>1, <1>3, SeqEqual

(* What is at a place is labelled by the one key that labels it.           *)
LEMMA LabelIs ==
  ASSUME NEW doc, NEW p, Len(p) \in Nat, NEW n \in 1 .. Len(p), Labels(doc, p, n)
  PROVE Label(doc, p) = doc[UpTo(p, n)].key
<1> DEFINE c == CHOOSE m \in 1 .. Len(p) : Labels(doc, p, m)
<1>1. c \in 1 .. Len(p) /\ Labels(doc, p, c)
  OBVIOUS
<1> HIDE DEF c
<1>2. c = n
  BY <1>1 DEF Labels
<1>3. Label(doc, p) = doc[UpTo(p, c)].key
  BY DEF Label, c
<1> QED BY <1>2, <1>3

(* A scalar that leaves as it came tells nothing, by itself or under its   *)
(* label.                                                                  *)
LEMMA ScalarTellsNothing ==
  ASSUME NEW v, NEW k, v.is \in {"string", "number", "flag"},
         v.is = "string" => (v.code # "none" \/ v.empty => ~v.names),
         RedactScalar(k, v).is # "fragment"
  PROVE ~TellsItself(RedactScalar(k, v)) /\ ~TellsUnder(k, RedactScalar(k, v))
<1> DEFINE r == RedactScalar(k, v)
<1>1. CASE r = Mask
  BY <1>1 DEF Mask, TellsItself, TellsUnder
<1>2. CASE r = v /\ v.is = "flag"
  BY <1>2 DEF TellsItself, TellsUnder
<1>3. CASE r = v /\ v.is = "string" /\ (KnownCode(k, v) \/ v.empty)
  BY <1>3 DEF TellsItself, TellsUnder, KnownCode
<1>4. CASE /\ r = v /\ v.is = "number"
           /\ ~Matches(k, v) /\ ~k.number /\ ~LooksLikeNumericIdentity(v)
  BY <1>4 DEF TellsItself, TellsUnder, Matches
<1>5. \/ r = Mask
      \/ r = v /\ v.is = "flag"
      \/ r = v /\ v.is = "string" /\ (KnownCode(k, v) \/ v.empty)
      \/ r = v /\ v.is = "number" /\ ~Matches(k, v) /\ ~k.number /\ ~LooksLikeNumericIdentity(v)
  <2>1. CASE v.is = "flag" \/ KnownCode(k, v)
    BY <2>1 DEF RedactScalar, KnownCode
  <2>2. CASE ~(v.is = "flag" \/ KnownCode(k, v)) /\ (k.shaped \/ Matches(k, v))
    <3>1. r = Mask \/ r = [is |-> "fragment", of |-> v]
      BY <2>2 DEF RedactScalar
    <3> QED BY <3>1
  <2>3. CASE ~(v.is = "flag" \/ KnownCode(k, v)) /\ ~(k.shaped \/ Matches(k, v))
    <3>1. CASE v.is = "string"
      BY <2>3, <3>1 DEF RedactScalar
    <3>2. CASE v.is = "number"
      BY <2>3, <3>2 DEF RedactScalar
    <3> QED BY <2>3, <3>1, <3>2
  <2> QED BY <2>1, <2>2, <2>3
<1> QED BY <1>1, <1>2, <1>3, <1>4, <1>5

(* What is made of a document has the places that are under no identity    *)
(* key.                                                                    *)
LEMMA RedactedIs ==
  ASSUME NEW doc
  PROVE /\ DOMAIN RedactDocument(doc) = {p \in DOMAIN doc : ~WithinIdentity(doc, p)}
        /\ \A p \in DOMAIN RedactDocument(doc) :
              /\ RedactDocument(doc)[p].key
                   = IF doc[p].key.is = "key" THEN RedactedKey(doc, p) ELSE NoKey
              /\ RedactDocument(doc)[p].value = RedactedValue(doc, p)
BY DEF RedactDocument

(* Nothing in a redacted document tells of anyone (_redact_node).          *)
LEMMA RedactedNamesNobody ==
  ASSUME NEW doc, WellFormed(doc)
  PROVE NamesNobody(RedactDocument(doc), doc)
<1> DEFINE out == RedactDocument(doc)
<1> SUFFICES ASSUME NEW p \in DOMAIN out
             PROVE LET v == out[p].value IN
                   /\ v # Mask => \A n \in 1 .. Len(p) : ~doc[UpTo(p, n)].key.identity
                   /\ v.is # "fragment" =>
                        /\ ~TellsItself(v)
                        /\ \A n \in 1 .. Len(p) :
                              Labels(doc, p, n) => ~TellsUnder(doc[UpTo(p, n)].key, v)
  BY DEF NamesNobody
<1>1. /\ p \in DOMAIN doc /\ ~WithinIdentity(doc, p) /\ out[p].value = RedactedValue(doc, p)
      /\ p \in Seq(Nat) /\ Len(p) \in Nat /\ UpTo(p, Len(p)) = p
  <2>1. p \in DOMAIN doc /\ ~WithinIdentity(doc, p) /\ out[p].value = RedactedValue(doc, p)
    BY RedactedIs
  <2>2. p \in Seq(Nat) /\ Len(p) \in Nat
    BY <2>1 DEF WellFormed
  <2>3. UpTo(p, Len(p)) = p
    <3>1. Len(p) \in 0 .. Len(p)
      BY <2>2
    <3> QED BY <2>2, <3>1, UpToAgain
  <2> QED BY <2>1, <2>2, <2>3
<1> DEFINE v == RedactedValue(doc, p)
<1>2. ASSUME v # Mask, NEW n \in 1 .. Len(p) PROVE ~doc[UpTo(p, n)].key.identity
  <2>1. CASE n = Len(p)
    BY <2>1, <1>1, <1>2 DEF RedactedValue
  <2>2. CASE n \in 1 .. Len(p) - 1
    BY <2>2, <1>1 DEF WithinIdentity
  <2> QED BY <2>1, <2>2, <1>1
<1>3. ASSUME v.is # "fragment"
      PROVE /\ ~TellsItself(v)
            /\ \A n \in 1 .. Len(p) : Labels(doc, p, n) => ~TellsUnder(doc[UpTo(p, n)].key, v)
  <2> DEFINE u == doc[p].value
  <2>1. CASE v = Mask
    BY <2>1 DEF Mask, TellsItself, TellsUnder
  <2>2. CASE v = u /\ IsTree(u)
    BY <2>2 DEF IsTree, TellsItself, TellsUnder
  <2>3. CASE v = RedactScalar(Label(doc, p), u) /\ ~IsTree(u)
    <3>1. /\ u.is \in {"string", "number", "flag"}
          /\ u.is = "string" => (u.code # "none" \/ u.empty => ~u.names)
      BY <1>1, <2>3 DEF WellFormed, IsTree
    <3>2. ~TellsItself(v) /\ ~TellsUnder(Label(doc, p), v)
      <4> HIDE DEF u, v
      <4> QED BY <3>1, <2>3, <1>3, ScalarTellsNothing
    <3> QED BY <3>2, <1>1, LabelIs
  <2> QED BY <2>1, <2>2, <2>3 DEF RedactedValue
<1> QED BY <1>1, <1>2, <1>3

(* Of two entries that lose their key, the later has more before it.       *)
LEMMA NamelessGrows ==
  ASSUME NEW doc, WellFormed(doc), NEW p \in DOMAIN doc, NEW q \in DOMAIN doc,
         AreBeside(p, q), p[Len(p)] < q[Len(q)], ~IsFieldName(doc[q].key)
  PROVE Cardinality(Nameless(doc, p)) # Cardinality(Nameless(doc, q))
<1> DEFINE P == Nameless(doc, p)
           Q == Nameless(doc, q)
<1>1. /\ p \in Seq(Nat) /\ q \in Seq(Nat) /\ IsFiniteSet(DOMAIN doc)
      /\ p[Len(p)] \in Nat /\ q[Len(q)] \in Nat
  <2>1. p \in Seq(Nat) /\ q \in Seq(Nat) /\ IsFiniteSet(DOMAIN doc)
    BY DEF WellFormed
  <2>2. Len(p) \in 1 .. Len(p) /\ Len(q) \in 1 .. Len(q)
    BY <2>1 DEF AreBeside
  <2> QED BY <2>1, <2>2
<1>2. IsFiniteSet(P) /\ IsFiniteSet(Q)
  <2>1. P \subseteq DOMAIN doc /\ Q \subseteq DOMAIN doc
    BY DEF Nameless
  <2> QED BY <1>1, <2>1, FS_Subset
<1>3. q \in Q /\ q \notin P
  BY <1>1 DEF Nameless, AreBeside
<1>4. ASSUME NEW r \in P PROVE r \in Q
  <2>1. /\ r \in DOMAIN doc /\ r \in Seq(Nat) /\ AreBeside(r, p) /\ r[Len(r)] <= p[Len(p)]
        /\ ~IsFieldName(doc[r].key)
    BY DEF Nameless, WellFormed
  <2>2. AreBeside(r, q) /\ r[Len(r)] \in Nat
    BY <2>1 DEF AreBeside
  <2>3. r[Len(r)] <= q[Len(q)]
    BY <1>1, <2>1, <2>2
  <2> QED BY <2>1, <2>2, <2>3 DEF Nameless
<1> HIDE DEF P, Q
<1>5. Cardinality(P) # Cardinality(Q)
  BY <1>2, <1>3, <1>4, FS_Subset
<1> QED BY <1>5 DEF P, Q

(* Every place of a document comes through, or one above it is masked, and *)
(* no two entries come to one key (_redact_node).                          *)
LEMMA RedactedKeeps ==
  ASSUME NEW doc, WellFormed(doc)
  PROVE Keeps(RedactDocument(doc), doc)
<1> DEFINE out == RedactDocument(doc)
<1>1. ASSUME NEW p \in DOMAIN doc
      PROVE \E n \in 0 .. Len(p) :
               UpTo(p, n) \in DOMAIN out /\ (n = Len(p) \/ out[UpTo(p, n)].value = Mask)
  <2>1. /\ p \in Seq(Nat) /\ Len(p) \in Nat /\ UpTo(p, Len(p)) = p
        /\ \A n \in 0 .. Len(p) : UpTo(p, n) \in DOMAIN doc
    BY UpToAgain DEF WellFormed
  <2>2. CASE ~WithinIdentity(doc, p)
    <3>1. p \in DOMAIN out
      BY <2>2, RedactedIs
    <3>2. Len(p) \in 0 .. Len(p) /\ UpTo(p, Len(p)) \in DOMAIN out
      BY <2>1, <3>1
    <3> QED BY <3>2
  <2>3. CASE WithinIdentity(doc, p)
    <3> DEFINE T == {n \in 1 .. Len(p) - 1 : doc[UpTo(p, n)].key.identity}
    <3>1. T # {} /\ T \in SUBSET Nat
      BY <2>1, <2>3 DEF WithinIdentity
    <3>2. PICK n \in T : \A m \in T : n <= m
      <4> HIDE DEF T
      <4> QED BY <3>1, Least
    <3> DEFINE q == UpTo(p, n)
    <3>3. /\ n \in 1 .. Len(p) - 1 /\ n \in 0 .. Len(p) /\ n \in Nat
          /\ doc[q].key.identity /\ q \in DOMAIN doc
      BY <2>1, <3>2
    <3>4. Len(q) = n /\ \A m \in 1 .. n - 1 : UpTo(q, m) = UpTo(p, m)
      <4>1. \A m \in 1 .. n - 1 : m \in 0 .. n
        BY <3>3
      <4> QED BY <2>1, <3>3, <4>1, UpToIs, UpToAgain
    <3>5. ~WithinIdentity(doc, q)
      <4>1. ASSUME NEW m \in 1 .. Len(q) - 1, doc[UpTo(q, m)].key.identity PROVE FALSE
        <5>1. m \in 1 .. n - 1 /\ m \in 1 .. Len(p) - 1
          BY <2>1, <3>3, <3>4
        <5>2. doc[UpTo(p, m)].key.identity
          BY <3>4, <4>1, <5>1
        <5>3. m \in T
          BY <5>1, <5>2
        <5> QED BY <3>2, <3>3, <5>1, <5>3
      <4> QED BY <4>1 DEF WithinIdentity
    <3>6. q \in DOMAIN out /\ out[q].value = Mask
      BY <3>3, <3>5, RedactedIs DEF RedactedValue
    <3> QED BY <3>3, <3>6
  <2> QED BY <2>2, <2>3
<1>2. ASSUME NEW p \in DOMAIN out, IsTree(doc[p].value)
      PROVE out[p].value \in {doc[p].value, Mask}
  BY <1>2, RedactedIs DEF RedactedValue
<1>3. ASSUME NEW p \in DOMAIN out, NEW q \in DOMAIN out,
             AreBeside(p, q), out[p].key # NoKey, out[p].key = out[q].key
      PROVE p = q
  <2>1. /\ p \in DOMAIN doc /\ q \in DOMAIN doc /\ p \in Seq(Nat) /\ q \in Seq(Nat)
        /\ doc[p].key.is = "key" /\ doc[q].key.is = "key"
        /\ out[p].key = RedactedKey(doc, p) /\ out[q].key = RedactedKey(doc, q)
    BY <1>3, RedactedIs DEF WellFormed
  <2>2. RedactedKey(doc, p) = RedactedKey(doc, q)
    BY <1>3, <2>1
  <2>3. CASE IsFieldName(doc[p].key) /\ IsFieldName(doc[q].key)
    <3>1. doc[p].key = doc[q].key
      BY <2>2, <2>3 DEF RedactedKey
    <3> QED BY <1>3, <2>1, <3>1 DEF WellFormed
  <2>4. CASE IsFieldName(doc[p].key) # IsFieldName(doc[q].key)
    BY <2>1, <2>2, <2>4 DEF RedactedKey, KeyMask, IsFieldName
  <2>5. CASE ~IsFieldName(doc[p].key) /\ ~IsFieldName(doc[q].key)
    <3>1. Cardinality(Nameless(doc, p)) = Cardinality(Nameless(doc, q))
      BY <2>2, <2>5 DEF RedactedKey, KeyMask
    <3>2. AreBeside(q, p) /\ p[Len(p)] \in Nat /\ q[Len(q)] \in Nat
      BY <1>3, <2>1 DEF AreBeside
    <3>3. p[Len(p)] = q[Len(q)]
      BY <1>3, <2>1, <2>5, <3>1, <3>2, NamelessGrows
    <3> QED BY <1>3, <2>1, <3>3, BesideApart
  <2> QED BY <2>3, <2>4, <2>5
<1> QED BY <1>1, <1>2, <1>3 DEF Keeps

(* Each document of a turn is redacted by itself (_redacted_blocks).       *)
LEMMA RedactedTurnIs ==
  ASSUME NEW turn
  PROVE RedactedTurn(turn).documents
          = [i \in DOMAIN InputsOf(turn) |-> RedactDocument(InputsOf(turn)[i])]
BY DEF RedactedTurn

(* What is to be built comes of what was given.                            *)
RequestInv == given \in Givens /\ MaskedAndWhole

(* For documents of any depth and any keys, histories and tools:           *)
(* build_request sends nothing that names someone as it came, and loses no *)
(* fact to a masked key.                                                   *)
THEOREM EverythingIsMaskedAndWhole == RequestSpec => []MaskedAndWhole
<1>1. RequestInit => RequestInv
  BY DEF RequestInit, RequestInv, MaskedAndWhole, Unbuilt
<1>2. RequestInv /\ [Build]_requestVars => RequestInv'
  <2> SUFFICES ASSUME RequestInv, [Build]_requestVars PROVE RequestInv'
    OBVIOUS
  <2>1. CASE UNCHANGED requestVars
    BY <2>1 DEF requestVars, RequestInv, MaskedAndWhole
  <2>2. CASE Build
    <3>1. given' = given /\ given \in Givens
      BY <2>2 DEF Build, RequestInv
    <3>2. CASE outgoing' = Refused
      BY <3>1, <3>2 DEF RequestInv, MaskedAndWhole, Refused
    <3>3. CASE outgoing' = [is |-> "built",
                            turns |-> [i \in DOMAIN given.history |-> RedactedTurn(given.history[i])],
                            document |-> RedactDocument(given.document)]
      <4>1. /\ outgoing'.document = RedactDocument(given.document)
            /\ DOMAIN outgoing'.turns = DOMAIN given.history
            /\ \A t \in DOMAIN given.history : outgoing'.turns[t] = RedactedTurn(given.history[t])
        BY <3>3
      <4>2. NamesNobody(outgoing'.document, given.document) /\ Keeps(outgoing'.document, given.document)
        BY <3>1, <4>1, RequestAssumption, RedactedNamesNobody, RedactedKeeps
      <4>3. ASSUME NEW t \in DOMAIN outgoing'.turns, NEW i \in DOMAIN outgoing'.turns[t].documents
            PROVE /\ NamesNobody(outgoing'.turns[t].documents[i], InputsOf(given.history[t])[i])
                  /\ Keeps(outgoing'.turns[t].documents[i], InputsOf(given.history[t])[i])
        <5> DEFINE docs == InputsOf(given.history[t])
        <5>1. /\ i \in DOMAIN docs
              /\ outgoing'.turns[t].documents[i] = RedactDocument(docs[i])
          <6>1. outgoing'.turns[t].documents = [j \in DOMAIN docs |-> RedactDocument(docs[j])]
            BY <4>1, <4>3, RedactedTurnIs
          <6> HIDE DEF docs
          <6> QED BY <4>3, <6>1
        <5>2. WellFormed(docs[i])
          BY <3>1, <4>1, <4>3, <5>1, RequestAssumption
        <5> QED BY <5>1, <5>2, RedactedNamesNobody, RedactedKeeps
      <4> QED BY <3>1, <4>2, <4>3 DEF RequestInv, MaskedAndWhole
    <3> QED BY <2>2, <3>2, <3>3 DEF Build
  <2> QED BY <2>1, <2>2
<1>3. RequestInv => MaskedAndWhole
  BY DEF RequestInv
<1> QED BY <1>1, <1>2, <1>3, PTL DEF RequestSpec

=============================================================================
