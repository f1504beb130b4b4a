---------------------------- MODULE OfficerPage -----------------------------
(***************************************************************************)
(* The underwriting page of an application (frontend                       *)
(* app/underwriting/[appId]/page.tsx): the decision panel, the assistant's *)
(* card and the disclosure block of one screen, which is reused for every  *)
(* application.  `path' holds the application of each visit.  The decision *)
(* record behind it is decision-service's promise (DecisionRecord): a      *)
(* request id records one event, and the same id is answered with it.      *)
(* Facts are the number of their event; a block whose content no property  *)
(* tells apart is the visit it was loaded for.                             *)
(***************************************************************************)
EXTENDS Naturals, Sequences, FiniteSets

CONSTANTS Files,       \* the applications the officer goes between
          RunIds,      \* the keys crypto.randomUUID mints
          MaxTurns,    \* bound on navigations
          MaxEvents,   \* bound on the decision events of an application
          NoId         \* no key

ASSUME DeskAssumption ==
    MaxTurns \in Nat \ {0} /\ MaxEvents \in Nat /\ NoId \notin RunIds

VARIABLES
    path,          \* the application of each visit; the last one is in the header
    shown,         \* the visit whose load gave the application on screen, or 0
    panel,         \* the decision panel: [event, turn]
    card,          \* the assistant's card: [event, turn]; event 0 has no outcome
    block,         \* the disclosure block: the visits its two halves are of
    told,          \* the visit whose action's result is on screen, or 0
    working,       \* actionBusy
    decisionKey, assistantKey,
    task,          \* per visit: the action under way
    opening,       \* per visit: load, as the mount runs it
    papers,        \* per visit: loadDisclosure, as the mount runs it
    events,        \* per application: the request ids of its decision events
    adrift,        \* requests whose sender was told of an error
    usedBy,        \* per key: the visit and action that minted it (history)
    confirmed,     \* per visit: the assistant runs answered (history)
    reloaded,      \* a load has set the panel beside the card (history)
    strays         \* earlier visits whose re-check loaded on this one (history)

desk == <<path, shown, panel, card, block, told, working>>
keysHeld == <<decisionKey, assistantKey>>
record == <<events, adrift>>
past == <<usedBy, confirmed, reloaded, strays>>
deskVars == <<desk, keysHeld, task, opening, papers, record, past>>

Turns == 1..MaxTurns
turn == Len(path)
Blank == [event |-> 0, turn |-> 0]
Rest == [pc |-> "idle"]
Loading(v) == [w \in Turns |-> IF w = v THEN "get" ELSE "idle"]

DeskInit ==
    /\ \E a \in Files : path = <<a>>
    /\ shown = 0 /\ panel = Blank /\ card = Blank
    /\ block = [chain |-> 0, document |-> 0]
    /\ told = 0 /\ working = FALSE
    /\ decisionKey = NoId /\ assistantKey = NoId
    /\ task = [v \in Turns |-> Rest]
    /\ opening = Loading(1) /\ papers = Loading(1)
    /\ events = [a \in Files |-> <<>>] /\ adrift = {}
    /\ usedBy = [k \in RunIds |-> [turn |-> 0, op |-> "none"]]
    /\ confirmed = [v \in Turns |-> 0] /\ reloaded = FALSE /\ strays = {}

(* Slip: the application is compared, not the generation.                  *)
OnScreenByFile(v) == path[v] = path[turn]

(* routeGenRef.current === gen *)
OnScreen(v) == v = turn

-----------------------------------------------------------------------------
(* The route, and the two loads of a mount.                                *)

(* The per-application reset, which runs while the next one is rendered.   *)
Open(a) ==
    /\ turn < MaxTurns /\ a # path[turn]
    /\ path' = Append(path, a)
    /\ shown' = 0 /\ panel' = Blank /\ card' = Blank
    /\ block' = [chain |-> 0, document |-> 0]
    /\ told' = 0 /\ working' = FALSE
    /\ decisionKey' = NoId /\ assistantKey' = NoId
    /\ opening' = [opening EXCEPT ![turn + 1] = "get"]
    /\ papers' = [papers EXCEPT ![turn + 1] = "get"]
    /\ reloaded' = FALSE /\ strays' = {}
    /\ UNCHANGED <<task, record, usedBy, confirmed>>

(* A load of v's application that writes: the application, and its newest  *)
(* decision, if there is one; or the error page in place of both.          *)
Reloaded(v) ==
    LET n == Len(events[path[v]]) IN
    \/ /\ shown' = v
       /\ panel' = IF n = 0 THEN panel ELSE [event |-> n, turn |-> v]
       /\ reloaded' = (card # Blank \/ reloaded)
    \/ shown' = 0 /\ UNCHANGED <<panel, reloaded>>

LoadLands(v) ==
    /\ opening[v] = "get"
    /\ opening' = [opening EXCEPT ![v] = "done"]
    /\ IF OnScreen(v) THEN Reloaded(v) ELSE UNCHANGED <<shown, panel, reloaded>>
    /\ UNCHANGED <<path, card, block, told, working, keysHeld, task, papers, record,
                   usedBy, confirmed, strays>>

(* The provenance, then the document, each with a guard of its own; what   *)
(* cannot be fetched is shown as absent.                                   *)
ShowHalf(v, half) ==
    /\ \E w \in {0, v} :
           block' = IF OnScreen(v) THEN [block EXCEPT ![half] = w] ELSE block
    /\ UNCHANGED <<path, shown, panel, card, told, working, keysHeld, opening, record, past>>

ChainLands(v) ==
    /\ papers[v] = "get"
    /\ papers' = [papers EXCEPT ![v] = IF OnScreen(v) THEN "document" ELSE "done"]
    /\ ShowHalf(v, "chain") /\ UNCHANGED task

DocumentLands(v) ==
    /\ papers[v] = "document"
    /\ papers' = [papers EXCEPT ![v] = "done"]
    /\ ShowHalf(v, "document") /\ UNCHANGED task

-----------------------------------------------------------------------------
(* The buttons: every action disables them all until it has ended.         *)

Free == shown # 0 /\ ~working

Begin(op, k) ==
    /\ Free
    /\ task' = [task EXCEPT ![turn] = [pc |-> "sent", op |-> op, key |-> k, got |-> 0, gen |-> 0]]
    /\ working' = TRUE /\ told' = 0
    /\ UNCHANGED <<path, shown, panel, card, block, opening, papers, record, confirmed,
                   reloaded, strays>>

(* A key is minted when none is held, and kept until it is let go.         *)
Mints(held, op, k) ==
    /\ held = NoId => usedBy[k].turn = 0
    /\ held # NoId => k = held
    /\ usedBy' = IF held # NoId THEN usedBy
                 ELSE [usedBy EXCEPT ![k] = [turn |-> turn, op |-> op]]

RunDecision(k) ==
    /\ Begin("decide", k)
    /\ Mints(decisionKey, "decide", k) /\ decisionKey' = k
    /\ UNCHANGED assistantKey

RunAssistant(k) ==
    /\ Begin("assist", k)
    /\ Mints(assistantKey, "assist", k) /\ assistantKey' = k
    /\ UNCHANGED decisionKey

(* explainAssistant; recheckKyc; generateDisclosure, transitionDisclosure; *)
(* makeOffer, runSummary, acceptAndBoard.                                  *)
Ask(op) ==
    /\ op \in {"explain", "recheck", "disclose", "plain"}
    /\ Begin(op, NoId)
    /\ UNCHANGED <<keysHeld, usedBy>>

-----------------------------------------------------------------------------
(* The services.                                                           *)

EventOf(a, k) == CHOOSE i \in 1..Len(events[a]) : events[a][i] = k

Records(a, k) ==
    events' = IF k \in {events[a][i] : i \in 1..Len(events[a])} THEN events
              ELSE [events EXCEPT ![a] = Append(@, k)]

Room(a) == Len(events[a]) < MaxEvents

Answered(v, got) == task' = [task EXCEPT ![v].pc = "answered", ![v].got = got]

(* A scoring request is recorded once and answered with its event; the     *)
(* assistant may still refuse, or answer without an outcome.               *)
ServeRun(v) ==
    LET a == path[v]
        k == task[v].key
    IN  /\ task[v].pc = "sent" /\ task[v].op \in {"decide", "assist"}
        /\ Room(a) /\ Records(a, k)
        /\ \/ \E i \in 1..Len(events'[a]) : events'[a][i] = k /\ Answered(v, i)
           \/ task[v].op = "assist" /\ Answered(v, 0)
        /\ UNCHANGED <<desk, keysHeld, opening, papers, adrift, past>>

(* Explain reports the newest event.                                       *)
ServeExplain(v) ==
    /\ task[v].pc = "sent" /\ task[v].op = "explain"
    /\ events[path[v]] # <<>> /\ Answered(v, Len(events[path[v]]))
    /\ UNCHANGED <<desk, keysHeld, opening, papers, record, past>>

ServeOther(v) ==
    /\ task[v].pc = "sent" /\ task[v].op \in {"recheck", "disclose", "plain"}
    /\ Answered(v, 1)
    /\ UNCHANGED <<desk, keysHeld, opening, papers, record, past>>

(* A refusal, or an error that says nothing of what was done; a request    *)
(* that is still on its way may be served later.                           *)
FailTask(v) ==
    /\ task[v].pc \in {"sent", "answered"}
    /\ task' = [task EXCEPT ![v].pc = "failed"]
    /\ adrift' = IF task[v].pc = "sent" /\ task[v].key # NoId
                 THEN adrift \cup {[app |-> path[v], key |-> task[v].key]} ELSE adrift
    /\ UNCHANGED <<desk, keysHeld, opening, papers, events, past>>

ServeLate(r) ==
    /\ Room(r.app) /\ Records(r.app, r.key)
    /\ adrift' = adrift \ {r}
    /\ UNCHANGED <<desk, keysHeld, task, opening, papers, past>>

(* Another officer, or the borrower.                                       *)
DecideElsewhere(a) ==
    /\ Room(a)
    /\ events' = [events EXCEPT ![a] = Append(@, NoId)]
    /\ UNCHANGED <<desk, keysHeld, task, opening, papers, adrift, past>>

-----------------------------------------------------------------------------
(* The handlers, resumed.                                                  *)

Ends(v) == task' = [task EXCEPT ![v] = Rest]

(* finally: the result is shown and the buttons come back.                 *)
Done(v) ==
    /\ told' = v /\ working' = FALSE /\ Ends(v)

Settled(v) == task[v].pc \in {"answered", "failed"}

(* What is compared with the generation the handler began in.              *)
LeftBehind(v) ==
    /\ task[v].pc \in {"answered", "failed", "chain", "document"} /\ ~OnScreen(v)
    /\ task[v].op = "recheck" => task[v].pc = "failed"
    /\ Ends(v)
    /\ UNCHANGED <<desk, keysHeld, opening, papers, record, past>>

(* Slip: a refused run lets its key go.                                    *)
FailsAndRotates(v) ==
    /\ task[v].pc = "failed" /\ OnScreen(v)
    /\ Done(v)
    /\ assistantKey' = IF task[v].op = "assist" THEN NoId ELSE assistantKey
    /\ UNCHANGED <<path, shown, panel, card, block, decisionKey, opening, papers, record, past>>

Fails(v) ==
    /\ task[v].pc = "failed" /\ OnScreen(v)
    /\ Done(v)
    /\ UNCHANGED <<path, shown, panel, card, block, keysHeld, opening, papers, record, past>>

(* Slip: the card of the last run stays beside the new decision.           *)
DecisionLandsBesideCard(v) ==
    /\ task[v].pc = "answered" /\ OnScreen(v) /\ task[v].op = "decide"
    /\ panel' = [event |-> task[v].got, turn |-> v]
    /\ Done(v)
    /\ UNCHANGED <<path, shown, card, block, keysHeld, opening, papers, record, past>>

(* A manual decision takes the assistant's card off the screen.            *)
DecisionLands(v) ==
    /\ task[v].pc = "answered" /\ OnScreen(v) /\ task[v].op = "decide"
    /\ panel' = [event |-> task[v].got, turn |-> v]
    /\ card' = Blank /\ reloaded' = FALSE
    /\ Done(v)
    /\ UNCHANGED <<path, shown, block, keysHeld, opening, papers, record, usedBy, confirmed,
                   strays>>

(* runAssistant and explainAssistant: the card, and the panel from the same*)
(* record, unless the answer carries no outcome; a confirmed run lets its  *)
(* key go.                                                                 *)
AssistantLands(v) ==
    LET got == task[v].got IN
    /\ task[v].pc = "answered" /\ OnScreen(v) /\ task[v].op \in {"assist", "explain"}
    /\ card' = [event |-> got, turn |-> v] /\ reloaded' = FALSE
    /\ panel' = IF got = 0 THEN panel ELSE [event |-> got, turn |-> v]
    /\ IF task[v].op = "assist" /\ got # 0
       THEN assistantKey' = NoId /\ confirmed' = [confirmed EXCEPT ![v] = @ + 1]
       ELSE UNCHANGED <<assistantKey, confirmed>>
    /\ Done(v)
    /\ UNCHANGED <<path, shown, block, decisionKey, opening, papers, record, usedBy, strays>>

PlainLands(v) ==
    /\ task[v].pc = "answered" /\ OnScreen(v) /\ task[v].op = "plain"
    /\ Done(v)
    /\ UNCHANGED <<path, shown, panel, card, block, keysHeld, opening, papers, record, past>>

(* generate and transition await loadDisclosure with the generation they   *)
(* began in.                                                               *)
AwaitsPapers(v) ==
    /\ task[v].pc = "answered" /\ OnScreen(v) /\ task[v].op = "disclose"
    /\ task' = [task EXCEPT ![v].pc = "chain"]
    /\ UNCHANGED <<desk, keysHeld, opening, papers, record, past>>

(* recheckKyc awaits load, which takes the generation it is called in and  *)
(* reads the application the handler began with.                           *)
AwaitsLoad(v) ==
    /\ task[v].pc = "answered" /\ task[v].op = "recheck"
    /\ task' = [task EXCEPT ![v].pc = "load", ![v].gen = turn]
    /\ UNCHANGED <<desk, keysHeld, opening, papers, record, past>>

(* Only what comes after the load is compared with the handler's own.      *)
RecheckLands(v) ==
    /\ task[v].pc = "load"
    /\ IF task[v].gen = turn
       THEN Reloaded(v) /\ strays' = strays \cup ({v} \ {turn})
       ELSE UNCHANGED <<shown, panel, reloaded, strays>>
    /\ IF OnScreen(v) THEN Done(v) ELSE Ends(v) /\ UNCHANGED <<told, working>>
    /\ UNCHANGED <<path, card, block, keysHeld, opening, papers, record, usedBy, confirmed>>

DisclosureReloads(v) ==
    /\ task[v].pc = "chain" /\ OnScreen(v)
    /\ task' = [task EXCEPT ![v].pc = "document"]
    /\ ShowHalf(v, "chain") /\ UNCHANGED papers

DisclosureLands(v) ==
    /\ task[v].pc = "document" /\ OnScreen(v)
    /\ \E w \in {0, v} : block' = [block EXCEPT !.document = w]
    /\ Done(v)
    /\ UNCHANGED <<path, shown, panel, card, keysHeld, opening, papers, record, past>>

-----------------------------------------------------------------------------
DeskNext ==
    \/ \E a \in Files : Open(a) \/ DecideElsewhere(a)
    \/ \E k \in RunIds : RunDecision(k) \/ RunAssistant(k)
    \/ \E op \in {"explain", "recheck", "disclose", "plain"} : Ask(op)
    \/ \E v \in Turns :
          \/ LoadLands(v) \/ ChainLands(v) \/ DocumentLands(v)
          \/ ServeRun(v) \/ ServeExplain(v) \/ ServeOther(v) \/ FailTask(v)
          \/ LeftBehind(v) \/ Fails(v)
          \/ DecisionLands(v) \/ AssistantLands(v) \/ PlainLands(v)
          \/ AwaitsPapers(v) \/ AwaitsLoad(v) \/ RecheckLands(v)
          \/ DisclosureReloads(v) \/ DisclosureLands(v)
    \/ \E r \in adrift : ServeLate(r)

DeskSpec == DeskInit /\ [][DeskNext]_deskVars

-----------------------------------------------------------------------------
(* Everything on screen is of this visit to this application, whatever     *)
(* lands after the officer has gone elsewhere and come back ("no frame      *)
(* shows one applicant under another's id"), but for the application and   *)
(* the decision that a re-check of an earlier visit loads on this one.     *)
DeskIsOfThisVisit ==
    /\ {card.turn, block.chain, block.document, told} \subseteq {0, turn}
    /\ {shown, panel.turn} \subseteq {0, turn} \cup strays

(* The panel and the card never report two decisions, nor one of another   *)
(* visit beside one of this, unless a load after a re-check has set the    *)
(* panel beside the card ("two record-backed but conflicting outcomes on   *)
(* one screen", runDecision and explainAssistant).                         *)
PanelsAgree == card.event # 0 /\ ~reloaded => panel = card

(* However answers are lost, late or retried, the Run decision clicks of a *)
(* visit record one event, and its assistant runs one more than were       *)
(* answered (decisionKeyRef, assistantKeyRef).                             *)
By(v, op) ==
    {k \in RunIds : /\ usedBy[k] = [turn |-> v, op |-> op]
                    /\ \E i \in 1..Len(events[path[v]]) : events[path[v]][i] = k}

OneEventPerAttempt ==
    \A v \in 1..turn :
        /\ Cardinality(By(v, "decide")) <= 1
        /\ Cardinality(By(v, "assist")) <= confirmed[v] + 1

=============================================================================
