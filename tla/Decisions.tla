----------------------------- MODULE Decisions ------------------------------
(***************************************************************************)
(* decision-service's decide on one application: worker threads that look  *)
(* a request id up, pull credit, score and record, under an advisory lock  *)
(* per request id.  The lock lives in a transaction of its own connection, *)
(* so it is gone when that connection drops, although the thread goes on;  *)
(* the record is written on the process's one autocommit connection, where *)
(* a statement is a step.                                                  *)
(***************************************************************************)
EXTENDS Integers, Sequences

CONSTANTS
    Requests, Keys, Outcomes, Terms, Borrowers,
    NoKey, NoPrint, NoOutcome,
    NoRequest    \* nobody holds the lock

ASSUME DecisionsAssumption ==
    /\ NoKey \notin Keys
    /\ NoPrint \notin Borrowers
    /\ NoOutcome \notin Outcomes
    /\ NoRequest \notin Requests

VARIABLES
    events,     \* decision_events of the application, in the order of their ids
    pointer,    \* decisions.outcome
    lock,       \* the session that holds decision:<app_id>:<request_id>
    req,        \* the requests: where each stands, what it asked and was told
    lost        \* history: requests whose lock connection dropped

vars == <<events, pointer, lock, req, lost>>

(* The record's vocabulary; told is what answered requests were told.      *)
Told == [r \in Requests |-> IF req[r].pc = "done" THEN req[r].event ELSE 0]

Promise == INSTANCE DecisionRecord WITH told <- Told

Inputs == Promise!Inputs
Event == Promise!Event

Request == [pc : {"idle", "lock", "lookup", "pull", "persist", "answer", "done"},
            key : Keys \cup {NoKey}, inputs : Inputs,
            outcome : Outcomes \cup {NoOutcome},
            event : Nat]

TypeOK ==
    /\ events \in Seq(Event)
    /\ pointer \in Outcomes \cup {NoOutcome}
    /\ lock \in [Keys -> Requests \cup {NoRequest}]
    /\ req \in [Requests -> Request]
    /\ \A r \in Requests : req[r].event \in 0 .. Len(events)
    /\ lost \in SUBSET Requests

(* Seeded applications have an outcome from before the record existed.     *)
Init ==
    /\ events = <<>>
    /\ pointer \in Outcomes \cup {NoOutcome}
    /\ lock = [k \in Keys |-> NoRequest]
    /\ req \in [Requests -> [pc : {"idle"}, key : Keys \cup {NoKey}, inputs : Inputs,
                             outcome : {NoOutcome}, event : {0}]]
    /\ lost = {}

Goto(r, pc) == req' = [req EXCEPT ![r].pc = pc]

Holds(r) == req[r].key # NoKey /\ lock[req[r].key] = r

Unlocked(r) == IF Holds(r) THEN [lock EXCEPT ![req[r].key] = NoRequest] ELSE lock

(* The request ends without an outcome (409, 503 or 500) and rolls back.   *)
Refuse(r) ==
    /\ req' = [req EXCEPT ![r].pc = "done", ![r].event = 0,
                          ![r].outcome = NoOutcome]
    /\ lock' = Unlocked(r)

-----------------------------------------------------------------------------
(* decide: an explicit re-decision takes no lock and looks nothing up.     *)
Start(r) ==
    /\ req[r].pc = "idle"
    /\ Goto(r, IF req[r].key = NoKey THEN "pull" ELSE "lock")
    /\ UNCHANGED <<events, pointer, lock, lost>>

(* Slip: the lookup is done before the lock is asked for.                  *)
LockLookedUp(r) ==
    /\ req[r].pc = "lock"
    /\ lock[req[r].key] = NoRequest
    /\ lock' = [lock EXCEPT ![req[r].key] = r]
    /\ Goto(r, "pull")
    /\ UNCHANGED <<events, pointer, lost>>

(* pg_advisory_xact_lock waits.                                            *)
Lock(r) ==
    /\ req[r].pc = "lock"
    /\ lock[req[r].key] = NoRequest
    /\ lock' = [lock EXCEPT ![req[r].key] = r]
    /\ Goto(r, "lookup")
    /\ UNCHANGED <<events, pointer, lost>>

(* The existing event i is answered with, or the request conflicts with it.*)
AnswerFrom(r, i) ==
    IF Promise!Conflict(events[i].inputs, req[r].inputs)
    THEN Refuse(r)
    ELSE /\ req' = [req EXCEPT ![r].pc = "answer", ![r].event = i,
                               ![r].outcome = NoOutcome]
         /\ UNCHANGED lock

RecordedAs(r) == {i \in DOMAIN events : events[i].key = req[r].key}

(* _find_event_by_request.                                                 *)
Lookup(r) ==
    /\ req[r].pc = "lookup"
    /\ \/ \E i \in RecordedAs(r) : AnswerFrom(r, i)
       \/ RecordedAs(r) = {} /\ Goto(r, "pull") /\ UNCHANGED lock
    /\ UNCHANGED <<events, pointer, lost>>

(* _pull_credit and the model: any outcome, since the bureau's score moves.*)
Score(r, o) ==
    /\ req[r].pc = "pull"
    /\ req' = [req EXCEPT ![r].pc = "persist", ![r].outcome = o]
    /\ UNCHANGED <<events, pointer, lock, lost>>

EventFor(r) ==
    [key |-> req[r].key, inputs |-> req[r].inputs, outcome |-> req[r].outcome]

(* Slip: the index was never created on an initialized volume.             *)
UniqueByLockAlone(r) == TRUE

(* uq_decision_events_request                                              *)
Unique(r) == req[r].key = NoKey \/ RecordedAs(r) = {}

(* The one statement that inserts the event and moves the pointer.         *)
Insert(r) ==
    /\ req[r].pc = "persist"
    /\ Unique(r)
    /\ events' = Append(events, EventFor(r))
    /\ pointer' = req[r].outcome

Persist(r) ==
    /\ Insert(r)
    /\ req' = [req EXCEPT ![r].pc = "answer", ![r].event = Len(events) + 1,
                          ![r].outcome = NoOutcome]
    /\ UNCHANGED <<lock, lost>>

(* The statement commits and its connection fails before saying so.        *)
PersistUnseen(r) ==
    /\ Insert(r)
    /\ Refuse(r)
    /\ UNCHANGED lost

(* UniqueViolation: the event the race was lost to is looked up.           *)
PersistRaced(r) ==
    /\ req[r].pc = "persist"
    /\ ~Unique(r)
    /\ \E i \in RecordedAs(r) : AnswerFrom(r, i)
    /\ UNCHANGED <<events, pointer, lost>>

(* The lock's transaction commits, or its connection turns out to be gone. *)
Answer(r) ==
    /\ req[r].pc = "answer"
    /\ IF req[r].key # NoKey /\ ~Holds(r)
       THEN Refuse(r)
       ELSE Goto(r, "done") /\ lock' = Unlocked(r)
    /\ UNCHANGED <<events, pointer, lost>>

(* Any exception: no bureau, an unmapped feature, a record that fails      *)
(* validation, a statement that fails before it commits, a dying process.  *)
Fail(r) ==
    /\ req[r].pc \in {"lock", "lookup", "pull", "persist", "answer"}
    /\ Refuse(r)
    /\ UNCHANGED <<events, pointer, lost>>

(* The lock's connection drops; its thread does not know.                  *)
LockDrops(r) ==
    /\ Holds(r)
    /\ lock' = Unlocked(r)
    /\ lost' = lost \cup {r}
    /\ UNCHANGED <<events, pointer, req>>

Next ==
    \E r \in Requests :
        \/ Start(r)
        \/ Lock(r)
        \/ Lookup(r)
        \/ \E o \in Outcomes : Score(r, o)
        \/ Persist(r)
        \/ PersistUnseen(r)
        \/ PersistRaced(r)
        \/ Answer(r)
        \/ Fail(r)
        \/ LockDrops(r)

Spec == Init /\ [][Next]_vars

-----------------------------------------------------------------------------
(* Of the requests with one request id a single one is between the lookup  *)
(* and the record, and none pulls credit once the record is there, unless  *)
(* a lock connection of that id dropped (decide's lookup, pull, persist).  *)
OnePullUnlessLost ==
    \A r \in Requests :
        req[r].key # NoKey /\ req[r].pc = "pull" =>
            \/ \E s \in lost : req[s].key = req[r].key
            \/ /\ RecordedAs(r) = {}
               /\ \A s \in Requests \ {r} :
                      req[s].key = req[r].key => req[s].pc \notin {"pull", "persist"}

(* The record is append-only with one event per request id, whoever is     *)
(* told an outcome is told a recorded one of his own request id and        *)
(* inputs, and decisions names the latest (_persist_event, decide).        *)
ImplementsRecord == Promise!Spec

(* The lock never wedges a request id: whoever holds it is alive inside    *)
(* the block that releases it, whatever he met there (advisory_lock).      *)
LockIsOwned ==
    \A k \in Keys :
        lock[k] # NoRequest =>
            /\ req[lock[k]].key = k
            /\ req[lock[k]].pc \in {"lookup", "pull", "persist", "answer"}

-----------------------------------------------------------------------------
(* The inductive strengthening.  Who is inside the block holds the lock or *)
(* has lost it; who is told something is told his own; a request id without*)
(* a lost lock has no record while someone pulls or is about to record.    *)
Inside(r) == req[r].key # NoKey /\ req[r].pc \in {"lookup", "pull", "persist", "answer"}

InsideHolds == \A r \in Requests : Inside(r) => Holds(r) \/ r \in lost

OneEventPerKey ==
    \A i, j \in DOMAIN events :
        events[i].key = events[j].key /\ events[i].key # NoKey => i = j

AnswerIsOwn ==
    \A r \in Requests :
        /\ req[r].pc \notin {"answer", "done"} => req[r].event = 0
        /\ req[r].pc = "answer" => req[r].event # 0
        /\ req[r].event # 0 =>
               /\ events[req[r].event].key = req[r].key
               /\ ~Promise!Conflict(events[req[r].event].inputs, req[r].inputs)

PersistHasOutcome ==
    \A r \in Requests : req[r].pc = "persist" => req[r].outcome \in Outcomes

OnlyKeyedLock ==
    \A r \in Requests : req[r].pc \in {"lock", "lookup"} => req[r].key # NoKey

NotYetRecorded ==
    \A r \in Requests :
        req[r].key # NoKey /\ req[r].pc \in {"pull", "persist"} =>
            \/ \E s \in lost : req[s].key = req[r].key
            \/ RecordedAs(r) = {}

DecisionsInv ==
    /\ TypeOK
    /\ LockIsOwned
    /\ InsideHolds
    /\ OneEventPerKey
    /\ AnswerIsOwn
    /\ PersistHasOutcome
    /\ OnlyKeyedLock
    /\ NotYetRecorded

=============================================================================
