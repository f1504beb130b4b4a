-------------------------- MODULE DecisionsProofs ---------------------------
(***************************************************************************)
(* Proofs about Decisions, for every number of requests and request ids.   *)
(***************************************************************************)
EXTENDS Decisions, TLAPS

(* What an INSERT leaves of the record (_persist_event).                   *)
LEMMA AppendFacts ==
    ASSUME NEW S, NEW s \in Seq(S), NEW e \in S
    PROVE  /\ Append(s, e) \in Seq(S)
           /\ Len(Append(s, e)) = Len(s) + 1
           /\ DOMAIN Append(s, e) = 1 .. Len(s) + 1
           /\ DOMAIN s = 1 .. Len(s)
           /\ Len(s) \in Nat
           /\ \A i \in 1 .. Len(s) : Append(s, e)[i] = s[i]
           /\ Append(s, e)[Len(s) + 1] = e
  OBVIOUS

(* No inputs conflict with themselves (_inputs_conflict).                  *)
LEMMA NoSelfConflict == ASSUME NEW i PROVE ~Promise!Conflict(i, i)
  BY DEF Promise!Conflict

(* Nothing is recorded, held or told at the start (Init).                  *)
LEMMA InitInv == Init => DecisionsInv
<1> SUFFICES ASSUME Init PROVE DecisionsInv
  OBVIOUS
<1> USE DecisionsAssumption DEF Init
<1>1. TypeOK
  <2>1. events \in Seq(Event) /\ Len(events) = 0
    OBVIOUS
  <2>2. req \in [Requests -> Request] /\ \A r \in Requests : req[r].event = 0
    BY DEF Request
  <2> QED BY <2>1, <2>2 DEF TypeOK
<1>2. LockIsOwned /\ InsideHolds
  BY DEF LockIsOwned, InsideHolds, Inside
<1>3. OneEventPerKey
  BY DEF OneEventPerKey
<1>4. AnswerIsOwn /\ PersistHasOutcome /\ NotYetRecorded /\ OnlyKeyedLock
  BY DEF AnswerIsOwn, PersistHasOutcome, NotYetRecorded, OnlyKeyedLock
<1> QED BY <1>1, <1>2, <1>3, <1>4 DEF DecisionsInv

-----------------------------------------------------------------------------
Block == {"lookup", "pull", "persist", "answer"}

(* The three things a move of r to q may do to the lock.                   *)
KeepsLock(r, q) ==
    /\ lock' = lock
    /\ Holds(r) => q.pc \in Block
    /\ req[r].key # NoKey /\ q.pc \in Block => Inside(r)

FreesLock(r, q) == lock' = Unlocked(r) /\ q.pc \notin Block

TakesLock(r, q) ==
    /\ req[r].key \in Keys
    /\ lock[req[r].key] = NoRequest
    /\ lock' = [lock EXCEPT ![req[r].key] = r]
    /\ q.pc \in Block

(* What r is told in q is on the record, under its request id and inputs.  *)
TellsOwn(r, q) ==
    /\ q.event \in 0 .. Len(events)
    /\ q.pc \notin {"answer", "done"} => q.event = 0
    /\ q.pc = "answer" => q.event # 0
    /\ q.event # 0 => /\ events[q.event].key = req[r].key
                      /\ ~Promise!Conflict(events[q.event].inputs, req[r].inputs)

(* A move of one request, whatever it does to the record: the lock belongs *)
(* to whoever is inside the block (advisory_lock).                         *)
LEMMA LockMove ==
    ASSUME DecisionsInv, NEW r \in Requests, NEW q \in Request,
           req' = [req EXCEPT ![r] = q], UNCHANGED lost,
           q.key = req[r].key,
           KeepsLock(r, q) \/ FreesLock(r, q) \/ TakesLock(r, q)
    PROVE  /\ req' \in [Requests -> Request]
           /\ req'[r] = q
           /\ \A s \in Requests \ {r} : req'[s] = req[s]
           /\ lock' \in [Keys -> Requests \cup {NoRequest}]
           /\ LockIsOwned' /\ InsideHolds'
<1> USE DecisionsAssumption
<1>1. /\ req' \in [Requests -> Request]
      /\ req'[r] = q
      /\ \A s \in Requests \ {r} : req'[s] = req[s]
  BY DEF DecisionsInv, TypeOK
<1>2. lock' \in [Keys -> Requests \cup {NoRequest}]
  <2>1. CASE KeepsLock(r, q)
    BY <2>1 DEF KeepsLock, DecisionsInv, TypeOK
  <2>2. CASE FreesLock(r, q)
    BY <2>2 DEF FreesLock, Unlocked, DecisionsInv, TypeOK
  <2>3. CASE TakesLock(r, q)
    BY <2>3 DEF TakesLock, DecisionsInv, TypeOK
  <2> QED BY <2>1, <2>2, <2>3
<1>3. LockIsOwned'
  <2> SUFFICES ASSUME NEW k \in Keys, lock'[k] # NoRequest
               PROVE  req'[lock'[k]].key = k /\ req'[lock'[k]].pc \in Block
    BY DEF LockIsOwned, Block
  <2> DEFINE h == lock'[k]
  <2>0. lock[k] # NoRequest => req[lock[k]].key = k /\ req[lock[k]].pc \in Block
    BY DEF DecisionsInv, LockIsOwned, Block
  <2>1. CASE KeepsLock(r, q)
    <3>1. h = lock[k] /\ h \in Requests
      BY <2>1, <1>2 DEF KeepsLock
    <3>2. CASE h = r
      BY <2>0, <2>1, <3>1, <3>2, <1>1 DEF KeepsLock, Holds
    <3>3. CASE h # r
      BY <2>0, <3>1, <3>3, <1>1
    <3> QED BY <3>2, <3>3
  <2>2. CASE FreesLock(r, q)
    <3>1. h = lock[k] /\ h # r
      BY <2>0, <2>2 DEF FreesLock, Unlocked, Holds, DecisionsInv, TypeOK
    <3> QED BY <2>0, <3>1, <1>1, <1>2
  <2>3. CASE TakesLock(r, q)
    <3>1. k = req[r].key => h = r
      BY <2>3 DEF TakesLock, DecisionsInv, TypeOK
    <3>2. k # req[r].key => h = lock[k] /\ h # r
      BY <2>0, <2>3 DEF TakesLock, DecisionsInv, TypeOK
    <3> QED BY <2>0, <2>3, <3>1, <3>2, <1>1, <1>2 DEF TakesLock
  <2> QED BY <2>1, <2>2, <2>3
<1>4. InsideHolds'
  <2> SUFFICES ASSUME NEW s \in Requests, Inside(s)'
               PROVE  Holds(s)' \/ s \in lost
    BY DEF InsideHolds
  <2>0. Inside(s) => Holds(s) \/ s \in lost
    BY DEF DecisionsInv, InsideHolds
  <2>1. CASE s = r
    <3>1. q.key # NoKey /\ q.pc \in Block
      BY <2>1, <1>1 DEF Inside, Block
    <3>2. CASE KeepsLock(r, q)
      BY <2>0, <2>1, <3>1, <3>2, <1>1 DEF KeepsLock, Holds
    <3>3. CASE TakesLock(r, q)
      BY <2>1, <3>1, <3>3, <1>1 DEF TakesLock, Holds, DecisionsInv, TypeOK
    <3> QED BY <3>1, <3>2, <3>3 DEF FreesLock
  <2>2. CASE s # r
    <3>1. req'[s] = req[s] /\ Inside(s)
      BY <2>2, <1>1 DEF Inside
    <3>2. CASE s \in lost
      BY <3>2
    <3>3. CASE Holds(s)
      <4>1. req[s].key \in Keys /\ lock[req[s].key] = s
        BY <3>3 DEF Holds, DecisionsInv, TypeOK, Request
      <4>2. lock'[req[s].key] = s
        <5>1. CASE KeepsLock(r, q)
          BY <5>1, <4>1 DEF KeepsLock
        <5>2. CASE FreesLock(r, q)
          BY <5>2, <4>1, <2>2 DEF FreesLock, Unlocked, Holds, DecisionsInv, TypeOK
        <5>3. CASE TakesLock(r, q)
          BY <5>3, <4>1 DEF TakesLock, DecisionsInv, TypeOK
        <5> QED BY <5>1, <5>2, <5>3
      <4> QED BY <3>1, <3>3, <4>2 DEF Holds
    <3> QED BY <2>0, <3>1, <3>2, <3>3
  <2> QED BY <2>1, <2>2
<1> QED BY <1>1, <1>2, <1>3, <1>4

(* A move that leaves the record alone (every step but the INSERT's): what *)
(* must be shown of it to keep the invariant (Decisions' Next).            *)
LEMMA MoveInv ==
    ASSUME DecisionsInv, NEW r \in Requests, NEW q \in Request,
           req' = [req EXCEPT ![r] = q], UNCHANGED <<events, pointer, lost>>,
           q.key = req[r].key, q.inputs = req[r].inputs,
           KeepsLock(r, q) \/ FreesLock(r, q) \/ TakesLock(r, q),
           TellsOwn(r, q),
           q.pc = "persist" => q.outcome \in Outcomes,
           q.pc \in {"lock", "lookup"} => req[r].key # NoKey,
           q.pc \in {"pull", "persist"} =>
               req[r].key = NoKey \/ RecordedAs(r) = {} \/ req[r].pc \in {"pull", "persist"}
    PROVE  DecisionsInv'
<1> USE DecisionsAssumption
<1>1. /\ req' \in [Requests -> Request]
      /\ req'[r] = q
      /\ \A s \in Requests \ {r} : req'[s] = req[s]
  BY LockMove
<1>3. TypeOK'
  BY LockMove, <1>1 DEF DecisionsInv, TypeOK, TellsOwn
<1>5. LockIsOwned' /\ InsideHolds'
  BY LockMove
<1>6. OneEventPerKey'
  BY DEF DecisionsInv, OneEventPerKey
<1>7. AnswerIsOwn'
  BY <1>1 DEF DecisionsInv, AnswerIsOwn, TellsOwn
<1>8. PersistHasOutcome'
  BY <1>1 DEF DecisionsInv, PersistHasOutcome
<1>9. NotYetRecorded'
  <2> SUFFICES ASSUME NEW s \in Requests, req'[s].key # NoKey,
                      req'[s].pc \in {"pull", "persist"}
               PROVE  (\E t \in lost : req'[t].key = req'[s].key) \/ RecordedAs(s)' = {}
    BY DEF NotYetRecorded
  <2>1. \A t \in Requests : req'[t].key = req[t].key
    BY <1>1
  <2>2. RecordedAs(s)' = RecordedAs(s)
    BY <2>1 DEF RecordedAs
  <2>3. lost \subseteq Requests
    BY DEF DecisionsInv, TypeOK
  <2>4. (\E t \in lost : req[t].key = req[s].key) \/ RecordedAs(s) = {}
    BY <1>1, <2>1 DEF DecisionsInv, NotYetRecorded
  <2> QED BY <2>1, <2>2, <2>3, <2>4
<1>10. OnlyKeyedLock'
  BY <1>1 DEF DecisionsInv, OnlyKeyedLock
<1> QED BY <1>3, <1>5, <1>6, <1>7, <1>8, <1>9, <1>10 DEF DecisionsInv

(* The INSERT: nobody else with its request id is about to record, unless  *)
(* a lock connection dropped, and the index refuses a second event.        *)
LEMMA InsertInv ==
    ASSUME DecisionsInv, NEW r \in Requests, NEW q \in Request,
           Insert(r), req' = [req EXCEPT ![r] = q], UNCHANGED lost,
           q.key = req[r].key, q.inputs = req[r].inputs,
           KeepsLock(r, q) \/ FreesLock(r, q),
           \/ q.pc = "answer" /\ q.event = Len(events) + 1
           \/ q.pc = "done" /\ q.event = 0
    PROVE  DecisionsInv'
<1> USE DecisionsAssumption
<1> DEFINE e == EventFor(r)
<1>1. /\ req' \in [Requests -> Request]
      /\ req'[r] = q
      /\ \A s \in Requests \ {r} : req'[s] = req[s]
  BY LockMove
<1>2. e \in Event /\ e.key = req[r].key /\ e.inputs = req[r].inputs /\ e.outcome = req[r].outcome
  BY DEF EventFor, Insert, DecisionsInv, PersistHasOutcome, TypeOK, Request, Inputs,
         Event, Promise!Event
<1>3. /\ events' \in Seq(Event)
      /\ DOMAIN events' = 1 .. Len(events) + 1 /\ DOMAIN events = 1 .. Len(events)
      /\ Len(events') = Len(events) + 1 /\ Len(events) \in Nat
      /\ \A i \in 1 .. Len(events) : events'[i] = events[i]
      /\ events'[Len(events) + 1] = e
  <2> HIDE DEF e
  <2>1. events \in Seq(Event) /\ events' = Append(events, e)
    BY DEF Insert, DecisionsInv, TypeOK, e
  <2> QED BY <2>1, <1>2, AppendFacts
<1>4. TypeOK'
  <2>1. \A s \in Requests : req'[s].event \in 0 .. Len(events')
    BY <1>1, <1>3 DEF DecisionsInv, TypeOK
  <2>2. pointer' \in Outcomes
    BY DEF Insert, DecisionsInv, PersistHasOutcome
  <2> QED BY <1>1, <1>3, <2>1, <2>2, LockMove DEF DecisionsInv, TypeOK
<1>5. LockIsOwned' /\ InsideHolds'
  BY LockMove
<1>6. e.key # NoKey => \A i \in DOMAIN events : events[i].key # e.key
  BY <1>2 DEF Insert, Unique, RecordedAs
<1>7. OneEventPerKey'
  BY <1>3, <1>6 DEF DecisionsInv, OneEventPerKey
<1>8. AnswerIsOwn'
  <2> SUFFICES ASSUME NEW s \in Requests
               PROVE  /\ req'[s].pc \notin {"answer", "done"} => req'[s].event = 0
                      /\ req'[s].pc = "answer" => req'[s].event # 0
                      /\ req'[s].event # 0 =>
                             /\ events'[req'[s].event].key = req'[s].key
                             /\ ~Promise!Conflict(events'[req'[s].event].inputs, req'[s].inputs)
    BY DEF AnswerIsOwn
  <2>1. CASE s = r
    BY <2>1, <1>1, <1>2, <1>3, NoSelfConflict
  <2>2. CASE s # r
    <3>1. req'[s] = req[s] /\ req[s].event \in 0 .. Len(events)
      BY <2>2, <1>1 DEF DecisionsInv, TypeOK
    <3> QED BY <3>1, <1>3 DEF DecisionsInv, AnswerIsOwn
  <2> QED BY <2>1, <2>2
<1>9. PersistHasOutcome'
  BY <1>1 DEF DecisionsInv, PersistHasOutcome
<1>10. NotYetRecorded'
  <2> SUFFICES ASSUME NEW s \in Requests, req'[s].key # NoKey,
                      req'[s].pc \in {"pull", "persist"},
                      \A t \in lost : req'[t].key # req'[s].key
               PROVE  RecordedAs(s)' = {}
    BY DEF NotYetRecorded
  <2>1. \A t \in Requests : req'[t].key = req[t].key
    BY <1>1
  <2>2. s # r /\ req'[s] = req[s]
    BY <1>1
  <2>3. lost \subseteq Requests /\ s \notin lost
    BY <2>1 DEF DecisionsInv, TypeOK
  <2>4. RecordedAs(s) = {}
    BY <2>1, <2>2, <2>3 DEF DecisionsInv, NotYetRecorded
  <2>5. e.key # req[s].key
    <3> SUFFICES ASSUME req[r].key = req[s].key PROVE FALSE
      BY <1>2
    <3>1. r \notin lost
      BY <2>1
    <3>2. Inside(r) /\ Inside(s)
      BY <2>1, <2>2 DEF Inside, Insert
    <3>3. Holds(r) /\ Holds(s)
      BY <2>3, <3>1, <3>2 DEF DecisionsInv, InsideHolds
    <3> QED BY <2>2, <3>3 DEF Holds
  <2> HIDE DEF e
  <2> QED BY <2>1, <2>4, <2>5, <1>3 DEF RecordedAs
<1>11. OnlyKeyedLock'
  BY <1>1 DEF DecisionsInv, OnlyKeyedLock
<1> QED BY <1>4, <1>5, <1>7, <1>8, <1>9, <1>10, <1>11 DEF DecisionsInv

-----------------------------------------------------------------------------
(* Every step of every request keeps the invariant (Decisions' Next).      *)
LEMMA StepInv == DecisionsInv /\ [Next]_vars => DecisionsInv'
<1> SUFFICES ASSUME DecisionsInv, [Next]_vars PROVE DecisionsInv'
  OBVIOUS
<1> USE DecisionsAssumption
<1> DEFINE To(r, pc) == [req[r] EXCEPT !.pc = pc]
           Refused(r) == [req[r] EXCEPT !.pc = "done", !.event = 0, !.outcome = NoOutcome]
           Given(r, i) == [req[r] EXCEPT !.pc = "answer", !.event = i, !.outcome = NoOutcome]
<1>0. /\ req \in [Requests -> Request]
      /\ \A r \in Requests : req[r] \in Request /\ req[r].event \in 0 .. Len(events)
  BY DEF DecisionsInv, TypeOK
<1>1. CASE UNCHANGED vars
  BY <1>1 DEF vars, DecisionsInv, TypeOK, LockIsOwned, InsideHolds, Inside, Holds,
              OneEventPerKey, AnswerIsOwn, PersistHasOutcome, NotYetRecorded, RecordedAs, OnlyKeyedLock
<1>2. ASSUME NEW r \in Requests, Refuse(r), UNCHANGED <<events, pointer, lost>>
      PROVE  DecisionsInv'
  <2>1. Refused(r) \in Request /\ req' = [req EXCEPT ![r] = Refused(r)]
    BY <1>0, <1>2 DEF Refuse, Request
  <2>2. FreesLock(r, Refused(r))
    BY <1>2, <1>0 DEF Refuse, FreesLock, Block, Request
  <2>3. TellsOwn(r, Refused(r))
    BY <1>0 DEF TellsOwn, Request, DecisionsInv, TypeOK
  <2> HIDE DEF Refused
  <2>4. Refused(r).key = req[r].key /\ Refused(r).inputs = req[r].inputs /\ Refused(r).pc = "done"
    BY <1>0 DEF Refused, Request
  <2> QED BY <1>2, <2>1, <2>2, <2>3, <2>4, MoveInv
<1>3. ASSUME NEW r \in Requests, NEW i \in RecordedAs(r), AnswerFrom(r, i), Inside(r) \/ req[r].key = NoKey,
             req[r].pc \in {"lookup", "persist"}, UNCHANGED <<events, pointer, lost>>
      PROVE  DecisionsInv'
  <2>1. CASE Promise!Conflict(events[i].inputs, req[r].inputs)
    BY <1>2, <1>3, <2>1 DEF AnswerFrom
  <2>2. CASE ~Promise!Conflict(events[i].inputs, req[r].inputs)
    <3>0. i \in 1 .. Len(events) /\ Len(events) \in Nat /\ events[i].key = req[r].key
      BY <1>3 DEF RecordedAs, DecisionsInv, TypeOK
    <3>1. req' = [req EXCEPT ![r] = Given(r, i)] /\ lock' = lock
      <4>1. /\ req' = [req EXCEPT ![r].pc = "answer", ![r].event = i, ![r].outcome = NoOutcome]
            /\ lock' = lock
        BY <1>3, <2>2 DEF AnswerFrom
      <4> QED BY <1>0, <4>1
    <3>5. Given(r, i) \in Request
      <4>1. i \in Nat
        BY <3>0
      <4>2. req[r] \in Request
        BY <1>0
      <4> QED BY <4>1, <4>2 DEF Request
    <3>2. /\ Given(r, i).key = req[r].key /\ Given(r, i).inputs = req[r].inputs
          /\ Given(r, i).pc = "answer" /\ Given(r, i).event = i
      BY <1>0 DEF Request
    <3> HIDE DEF Given
    <3>3. KeepsLock(r, Given(r, i))
      BY <1>3, <3>1, <3>2 DEF KeepsLock, Block
    <3>4. TellsOwn(r, Given(r, i))
      BY <2>2, <3>0, <3>2 DEF TellsOwn, DecisionsInv, TypeOK
    <3> QED BY <1>3, <3>1, <3>2, <3>3, <3>4, <3>5, MoveInv
  <2> QED BY <2>1, <2>2
<1>4. ASSUME NEW r \in Requests, Start(r) PROVE DecisionsInv'
  <2> DEFINE q == To(r, IF req[r].key = NoKey THEN "pull" ELSE "lock")
  <2>1. /\ q \in Request /\ req' = [req EXCEPT ![r] = q]
        /\ q.key = req[r].key /\ q.inputs = req[r].inputs
        /\ q.pc = (IF req[r].key = NoKey THEN "pull" ELSE "lock") /\ q.event = req[r].event
    BY <1>0, <1>4 DEF Start, Goto, Request
  <2> HIDE DEF q
  <2>2. ~Holds(r)
    BY <1>0, <1>4 DEF Start, Holds, DecisionsInv, LockIsOwned, TypeOK, Request
  <2>3. KeepsLock(r, q)
    BY <1>4, <2>1, <2>2 DEF KeepsLock, Start, Block
  <2>4. TellsOwn(r, q)
    BY <1>0, <1>4, <2>1 DEF TellsOwn, Start, DecisionsInv, AnswerIsOwn
  <2> QED BY <1>4, <2>1, <2>3, <2>4, MoveInv DEF Start
<1>5. ASSUME NEW r \in Requests, Lock(r) PROVE DecisionsInv'
  <2> DEFINE q == To(r, "lookup")
  <2>1. /\ q \in Request /\ req' = [req EXCEPT ![r] = q]
        /\ q.key = req[r].key /\ q.inputs = req[r].inputs /\ q.pc = "lookup" /\ q.event = req[r].event
    BY <1>0, <1>5 DEF Lock, Goto, Request
  <2> HIDE DEF q
  <2>2. req[r].key \in Keys
    BY <1>0, <1>5 DEF Lock, DecisionsInv, OnlyKeyedLock, Request
  <2>3. TakesLock(r, q)
    BY <1>5, <2>1, <2>2 DEF TakesLock, Lock, Block
  <2>4. TellsOwn(r, q)
    BY <1>0, <1>5, <2>1 DEF TellsOwn, Lock, DecisionsInv, AnswerIsOwn
  <2> QED BY <1>5, <2>1, <2>2, <2>3, <2>4, MoveInv DEF Lock
<1>6. ASSUME NEW r \in Requests, Lookup(r) PROVE DecisionsInv'
  <2>0. Inside(r) /\ req[r].pc = "lookup"
    BY <1>6 DEF Lookup, Inside, DecisionsInv, OnlyKeyedLock
  <2>1. CASE \E i \in RecordedAs(r) : AnswerFrom(r, i)
    BY <1>3, <1>6, <2>0, <2>1 DEF Lookup
  <2>2. CASE RecordedAs(r) = {} /\ Goto(r, "pull") /\ UNCHANGED lock
    <3> DEFINE q == To(r, "pull")
    <3>1. /\ q \in Request /\ req' = [req EXCEPT ![r] = q]
          /\ q.key = req[r].key /\ q.inputs = req[r].inputs /\ q.pc = "pull" /\ q.event = req[r].event
      BY <1>0, <2>2 DEF Goto, Request
    <3> HIDE DEF q
    <3>2. KeepsLock(r, q)
      BY <2>0, <2>2, <3>1 DEF KeepsLock, Block
    <3>3. TellsOwn(r, q)
      BY <1>0, <2>0, <3>1 DEF TellsOwn, DecisionsInv, AnswerIsOwn
    <3> QED BY <1>6, <2>2, <3>1, <3>2, <3>3, MoveInv DEF Lookup
  <2> QED BY <1>6, <2>1, <2>2 DEF Lookup
<1>7. ASSUME NEW r \in Requests, NEW o \in Outcomes, Score(r, o) PROVE DecisionsInv'
  <2> DEFINE q == [req[r] EXCEPT !.pc = "persist", !.outcome = o]
  <2>1. /\ q \in Request /\ req' = [req EXCEPT ![r] = q]
        /\ q.key = req[r].key /\ q.inputs = req[r].inputs /\ q.pc = "persist"
        /\ q.event = req[r].event /\ q.outcome = o
    BY <1>0, <1>7 DEF Score, Request
  <2> HIDE DEF q
  <2>2. KeepsLock(r, q)
    BY <1>7, <2>1 DEF KeepsLock, Score, Block, Inside
  <2>3. TellsOwn(r, q)
    BY <1>0, <1>7, <2>1 DEF TellsOwn, Score, DecisionsInv, AnswerIsOwn
  <2> QED BY <1>7, <2>1, <2>2, <2>3, MoveInv DEF Score
<1>8. ASSUME NEW r \in Requests, Persist(r) PROVE DecisionsInv'
  <2> DEFINE q == Given(r, Len(events) + 1)
  <2>0. Len(events) \in Nat
    BY DEF DecisionsInv, TypeOK
  <2>1. /\ q \in Request /\ req' = [req EXCEPT ![r] = q]
        /\ q.key = req[r].key /\ q.inputs = req[r].inputs /\ q.pc = "answer"
        /\ q.event = Len(events) + 1
    BY <1>0, <1>8, <2>0 DEF Persist, Request
  <2> HIDE DEF q
  <2>2. KeepsLock(r, q)
    BY <1>8, <2>1 DEF KeepsLock, Persist, Insert, Block, Inside
  <2> QED BY <1>8, <2>1, <2>2, InsertInv DEF Persist
<1>9. ASSUME NEW r \in Requests, PersistUnseen(r) PROVE DecisionsInv'
  <2> DEFINE q == Refused(r)
  <2>1. /\ q \in Request /\ req' = [req EXCEPT ![r] = q]
        /\ q.key = req[r].key /\ q.inputs = req[r].inputs /\ q.pc = "done" /\ q.event = 0
    BY <1>0, <1>9 DEF PersistUnseen, Refuse, Request
  <2> HIDE DEF q
  <2>2. FreesLock(r, q)
    BY <1>9, <2>1 DEF PersistUnseen, Refuse, FreesLock, Block
  <2> QED BY <1>9, <2>1, <2>2, InsertInv DEF PersistUnseen
<1>10. ASSUME NEW r \in Requests, PersistRaced(r) PROVE DecisionsInv'
  BY <1>3, <1>10 DEF PersistRaced, Inside
<1>11. ASSUME NEW r \in Requests, Answer(r) PROVE DecisionsInv'
  <2>1. CASE req[r].key # NoKey /\ ~Holds(r)
    BY <1>2, <1>11, <2>1 DEF Answer
  <2>2. CASE ~(req[r].key # NoKey /\ ~Holds(r))
    <3> DEFINE q == To(r, "done")
    <3>1. /\ q \in Request /\ req' = [req EXCEPT ![r] = q]
          /\ q.key = req[r].key /\ q.inputs = req[r].inputs /\ q.pc = "done" /\ q.event = req[r].event
      BY <1>0, <1>11, <2>2 DEF Answer, Goto, Request
    <3> HIDE DEF q
    <3>2. FreesLock(r, q)
      BY <1>11, <2>2, <3>1 DEF Answer, FreesLock, Block
    <3>3. TellsOwn(r, q)
      BY <1>0, <3>1 DEF TellsOwn, DecisionsInv, AnswerIsOwn
    <3> QED BY <1>11, <3>1, <3>2, <3>3, MoveInv DEF Answer
  <2> QED BY <2>1, <2>2
<1>12. ASSUME NEW r \in Requests, Fail(r) PROVE DecisionsInv'
  BY <1>2, <1>12 DEF Fail
<1>13. ASSUME NEW r \in Requests, LockDrops(r) PROVE DecisionsInv'
  <2>1. /\ r \in lost' /\ lost \subseteq lost' /\ lost' \subseteq Requests
        /\ lock' = [lock EXCEPT ![req[r].key] = NoRequest]
        /\ lock' \in [Keys -> Requests \cup {NoRequest}]
    BY <1>13 DEF LockDrops, Unlocked, DecisionsInv, TypeOK
  <2>2. TypeOK'
    BY <1>13, <2>1 DEF LockDrops, DecisionsInv, TypeOK
  <2>3. LockIsOwned'
    BY <1>13, <2>1 DEF LockDrops, DecisionsInv, LockIsOwned, TypeOK
  <2>4. InsideHolds'
    <3> SUFFICES ASSUME NEW s \in Requests, Inside(s), s \notin lost' PROVE Holds(s)'
      BY <1>13 DEF InsideHolds, Inside, LockDrops
    <3>1. s # r /\ Holds(s)
      BY <2>1 DEF DecisionsInv, InsideHolds
    <3>2. req[s].key # req[r].key
      BY <1>13, <3>1 DEF LockDrops, Holds
    <3> QED BY <1>13, <2>1, <3>1, <3>2 DEF LockDrops, Holds
  <2>5. NotYetRecorded'
    BY <1>13, <2>1 DEF LockDrops, DecisionsInv, NotYetRecorded, RecordedAs
  <2>6. OneEventPerKey' /\ AnswerIsOwn' /\ PersistHasOutcome' /\ OnlyKeyedLock'
    BY <1>13 DEF LockDrops, DecisionsInv, OneEventPerKey, AnswerIsOwn, PersistHasOutcome,
                 OnlyKeyedLock
  <2> QED BY <2>2, <2>3, <2>4, <2>5, <2>6 DEF DecisionsInv
<1> QED
  BY <1>1, <1>4, <1>5, <1>6, <1>7, <1>8, <1>9, <1>10, <1>11, <1>12, <1>13 DEF Next

-----------------------------------------------------------------------------
(* The inductive invariant of locks, requests and the record.              *)
THEOREM DecisionsInvHolds == Spec => []DecisionsInv
  BY InitInv, StepInv, PTL DEF Spec

(* Every variable keeps its type (decision_events, decisions, decide).     *)
THEOREM TypeIsKept == Spec => []TypeOK
<1>1. DecisionsInv => TypeOK
  BY DEF DecisionsInv
<1> QED BY <1>1, DecisionsInvHolds, PTL

(* Whoever holds a request id's lock is on his way to release it           *)
(* (advisory_lock).                                                        *)
THEOREM LockNeverWedges == Spec => []LockIsOwned
<1>1. DecisionsInv => LockIsOwned
  BY DEF DecisionsInv
<1> QED BY <1>1, DecisionsInvHolds, PTL

(* One credit pull at a time and none after the record, unless a lock      *)
(* connection dropped (decide).                                            *)
THEOREM OnePull == Spec => []OnePullUnlessLost
<1>1. DecisionsInv => OnePullUnlessLost
  <2> SUFFICES ASSUME DecisionsInv, NEW r \in Requests,
                      req[r].key # NoKey, req[r].pc = "pull",
                      \A s \in lost : req[s].key # req[r].key
               PROVE  /\ RecordedAs(r) = {}
                      /\ \A s \in Requests \ {r} :
                             req[s].key = req[r].key => req[s].pc \notin {"pull", "persist"}
    BY DEF OnePullUnlessLost
  <2>1. RecordedAs(r) = {}
    BY DEF DecisionsInv, NotYetRecorded
  <2>2. ASSUME NEW s \in Requests \ {r}, req[s].key = req[r].key,
               req[s].pc \in {"pull", "persist"}
        PROVE  FALSE
    <3>1. Inside(r) /\ Inside(s) /\ r \notin lost /\ s \notin lost
      BY <2>2 DEF Inside
    <3> QED BY <2>2, <3>1 DEF DecisionsInv, InsideHolds, Holds
  <2> QED BY <2>1, <2>2
<1> QED BY <1>1, DecisionsInvHolds, PTL

-----------------------------------------------------------------------------
(* A move of one request that leaves the record alone and tells nobody     *)
(* anything is a stutter of the promise (Decisions' Next).                 *)
LEMMA QuietMove ==
    ASSUME DecisionsInv, NEW r \in Requests, NEW q,
           req' = [req EXCEPT ![r] = q],
           req[r].pc # "done",
           q.pc = "done" => q.event = 0
    PROVE  Told' = Told
<1>1. /\ req \in [Requests -> Request]
      /\ req'[r] = q
      /\ \A s \in Requests \ {r} : req'[s] = req[s]
  BY DEF DecisionsInv, TypeOK
<1>2. \A s \in Requests : Told'[s] = Told[s]
  BY <1>1 DEF Told
<1> QED BY <1>2 DEF Told

(* decide keeps what the record promises: events are appended and never    *)
(* two under a request id, and answers are on the record (DecisionRecord). *)
THEOREM ImplementsTheRecord == Spec => ImplementsRecord
<1> USE DecisionsAssumption
<1>1. Init => Promise!Init
  <2> SUFFICES ASSUME Init PROVE Promise!Init
    OBVIOUS
  <2>1. Told = [r \in Requests |-> 0]
    BY DEF Init, Told
  <2> QED BY <2>1 DEF Init, Promise!Init
<1>2. ASSUME DecisionsInv, [Next]_vars
      PROVE  [Promise!Next]_<<events, pointer, Told>>
  <2>0. \A r \in Requests : req[r] \in Request
    BY <1>2 DEF DecisionsInv, TypeOK
  <2>1. CASE UNCHANGED vars
    BY <2>1 DEF vars, Told
  <2>2. ASSUME NEW r \in Requests, Refuse(r), req[r].pc # "done",
               UNCHANGED <<events, pointer>>
        PROVE  UNCHANGED <<events, pointer, Told>>
    <3> DEFINE q == [req[r] EXCEPT !.pc = "done", !.event = 0, !.outcome = NoOutcome]
    <3>1. req' = [req EXCEPT ![r] = q] /\ q.event = 0
      BY <2>0, <2>2 DEF Refuse, Request
    <3> HIDE DEF q
    <3> QED BY <1>2, <2>2, <3>1, QuietMove
  <2>3. ASSUME NEW r \in Requests, NEW pc, pc # "done", Goto(r, pc), req[r].pc # "done",
               UNCHANGED <<events, pointer>>
        PROVE  UNCHANGED <<events, pointer, Told>>
    <3> DEFINE q == [req[r] EXCEPT !.pc = pc]
    <3>1. req' = [req EXCEPT ![r] = q] /\ q.pc = pc
      BY <2>0, <2>3 DEF Goto, Request
    <3> HIDE DEF q
    <3> QED BY <1>2, <2>3, <3>1, QuietMove
  <2>4. ASSUME NEW r \in Requests, NEW i, AnswerFrom(r, i), req[r].pc # "done",
               UNCHANGED <<events, pointer>>
        PROVE  UNCHANGED <<events, pointer, Told>>
    <3>1. CASE Refuse(r)
      BY <2>2, <2>4, <3>1
    <3>2. CASE req' = [req EXCEPT ![r].pc = "answer", ![r].event = i, ![r].outcome = NoOutcome]
      <4> DEFINE q == [req[r] EXCEPT !.pc = "answer", !.event = i, !.outcome = NoOutcome]
      <4>1. req' = [req EXCEPT ![r] = q] /\ q.pc = "answer"
        BY <2>0, <3>2 DEF Request
      <4> HIDE DEF q
      <4> QED BY <1>2, <2>4, <4>1, QuietMove
    <3> QED BY <2>4, <3>1, <3>2 DEF AnswerFrom
  <2>5. ASSUME NEW r \in Requests, Insert(r), Told' = Told
        PROVE  Promise!Next
    <3> DEFINE e == EventFor(r)
    <3>1. e \in Event /\ e.key = req[r].key /\ e.outcome = req[r].outcome
      BY <1>2, <2>5 DEF EventFor, Insert, DecisionsInv, PersistHasOutcome, TypeOK, Request,
                        Inputs, Event, Promise!Event
    <3>2. e.key # NoKey => \A i \in DOMAIN events : events[i].key # e.key
      BY <2>5, <3>1 DEF Insert, Unique, RecordedAs
    <3>3. events' = Append(events, e) /\ pointer' = e.outcome
      BY <2>5, <3>1 DEF Insert
    <3> HIDE DEF e
    <3>4. Promise!Record(e)
      BY <2>5, <3>2, <3>3 DEF Promise!Record
    <3> QED BY <3>1, <3>4 DEF Promise!Next, Event
  <2>6. ASSUME NEW r \in Requests, Persist(r) PROVE Promise!Next
    <3> DEFINE q == [req[r] EXCEPT !.pc = "answer", !.event = Len(events) + 1,
                                   !.outcome = NoOutcome]
    <3>1. req' = [req EXCEPT ![r] = q] /\ q.pc = "answer" /\ req[r].pc # "done"
      BY <2>0, <2>6 DEF Persist, Insert, Request
    <3> HIDE DEF q
    <3>2. Told' = Told
      BY <1>2, <3>1, QuietMove
    <3> QED BY <2>5, <2>6, <3>2 DEF Persist
  <2>7. ASSUME NEW r \in Requests, PersistUnseen(r) PROVE Promise!Next
    <3> DEFINE q == [req[r] EXCEPT !.pc = "done", !.event = 0, !.outcome = NoOutcome]
    <3>1. req' = [req EXCEPT ![r] = q] /\ q.event = 0 /\ req[r].pc # "done"
      BY <2>0, <2>7 DEF PersistUnseen, Refuse, Insert, Request
    <3> HIDE DEF q
    <3>2. Told' = Told
      BY <1>2, <3>1, QuietMove
    <3> QED BY <2>5, <2>7, <3>2 DEF PersistUnseen
  <2>8. ASSUME NEW r \in Requests, Answer(r)
        PROVE  Promise!Next \/ UNCHANGED <<events, pointer, Told>>
    <3>1. CASE Refuse(r)
      BY <2>2, <2>8, <3>1 DEF Answer
    <3>2. CASE Goto(r, "done")
      <4> DEFINE i == req[r].event
      <4>1. /\ req' \in [Requests -> Request]
            /\ req'[r].pc = "done" /\ req'[r].event = i
            /\ \A s \in Requests \ {r} : req'[s] = req[s]
        BY <1>2, <3>2 DEF Goto, DecisionsInv, TypeOK, Request
      <4>2. Told[r] = 0 /\ Told' = [Told EXCEPT ![r] = i]
        BY <2>8, <4>1 DEF Told, Answer
      <4>3. /\ i \in DOMAIN events
            /\ events[i].key = req[r].key
            /\ ~Promise!Conflict(events[i].inputs, req[r].inputs)
        BY <1>2, <2>8 DEF Answer, DecisionsInv, AnswerIsOwn, TypeOK
      <4>4. req[r].key \in Keys \cup {NoKey} /\ req[r].inputs \in Promise!Inputs
        BY <2>0 DEF Request, Inputs
      <4>5. Promise!Tell(r, req[r].key, req[r].inputs, i)
        BY <2>8, <4>2, <4>3 DEF Promise!Tell, Answer
      <4> QED BY <4>3, <4>4, <4>5 DEF Promise!Next
    <3> QED BY <2>8, <3>1, <3>2 DEF Answer
  <2>9. ASSUME NEW r \in Requests, LockDrops(r) PROVE UNCHANGED <<events, pointer, Told>>
    BY <2>9 DEF LockDrops, Told
  <2>10. ASSUME NEW r \in Requests, NEW o \in Outcomes, Score(r, o)
         PROVE  UNCHANGED <<events, pointer, Told>>
    <3> DEFINE q == [req[r] EXCEPT !.pc = "persist", !.outcome = o]
    <3>1. req' = [req EXCEPT ![r] = q] /\ q.pc = "persist" /\ req[r].pc # "done"
      BY <2>0, <2>10 DEF Score, Request
    <3> HIDE DEF q
    <3> QED BY <1>2, <2>10, <3>1, QuietMove DEF Score
  <2>11. ASSUME NEW r \in Requests, Start(r) \/ Lock(r) \/ Lookup(r)
         PROVE  UNCHANGED <<events, pointer, Told>>
    <3>1. CASE Start(r)
      BY <2>3, <3>1 DEF Start
    <3>2. CASE Lock(r)
      BY <2>3, <3>2 DEF Lock
    <3>3. CASE Lookup(r)
      BY <2>3, <2>4, <3>3 DEF Lookup
    <3> QED BY <2>11, <3>1, <3>2, <3>3
  <2>12. ASSUME NEW r \in Requests, PersistRaced(r) \/ Fail(r)
         PROVE  UNCHANGED <<events, pointer, Told>>
    BY <2>2, <2>4, <2>12 DEF PersistRaced, Fail
  <2> QED
    BY <1>2, <2>1, <2>6, <2>7, <2>8, <2>9, <2>10, <2>11, <2>12 DEF Next
<1> QED BY <1>1, <1>2, DecisionsInvHolds, PTL DEF Spec, ImplementsRecord, Promise!Spec

=============================================================================
