--------------------------- MODULE GuardsProofs ---------------------------
(***************************************************************************)
(* What tells a caller that the way is clear, for any number of threads,   *)
(* any threshold and any timeouts, and for every database a volume may     *)
(* hold: the circuit breaker opens on the failures it counts; the          *)
(* readiness cache has one probe at a time, none while a verdict is fresh, *)
(* and tells no verdict that was not so within a TTL and the length of a   *)
(* probe; a ladder that passes has found what its service relies on; and a *)
(* migration that raised no error has left what it declares.               *)
(***************************************************************************)
EXTENDS CircuitBreaker, ReadinessCache, Schema, SequenceTheorems, WellFoundedInduction,
        TLAPS

(* The circuit breaker (clients.py).                                       *)

(* The invariant without its truth values, which another prover handles.   *)
Numbers ==
    /\ state \in {"closed", "open", "half_open"}
    /\ failures \in 0 .. Threshold
    /\ pc \in [Callers -> {"idle", "calling", "probing"}]
    /\ started \in Nat
    /\ ClosedIffFewFailures
    /\ OneCallPerCooldown
    /\ state = "open" => started = 0

Flags ==
    /\ cooled \in BOOLEAN
    /\ up \in BOOLEAN
    /\ escaped \in BOOLEAN

(* The invariant is its parts (BreakerInv).                                *)
LEMMA Parts == BreakerInv <=> Numbers /\ Flags /\ HalfOpenHasProbe
  BY Zenon DEF BreakerInv, Numbers, Flags, TypeOK

(* A fresh breaker is closed and has counted nothing (_breaker_for).       *)
LEMMA InitInv == Init => BreakerInv
<1> SUFFICES ASSUME Init PROVE Numbers /\ Flags /\ HalfOpenHasProbe
  BY Parts
<1>1. Numbers
  BY ThresholdAssumption, SMT
  DEF Init, Numbers, ClosedIffFewFailures, OneCallPerCooldown
<1>2. Flags
  BY Zenon DEF Init, Flags
<1>3. HalfOpenHasProbe
  BY Zenon DEF Init, HalfOpenHasProbe
<1> QED BY <1>1, <1>2, <1>3

(* Admission, the two ways of reporting, a bypass, the cooldown and an     *)
(* outage keep state, count and history of calls in step (Next).           *)
LEMMA NumbersStep == Numbers /\ [Next]_vars => Numbers'
<1> SUFFICES ASSUME Numbers, [Next]_vars PROVE Numbers'
  OBVIOUS
<1> USE ThresholdAssumption
        DEF Numbers, ClosedIffFewFailures, OneCallPerCooldown, breaker
<1>1. CASE UNCHANGED vars
  BY <1>1 DEF vars
<1>2. ASSUME NEW c \in Callers, AdmitClosed(c) PROVE Numbers'
  BY <1>2 DEF AdmitClosed
<1>3. ASSUME NEW c \in Callers, AdmitProbe(c) PROVE Numbers'
  BY <1>3 DEF AdmitProbe
<1>4. ASSUME NEW c \in Callers, Succeed(c) PROVE Numbers'
  BY <1>4 DEF Succeed
<1>5. ASSUME NEW c \in Callers, Fail(c) PROVE Numbers'
  BY <1>5 DEF Fail, Open
<1>6. ASSUME NEW c \in Callers, Escape(c) PROVE Numbers'
  BY <1>6 DEF Escape
<1>7. CASE Cool
  BY <1>7 DEF Cool
<1>8. CASE Outage
  BY <1>8 DEF Outage
<1> QED BY <1>1, <1>2, <1>3, <1>4, <1>5, <1>6, <1>7, <1>8 DEF Next, Admit, Finish

(* Each step keeps the flags truth values and leaves half-open a probe to  *)
(* wait for, in flight or escaped (_breaker_after_call, _with_breaker).    *)
LEMMA ProbeStep ==
    Numbers /\ Flags /\ HalfOpenHasProbe /\ [Next]_vars
        => Flags' /\ HalfOpenHasProbe'
<1> SUFFICES ASSUME Numbers, Flags, HalfOpenHasProbe, [Next]_vars
             PROVE Flags' /\ HalfOpenHasProbe'
  OBVIOUS
<1> USE DEF Flags, HalfOpenHasProbe, breaker
<1>1. CASE UNCHANGED vars
  BY <1>1, Zenon DEF vars
<1>2. ASSUME NEW c \in Callers, AdmitClosed(c) PROVE Flags' /\ HalfOpenHasProbe'
  BY <1>2, Zenon DEF AdmitClosed
<1>3. ASSUME NEW c \in Callers, AdmitProbe(c) PROVE Flags' /\ HalfOpenHasProbe'
  <2>1. pc' = [pc EXCEPT ![c] = "probing"] /\ pc \in [Callers -> {"idle", "calling", "probing"}]
    BY <1>3, Zenon DEF AdmitProbe, Numbers
  <2>2. pc'[c] = "probing"
    BY <2>1
  <2> QED BY <1>3, <2>2, Zenon DEF AdmitProbe
<1>4. ASSUME NEW c \in Callers, Succeed(c) PROVE Flags' /\ HalfOpenHasProbe'
  <2>1. state' # "half_open"
    BY <1>4 DEF Succeed
  <2> QED BY <1>4, <2>1, Zenon DEF Succeed
<1>5. ASSUME NEW c \in Callers, Fail(c) PROVE Flags' /\ HalfOpenHasProbe'
  <2>1. state' # "half_open"
    BY <1>5 DEF Fail, Open
  <2>2. Flags'
    BY <1>5, Zenon DEF Fail, Open
  <2> QED BY <2>1, <2>2, Zenon
<1>6. ASSUME NEW c \in Callers, Escape(c) PROVE Flags' /\ HalfOpenHasProbe'
  <2>1. Flags'
    BY <1>6, Zenon DEF Escape
  <2>2. ASSUME NEW d \in Callers, pc[d] = "probing", pc[c] # "probing"
        PROVE pc'[d] = "probing"
    BY <1>6, <2>2 DEF Escape, Numbers
  <2> QED BY <1>6, <2>1, <2>2, Zenon DEF Escape
<1>7. CASE Cool
  BY <1>7, Zenon DEF Cool
<1>8. CASE Outage
  BY <1>8, Zenon DEF Outage
<1> QED BY <1>1, <1>2, <1>3, <1>4, <1>5, <1>6, <1>7, <1>8 DEF Next, Admit, Finish

(* A step of the breaker keeps its invariant (Next).                       *)
LEMMA StepInv == BreakerInv /\ [Next]_vars => BreakerInv'
<1>1. (Numbers /\ Flags /\ HalfOpenHasProbe)' => BreakerInv'
  BY Zenon DEF BreakerInv, Numbers, Flags, TypeOK
<1> QED BY <1>1, Parts, NumbersStep, ProbeStep

(* The inductive invariant of the breaker.                                 *)
THEOREM BreakerInvHolds == Spec => []BreakerInv
  BY InitInv, StepInv, PTL DEF Spec

(* State and failure count never contradict each other.                    *)
THEOREM CountAndStateAgree == Spec => []ClosedIffFewFailures
<1>1. BreakerInv => ClosedIffFewFailures
  BY DEF BreakerInv
<1> QED BY <1>1, BreakerInvHolds, PTL

(* At most one network call begins between two openings of the circuit,    *)
(* for any number of workers waiting to call.                              *)
THEOREM NoBurst == Spec => []OneCallPerCooldown
<1>1. BreakerInv => OneCallPerCooldown
  BY DEF BreakerInv
<1> QED BY <1>1, BreakerInvHolds, PTL

(* Half-open waits for a probe that exists, unless one has ended since the *)
(* circuit last let one through with an exception that is no HTTPError:    *)
(* then nobody may be left to report, and half-open refuses every caller   *)
(* for good (_with_breaker).                                               *)
THEOREM OnlyAnEscapeWedges == Spec => []HalfOpenHasProbe
<1>1. BreakerInv => HalfOpenHasProbe
  BY DEF BreakerInv
<1> QED BY <1>1, BreakerInvHolds, PTL

(* The breaker and its callers keep their types, the failure count among   *)
(* them (CircuitBreaker in clients.py).                                    *)
THEOREM BreakerTypeHolds == Spec => []TypeOK
<1>1. BreakerInv => TypeOK
  BY DEF BreakerInv
<1> QED BY <1>1, BreakerInvHolds, PTL

-----------------------------------------------------------------------------
(* The readiness cache (config.py).                                        *)

(* The dependency was seen up, or down, at most so long ago.               *)
SeenWithin(saw, span) ==
    /\ saw = "up" => sinceUp <= span
    /\ saw = "down" => sinceDown <= span

(* Whoever probes holds the lock (database_reachable, with _probe_lock).   *)
LockIsHeld == \A t \in Askers : asker[t] \in {"probe", "store"} <=> lock = t

(* What it answers now it has answered now.                                *)
HistoryIsNow == SeenWithin(answers, 0)

(* The timestamp is of after the probe, which saw the dependency while it  *)
(* ran: what is fresh, in the cache or in a tuple read from it, is as old  *)
(* as its age and a probe.                                                 *)
CacheIsTrue == Fresh(age) => SeenWithin(verdict, ProbeTime + age)

ReadIsTrue ==
    \A t \in Askers :
        /\ Fresh(read[t].age) => SeenWithin(read[t].saw, ProbeTime + read[t].age)
        /\ asker[t] = "store" => SeenWithin(read[t].saw, took)

ReadinessInv == ReadinessTypeOK /\ LockIsHeld /\ HistoryIsNow /\ CacheIsTrue /\ ReadIsTrue

(* No process has probed yet, so nothing is told (ReadinessInit).          *)
LEMMA StartsTrue == ReadinessInit => ReadinessInv
<1> SUFFICES ASSUME ReadinessInit PROVE ReadinessInv
  OBVIOUS
<1> USE ReadinessAssumption DEF ReadinessInit
<1>1. /\ sinceUp \in 0 .. Horizon /\ sinceDown \in 0 .. Horizon
      /\ answers = "up" => sinceUp = 0
      /\ answers = "down" => sinceDown = 0
  <2>1. CASE answers = "up"
    BY <2>1 DEF Horizon
  <2>2. CASE answers = "down"
    BY <2>2 DEF Horizon
  <2> QED BY <2>1, <2>2
<1>2. ReadinessTypeOK
  BY <1>1 DEF ReadinessTypeOK
<1>3. LockIsHeld
  BY DEF LockIsHeld
<1>4. HistoryIsNow /\ CacheIsTrue /\ ReadIsTrue
  BY <1>1 DEF HistoryIsNow, CacheIsTrue, ReadIsTrue, SeenWithin, Fresh
<1> QED BY <1>2, <1>3, <1>4 DEF ReadinessInv

(* A thread's step changes neither the clock nor the dependency, and takes *)
(* what it reads from where that is true.                                  *)
LEMMA AskerTypes ==
    ASSUME ReadinessTypeOK, NEW t \in Askers,
           Peek(t) \/ Judge(t) \/ Enter(t) \/ Probe(t) \/ Store(t) \/ BeTold(t)
    PROVE  ReadinessTypeOK'
<1> USE ReadinessAssumption DEF ReadinessTypeOK, Step, cache, history, Horizon
<1>1. \A saw \in {"up", "down"} : Told(saw) \in {"toldUp", "toldDown"}
  BY DEF Told
<1>2. CASE Peek(t)
  BY <1>2 DEF Peek
<1>3. CASE Judge(t)
  BY <1>1, <1>3 DEF Judge
<1>4. CASE Enter(t)
  BY <1>1, <1>4 DEF Enter
<1>5. CASE Probe(t)
  BY <1>5 DEF Probe
<1>6. CASE Store(t)
  BY <1>1, <1>6 DEF Store
<1>7. CASE BeTold(t)
  BY <1>7 DEF BeTold
<1> QED BY <1>2, <1>3, <1>4, <1>5, <1>6, <1>7

(* Each statement of database_reachable keeps the cache true.              *)
LEMMA AskerKeeps ==
    ASSUME ReadinessInv, NEW t \in Askers,
           Peek(t) \/ Judge(t) \/ Enter(t) \/ Probe(t) \/ Store(t) \/ BeTold(t)
    PROVE  ReadinessInv'
<1> USE ReadinessAssumption DEF ReadinessInv
<1>1. ReadinessTypeOK'
  BY AskerTypes
<1>2. LockIsHeld'
  <2>1. \A saw \in {"up", "down"} : Told(saw) \notin {"probe", "store"}
    BY DEF Told
  <2> QED
    BY <2>1 DEF LockIsHeld, ReadinessTypeOK, Peek, Judge, Enter, Probe, Store, BeTold, Step
<1>3. HistoryIsNow'
  BY DEF HistoryIsNow, SeenWithin, Peek, Judge, Enter, Probe, Store, BeTold, history
<1>4. CacheIsTrue'
  <2>1. CASE Store(t)
    BY <2>1 DEF Store, Step, history, CacheIsTrue, ReadIsTrue, SeenWithin, Fresh, ReadinessTypeOK
  <2>2. CASE ~Store(t)
    BY <2>2 DEF CacheIsTrue, SeenWithin, Peek, Judge, Enter, Probe, BeTold, history, cache
  <2> QED BY <2>1, <2>2
<1>5. ReadIsTrue'
  <2> SUFFICES ASSUME NEW u \in Askers
               PROVE  (/\ Fresh(read[u].age) => SeenWithin(read[u].saw, ProbeTime + read[u].age)
                       /\ asker[u] = "store" => SeenWithin(read[u].saw, took))'
    BY DEF ReadIsTrue
  <2>1. sinceUp' = sinceUp /\ sinceDown' = sinceDown
    BY DEF Peek, Judge, Enter, Probe, Store, BeTold, history
  <2>2. asker'[u] = "store" => took' = took
    BY DEF Peek, Judge, Enter, Probe, Store, BeTold, Step, Told, LockIsHeld, ReadinessTypeOK
  <2>3. CASE read'[u] = read[u] /\ (asker'[u] = "store" => asker[u] = "store")
    BY <2>1, <2>2, <2>3 DEF ReadIsTrue, SeenWithin, Fresh
  <2>4. CASE Peek(t) /\ u = t
    BY <2>1, <2>4 DEF Peek, Step, ReadinessTypeOK, CacheIsTrue, SeenWithin, Fresh
  <2>5. CASE Probe(t) /\ u = t
    BY <2>1, <2>5 DEF Probe, Step, ReadinessTypeOK, HistoryIsNow, SeenWithin, Fresh
  <2>6. CASE BeTold(t) /\ u = t
    BY <2>6 DEF BeTold, ReadinessTypeOK, Fresh
  <2> QED
    BY <2>3, <2>4, <2>5, <2>6 DEF Peek, Judge, Enter, Probe, Store, BeTold, Step, Told, ReadinessTypeOK
<1> QED BY <1>1, <1>2, <1>3, <1>4, <1>5

(* A tick ages what was seen and what tells of it alike (Tick).            *)
LEMMA TickKeeps == ReadinessInv /\ Tick => ReadinessInv'
<1> SUFFICES ASSUME ReadinessInv, Tick PROVE ReadinessInv'
  OBVIOUS
<1> USE ReadinessAssumption DEF ReadinessInv
<1>1. /\ sinceUp' \in 0 .. Horizon /\ sinceDown' \in 0 .. Horizon
      /\ sinceUp' <= sinceUp + 1 /\ sinceDown' <= sinceDown + 1
      /\ answers = "up" => sinceUp' = 0
      /\ answers = "down" => sinceDown' = 0
  <2>1. CASE answers = "up"
    BY <2>1 DEF Tick, Older, Horizon, ReadinessTypeOK
  <2>2. CASE answers = "down"
    BY <2>2 DEF Tick, Older, Horizon, ReadinessTypeOK
  <2> QED BY <2>1, <2>2 DEF ReadinessTypeOK
<1>2. /\ age' \in 0 .. TTL /\ (Fresh(age)' => Fresh(age) /\ age' = age + 1)
      /\ took' \in 0 .. ProbeTime /\ (lock # NoAsker => took' = took + 1)
  BY DEF Tick, Older, Fresh, ReadinessTypeOK
<1>3. /\ read' \in [Askers -> [saw : {"up", "down"}, age : 0 .. TTL]]
      /\ \A t \in Askers :
            /\ read'[t].saw = read[t].saw
            /\ Fresh(read[t].age)' => Fresh(read[t].age) /\ read'[t].age = read[t].age + 1
  BY DEF Tick, Older, Fresh, ReadinessTypeOK
<1>4. ReadinessTypeOK'
  BY <1>1, <1>2, <1>3 DEF Tick, ReadinessTypeOK
<1>5. LockIsHeld'
  BY DEF Tick, LockIsHeld
<1>6. HistoryIsNow'
  BY <1>1 DEF Tick, HistoryIsNow, SeenWithin
<1>7. CacheIsTrue'
  BY <1>1, <1>2 DEF Tick, CacheIsTrue, SeenWithin, ReadinessTypeOK
<1>8. ReadIsTrue'
  <2> SUFFICES ASSUME NEW t \in Askers
               PROVE  (/\ Fresh(read[t].age) => SeenWithin(read[t].saw, ProbeTime + read[t].age)
                       /\ asker[t] = "store" => SeenWithin(read[t].saw, took))'
    BY DEF ReadIsTrue
  <2>1. read[t].age \in 0 .. TTL /\ sinceUp \in Nat /\ sinceDown \in Nat /\ took \in Nat
    BY DEF ReadinessTypeOK, Horizon
  <2>2. (Fresh(read[t].age) => SeenWithin(read[t].saw, ProbeTime + read[t].age))'
    BY <1>1, <1>3, <2>1 DEF ReadIsTrue, SeenWithin
  <2>3. asker'[t] = "store" => asker[t] = "store" /\ lock # NoAsker
    BY DEF Tick, LockIsHeld
  <2>4. (asker[t] = "store" => SeenWithin(read[t].saw, took))'
    BY <1>1, <1>2, <1>3, <2>1, <2>3 DEF ReadIsTrue, SeenWithin
  <2> QED BY <2>2, <2>4
<1> QED BY <1>4, <1>5, <1>6, <1>7, <1>8

(* And so does each step of any asker and of the clock (ReadinessNext).    *)
LEMMA StepKeepsTrue == ReadinessInv /\ [ReadinessNext]_readinessVars => ReadinessInv'
<1> SUFFICES ASSUME ReadinessInv, [ReadinessNext]_readinessVars PROVE ReadinessInv'
  OBVIOUS
<1> USE ReadinessAssumption
<1> USE DEF ReadinessInv, LockIsHeld, HistoryIsNow, CacheIsTrue, ReadIsTrue, SeenWithin, Fresh
<1>1. CASE Reset
  BY <1>1 DEF Reset, ReadinessTypeOK, history
<1>2. CASE Change
  <2>1. answers' \in {"up", "down"} /\ sinceUp' = 0 /\ sinceDown' = 0 /\ 0 \in 0 .. Horizon
    BY <1>2 DEF Change, Horizon
  <2> QED BY <1>2, <2>1 DEF Change, ReadinessTypeOK, cache
<1>3. CASE UNCHANGED readinessVars
  BY <1>3 DEF ReadinessTypeOK, readinessVars, cache, history
<1> QED BY <1>1, <1>2, <1>3, AskerKeeps, TickKeeps DEF ReadinessNext

(* So the cache is true in every state.                                    *)
LEMMA ReadinessInvHolds == ReadinessSpec => []ReadinessInv
BY StartsTrue, StepKeepsTrue, PTL DEF ReadinessSpec

(* Every variable of the cache keeps its type (database_reachable).        *)
THEOREM ReadinessTypeHolds == ReadinessSpec => []ReadinessTypeOK
<1>1. ReadinessInv => ReadinessTypeOK
  BY DEF ReadinessInv
<1> QED BY <1>1, ReadinessInvHolds, PTL

(* No probe starts beside another, nor while a cached verdict is fresh,    *)
(* however many threads miss at once (database_reachable, single-flight).  *)
THEOREM OneProbeHolds == ReadinessSpec => OneProbePerWindow
<1> DEFINE Starts ==
      \A t \in Askers : asker'[t] = "probe" /\ asker[t] # "probe" =>
          /\ ~Fresh(age)
          /\ \A u \in Askers : asker[u] \notin {"probe", "store"}
<1>1. ReadinessInv /\ [ReadinessNext]_readinessVars => [Starts]_readinessVars
  <2> SUFFICES ASSUME ReadinessInv, ReadinessNext, NEW t \in Askers,
                      asker'[t] = "probe", asker[t] # "probe"
               PROVE  ~Fresh(age) /\ \A u \in Askers : asker[u] \notin {"probe", "store"}
    OBVIOUS
  <2>1. Enter(t)
    BY DEF ReadinessInv, ReadinessTypeOK, ReadinessNext, Peek, Judge, Enter, Probe, Store, BeTold,
           Step, Told, Reset, Tick, Change
  <2>2. lock = NoAsker
    BY <2>1 DEF Enter
  <2>3. \A u \in Askers : asker[u] \notin {"probe", "store"}
    BY <2>2, ReadinessAssumption DEF ReadinessInv, LockIsHeld
  <2>4. ~Fresh(age)
    BY <2>1 DEF ReadinessInv, ReadinessTypeOK, Enter, Step, Told
  <2> QED BY <2>3, <2>4
<1> QED BY <1>1, ReadinessInvHolds, PTL DEF ReadinessSpec, OneProbePerWindow

(* What a thread is told was so within a TTL and the length of a probe,    *)
(* whether it read the cache without the lock, waited for another's probe  *)
(* or made its own (database_reachable).                                   *)
THEOREM VerdictHolds == ReadinessSpec => VerdictIsRecent
<1> DEFINE Recent ==
      \A t \in Askers : asker'[t] # asker[t] =>
          /\ asker'[t] = "toldUp" => sinceUp < Horizon
          /\ asker'[t] = "toldDown" => sinceDown < Horizon
<1>1. ReadinessInv /\ [ReadinessNext]_readinessVars => [Recent]_readinessVars
  <2> SUFFICES ASSUME ReadinessInv, ReadinessNext, NEW t \in Askers, asker'[t] # asker[t],
                      NEW saw \in {"up", "down"}, asker'[t] = Told(saw)
               PROVE  SeenWithin(saw, Horizon - 1)
    BY ReadinessAssumption DEF Told, SeenWithin, Horizon, ReadinessInv, ReadinessTypeOK
  <2>1. \/ Judge(t) /\ Fresh(read[t].age) /\ read[t].saw = saw
        \/ Enter(t) /\ Fresh(age) /\ verdict = saw
        \/ Store(t) /\ read[t].saw = saw
    BY DEF ReadinessInv, ReadinessTypeOK, ReadinessNext, Peek, Judge, Enter, Probe, Store, BeTold,
           Step, Told, Reset, Tick, Change
  <2> QED
    BY <2>1, ReadinessAssumption
       DEF ReadinessInv, ReadinessTypeOK, CacheIsTrue, ReadIsTrue, SeenWithin, Fresh, Horizon, Store, Step
<1> QED BY <1>1, ReadinessInvHolds, PTL DEF ReadinessSpec, VerdictIsRecent

-----------------------------------------------------------------------------
(* The migrations and the readiness ladders (Schema).                      *)

(* What no statement of any file does: take away what others stand on, or  *)
(* make an object without what it stands on, or in a form it cannot have.  *)
Verbs == {"add", "create", "make", "make-old", "drop", "enforce", "assert", "purge", "put-back"}
BaseObjects == {"decision_events", "disclosures", "decision_event_id"}

Statements ==
    {st \in [do : Verbs, on : SUBSET Objects, needs : SUBSET Objects,
             rows : {"none"} \cup DOMAIN RowsUnder] :
        /\ st.do = "drop" => st.on \cap BaseObjects = {}
        /\ st.do \in {"make-old", "put-back"} => \A o \in st.on : "stand-in" \in Odd(o)
        /\ "request_id" \in st.on => "decision_events" \in st.needs
        /\ "decision_event_id" \in st.on => "decision_events" \in st.needs
        /\ "document_body" \in st.on =>
            \/ st.do \in {"create", "assert"}
            \/ "disclosures" \in st.needs
        /\ "disclosures" \in st.on => st.do = "create" /\ "decision_events" \in st.needs
        /\ "document_body" \in st.on /\ st.do = "create" => "disclosures" \in st.on
        /\ st.do = "create" /\ st.on \cap Tables # {} =>
            st.on = {"decision_events"} \/ st.on = {"disclosures", "document_body"}}

Elsewhere == {st \in Statements : "disclosures" \notin st.on}

(* The kinds of rows that go bad.                                          *)
LEMMA RowsUnderIs ==
  DOMAIN RowsUnder = {"two-loans", "two-offers", "unreadable-dob", "two-disclosures"}
  BY DEF RowsUnder

(* What makes a trigger, an index or the view again is of these.           *)
LEMMA RemakeIsOfStatements ==
  ASSUME NEW o \in Objects, o \notin BaseObjects \cup {"request_id", "document_body"},
         NEW needs \in SUBSET Objects
  PROVE Remake(o, needs) \in Seq(Elsewhere)
<1>1. Statement("drop", {o}, {}, "none") \in Elsewhere
  BY DEF Statement, Elsewhere, Statements, Verbs, BaseObjects
<1>2. Statement("make", {o}, needs, "none") \in Elsewhere
  BY DEF Statement, Elsewhere, Statements, Verbs, BaseObjects
<1> QED BY <1>1, <1>2 DEF Remake

(* Which file has which number.                                            *)
LEMMA ScriptIs ==
  /\ Script[2] = Migration0002
  /\ Script[4] = Migration0004
  /\ Script[5] = Migration0005
  /\ Script[6] = Migration0006
  /\ Script[7] = Migration0007
  /\ Script[8] = Migration0008
  /\ Script[9] = Migration0009
  /\ Script[10] = Migration0010
  /\ Script[11] = Migration0011
  /\ Script[12] = Migration0012
  /\ Script[13] = Migration0013
  /\ Script[14] = Migration0014
  /\ Script[15] = Migration0015
  /\ Script[16] = Migration0016
  /\ Script[17] = Migration0017
  /\ Script[18] = Migration0018
  /\ Script[19] = Migration0019
  /\ Script[20] = Migration0020
  /\ Script[21] = Migration0021
  /\ Script[22] = Migration0022
  /\ Script[23] = Migration0023
  BY DEF Script, Migrations

(* Every statement of every file is one of these, and none but those of    *)
(* 0012 is about disclosures.                                              *)
LEMMA FilesOutside0012 == \A m \in Migrations \ {12} : Script[m] \in Seq(Elsewhere)
<1> USE RowsUnderIs DEF Elsewhere, Statements, Verbs, BaseObjects,
                        Objects, Triggers, Tables, Indexes, Columns, Odd
<1>1. Migration0002 \in Seq(Elsewhere)
  <2>1. Statement("put-back", {"no_cvv"}, {}, "none") \in Elsewhere
    BY DEF Add, AddOver, Asserted, Statement, Chain
  <2> HIDE DEF Elsewhere, Statements, Verbs, BaseObjects, Objects, Triggers, Tables, Indexes, Columns, Odd
  <2> QED BY <2>1 DEF Migration0002
<1>2. Migration0004 \in Seq(Elsewhere)
  <2>1. Statement("create", {"decision_events"}, {}, "none") \in Elsewhere
    BY DEF Add, AddOver, Asserted, Statement, Chain
  <2>2. <<Statement("create", {"decision_events"}, {}, "none")>> \in Seq(Elsewhere)
    BY <2>1
  <2>3. Remake("decision_events_append_only", {"decision_events"}) \in Seq(Elsewhere)
    BY RemakeIsOfStatements DEF Chain
  <2>4. Remake("decision_events_no_truncate", {"decision_events"}) \in Seq(Elsewhere)
    BY RemakeIsOfStatements DEF Chain
  <2> HIDE DEF Elsewhere, Statements, Verbs, BaseObjects, Objects, Triggers, Tables, Indexes, Columns, Odd
  <2> QED BY <2>1, <2>2, <2>3, <2>4, ConcatProperties DEF Migration0004
<1>3. Migration0005 \in Seq(Elsewhere)
  <2>1. Add({"request_id"}, {"decision_events"}) \in Elsewhere
    BY DEF Add, AddOver, Asserted, Statement, Chain
  <2>2. <<Add({"request_id"}, {"decision_events"})>> \in Seq(Elsewhere)
    BY <2>1
  <2>3. Remake("uq_decision_events_request", {"decision_events", "request_id"}) \in Seq(Elsewhere)
    BY RemakeIsOfStatements DEF Chain
  <2> HIDE DEF Elsewhere, Statements, Verbs, BaseObjects, Objects, Triggers, Tables, Indexes, Columns, Odd
  <2> QED BY <2>1, <2>2, <2>3, ConcatProperties DEF Migration0005
<1>4. Migration0006 \in Seq(Elsewhere)
  <2>1. Add({"monthly_debt"}, {}) \in Elsewhere
    BY DEF Add, AddOver, Asserted, Statement, Chain
  <2> HIDE DEF Elsewhere, Statements, Verbs, BaseObjects, Objects, Triggers, Tables, Indexes, Columns, Odd
  <2> QED BY <2>1 DEF Migration0006
<1>5. Migration0007 \in Seq(Elsewhere)
  <2>1. AddOver("uq_loans_app", {}, "two-loans") \in Elsewhere
    BY DEF Add, AddOver, Asserted, Statement, Chain
  <2> HIDE DEF Elsewhere, Statements, Verbs, BaseObjects, Objects, Triggers, Tables, Indexes, Columns, Odd
  <2> QED BY <2>1 DEF Migration0007
<1>6. Migration0008 \in Seq(Elsewhere)
  <2>1. Add({"continuation_token"}, {}) \in Elsewhere
    BY DEF Add, AddOver, Asserted, Statement, Chain
  <2> HIDE DEF Elsewhere, Statements, Verbs, BaseObjects, Objects, Triggers, Tables, Indexes, Columns, Odd
  <2> QED BY <2>1 DEF Migration0008
<1>7. Migration0009 \in Seq(Elsewhere)
  <2>1. Add({"continuation_token_expires_at"}, {}) \in Elsewhere
    BY DEF Add, AddOver, Asserted, Statement, Chain
  <2> HIDE DEF Elsewhere, Statements, Verbs, BaseObjects, Objects, Triggers, Tables, Indexes, Columns, Odd
  <2> QED BY <2>1 DEF Migration0009
<1>8. Migration0010 \in Seq(Elsewhere)
  <2>1. AddOver("uq_offers_app", {}, "two-offers") \in Elsewhere
    BY DEF Add, AddOver, Asserted, Statement, Chain
  <2> HIDE DEF Elsewhere, Statements, Verbs, BaseObjects, Objects, Triggers, Tables, Indexes, Columns, Odd
  <2> QED BY <2>1 DEF Migration0010
<1>9. Migration0011 \in Seq(Elsewhere)
  <2>1. AddOver("dob_readable", {}, "unreadable-dob") \in Elsewhere
    BY DEF Add, AddOver, Asserted, Statement, Chain
  <2>2. Asserted({"dob_readable"}) \in Elsewhere
    BY DEF Add, AddOver, Asserted, Statement, Chain
  <2> HIDE DEF Elsewhere, Statements, Verbs, BaseObjects, Objects, Triggers, Tables, Indexes, Columns, Odd
  <2> QED BY <2>1, <2>2 DEF Migration0011
<1>10. Migration0013 \in Seq(Elsewhere)
  <2>1. Add({"document_body"}, {"disclosures"}) \in Elsewhere
    BY DEF Add, AddOver, Asserted, Statement, Chain
  <2>2. Asserted({"document_body"}) \in Elsewhere
    BY DEF Add, AddOver, Asserted, Statement, Chain
  <2> HIDE DEF Elsewhere, Statements, Verbs, BaseObjects, Objects, Triggers, Tables, Indexes, Columns, Odd
  <2> QED BY <2>1, <2>2 DEF Migration0013
<1>11. Migration0014 \in Seq(Elsewhere)
  <2>1. Add({"note_rate"}, {}) \in Elsewhere
    BY DEF Add, AddOver, Asserted, Statement, Chain
  <2>2. Asserted({"note_rate"}) \in Elsewhere
    BY DEF Add, AddOver, Asserted, Statement, Chain
  <2> HIDE DEF Elsewhere, Statements, Verbs, BaseObjects, Objects, Triggers, Tables, Indexes, Columns, Odd
  <2> QED BY <2>1, <2>2 DEF Migration0014
<1>12. Migration0015 \in Seq(Elsewhere)
  <2>1. Statement("drop", {"v_disclosure_provenance"}, {}, "none") \in Elsewhere
    BY DEF Add, AddOver, Asserted, Statement, Chain
  <2>2. Statement("make-old", {"v_disclosure_provenance"}, Chain, "none") \in Elsewhere
    BY DEF Add, AddOver, Asserted, Statement, Chain
  <2> HIDE DEF Elsewhere, Statements, Verbs, BaseObjects, Objects, Triggers, Tables, Indexes, Columns, Odd
  <2> QED BY <2>1, <2>2 DEF Migration0015
<1>13. Migration0016 \in Seq(Elsewhere)
  <2>1. Remake("v_disclosure_provenance", Chain) \in Seq(Elsewhere)
    BY RemakeIsOfStatements DEF Chain
  <2> HIDE DEF Elsewhere, Statements, Verbs, BaseObjects, Objects, Triggers, Tables, Indexes, Columns, Odd
  <2> QED BY <2>1, ConcatProperties DEF Migration0016
<1>14. Migration0017 \in Seq(Elsewhere)
  <2>1. Add({"submitted_by_user_id"}, {}) \in Elsewhere
    BY DEF Add, AddOver, Asserted, Statement, Chain
  <2> HIDE DEF Elsewhere, Statements, Verbs, BaseObjects, Objects, Triggers, Tables, Indexes, Columns, Odd
  <2> QED BY <2>1 DEF Migration0017
<1>15. Migration0018 \in Seq(Elsewhere)
  <2>1. Add({"idempotency_columns", "status", "amount_minor"}, {}) \in Elsewhere
    BY DEF Add, AddOver, Asserted, Statement, Chain
  <2>2. Statement("enforce", {"status"}, {"status"}, "none") \in Elsewhere
    BY DEF Add, AddOver, Asserted, Statement, Chain
  <2>3. Asserted({"idempotency_columns", "status", "amount_minor"}) \in Elsewhere
    BY DEF Add, AddOver, Asserted, Statement, Chain
  <2>4. Add({"idempotency_key_uniq"}, {"idempotency_columns"}) \in Elsewhere
    BY DEF Add, AddOver, Asserted, Statement, Chain
  <2>5. Add({"processor_idempotency_key_uniq"}, {"idempotency_columns"}) \in Elsewhere
    BY DEF Add, AddOver, Asserted, Statement, Chain
  <2>6. Asserted({"idempotency_key_uniq", "processor_idempotency_key_uniq"}) \in Elsewhere
    BY DEF Add, AddOver, Asserted, Statement, Chain
  <2> HIDE DEF Elsewhere, Statements, Verbs, BaseObjects, Objects, Triggers, Tables, Indexes, Columns, Odd
  <2> QED BY <2>1, <2>2, <2>3, <2>4, <2>5, <2>6 DEF Migration0018
<1>16. Migration0019 \in Seq(Elsewhere)
  <2>1. Statement("create", {"payment_applications"}, {}, "none") \in Elsewhere
    BY DEF Add, AddOver, Asserted, Statement, Chain
  <2>2. Asserted({"amount_minor"}) \in Elsewhere
    BY DEF Add, AddOver, Asserted, Statement, Chain
  <2>3. Asserted({"payment_applications"}) \in Elsewhere
    BY DEF Add, AddOver, Asserted, Statement, Chain
  <2> HIDE DEF Elsewhere, Statements, Verbs, BaseObjects, Objects, Triggers, Tables, Indexes, Columns, Odd
  <2> QED BY <2>1, <2>2, <2>3 DEF Migration0019
<1>17. Migration0020 \in Seq(Elsewhere)
  <2>1. Statement("purge", {"no_cvv"}, {}, "none") \in Elsewhere
    BY DEF Add, AddOver, Asserted, Statement, Chain
  <2>2. Asserted({"no_cvv"}) \in Elsewhere
    BY DEF Add, AddOver, Asserted, Statement, Chain
  <2> HIDE DEF Elsewhere, Statements, Verbs, BaseObjects, Objects, Triggers, Tables, Indexes, Columns, Odd
  <2> QED BY <2>1, <2>2 DEF Migration0020
<1>18. Migration0021 \in Seq(Elsewhere)
  <2>1. Statement("create", {"assistant_runs"}, {}, "none") \in Elsewhere
    BY DEF Add, AddOver, Asserted, Statement, Chain
  <2>2. Asserted({"assistant_runs"}) \in Elsewhere
    BY DEF Add, AddOver, Asserted, Statement, Chain
  <2> HIDE DEF Elsewhere, Statements, Verbs, BaseObjects, Objects, Triggers, Tables, Indexes, Columns, Odd
  <2> QED BY <2>1, <2>2 DEF Migration0021
<1>19. Migration0022 \in Seq(Elsewhere)
  <2>1. Remake("audit_logs_append_only", {}) \in Seq(Elsewhere)
    BY RemakeIsOfStatements DEF Chain
  <2>2. Remake("audit_logs_no_truncate", {}) \in Seq(Elsewhere)
    BY RemakeIsOfStatements DEF Chain
  <2> HIDE DEF Elsewhere, Statements, Verbs, BaseObjects, Objects, Triggers, Tables, Indexes, Columns, Odd
  <2> QED BY <2>1, <2>2, ConcatProperties DEF Migration0022
<1>20. Migration0023 \in Seq(Elsewhere)
  <2>1. Add({"ssn_last4"}, {}) \in Elsewhere
    BY DEF Add, AddOver, Asserted, Statement, Chain
  <2>2. Asserted({"ssn_last4"}) \in Elsewhere
    BY DEF Add, AddOver, Asserted, Statement, Chain
  <2> HIDE DEF Elsewhere, Statements, Verbs, BaseObjects, Objects, Triggers, Tables, Indexes, Columns, Odd
  <2> QED BY <2>1, <2>2 DEF Migration0023
<1> HIDE DEF Elsewhere, Statements, Verbs, BaseObjects, Objects, Triggers, Tables, Indexes, Columns, Odd
<1>21. ASSUME NEW m \in Migrations \ {12} PROVE Script[m] \in Seq(Elsewhere)
  <2>1. \/ m = 2 \/ m = 4 \/ m = 5 \/ m = 6 \/ m = 7 \/ m = 8 \/ m = 9 \/ m = 10 \/ m = 11 \/ m = 13
        \/ m = 14 \/ m = 15 \/ m = 16 \/ m = 17 \/ m = 18 \/ m = 19 \/ m = 20 \/ m = 21 \/ m = 22 \/ m = 23
    BY DEF Migrations
  <2> QED BY <2>1, <1>1, <1>2, <1>3, <1>4, <1>5, <1>6, <1>7, <1>8, <1>9, <1>10, <1>11, <1>12, <1>13, <1>14, <1>15, <1>16, <1>17, <1>18, <1>19, <1>20, ScriptIs
<1> QED BY <1>21

(* The statements of 0012, one by one.                                     *)
LEMMA File0012Is ==
  /\ Len(Migration0012) = 9
  /\ Migration0012[1] = Add({"decision_event_id"}, {"decision_events"})
  /\ Migration0012[2] = Statement("create", {"disclosures", "document_body"}, {"decision_events"}, "none")
  /\ Migration0012[3] = AddOver("uq_disclosures_offer", {"disclosures"}, "two-disclosures")
  /\ Migration0012[4] = Statement("drop", {"disclosures_freeze_delivered"}, {}, "none")
  /\ Migration0012[5] = Statement("make", {"disclosures_freeze_delivered"}, {"disclosures"}, "none")
  /\ Migration0012[6] = Statement("drop", {"disclosures_no_truncate"}, {}, "none")
  /\ Migration0012[7] = Statement("make", {"disclosures_no_truncate"}, {"disclosures"}, "none")
  /\ Migration0012[8] = Statement("drop", {"v_disclosure_provenance"}, {}, "none")
  /\ Migration0012[9] = Statement("make", {"v_disclosure_provenance"}, Chain, "none")
  BY DEF Migration0012, Remake

(* They are of these too.                                                  *)
LEMMA File0012 == Migration0012 \in Seq(Statements)
<1>1. Elsewhere \subseteq Statements
  BY DEF Elsewhere
<1>2. /\ Add({"decision_event_id"}, {"decision_events"}) \in Statements
      /\ Statement("create", {"disclosures", "document_body"}, {"decision_events"}, "none") \in Statements
      /\ AddOver("uq_disclosures_offer", {"disclosures"}, "two-disclosures") \in Statements
  BY RowsUnderIs DEF Add, AddOver, Statement, Statements, Verbs, BaseObjects,
                     Objects, Triggers, Tables, Indexes, Columns
<1>3. /\ Remake("disclosures_freeze_delivered", {"disclosures"}) \in Seq(Elsewhere)
      /\ Remake("disclosures_no_truncate", {"disclosures"}) \in Seq(Elsewhere)
      /\ Remake("v_disclosure_provenance", Chain) \in Seq(Elsewhere)
  BY RemakeIsOfStatements DEF Chain, BaseObjects, Objects, Triggers, Tables, Indexes, Columns
<1>4. /\ Remake("disclosures_freeze_delivered", {"disclosures"}) \in Seq(Statements)
      /\ Remake("disclosures_no_truncate", {"disclosures"}) \in Seq(Statements)
      /\ Remake("v_disclosure_provenance", Chain) \in Seq(Statements)
  BY <1>1, <1>3, SeqMonotonic
<1>5. <<Add({"decision_event_id"}, {"decision_events"}),
        Statement("create", {"disclosures", "document_body"}, {"decision_events"}, "none"),
        AddOver("uq_disclosures_offer", {"disclosures"}, "two-disclosures")>> \in Seq(Statements)
  BY <1>2
<1> QED BY <1>4, <1>5, ConcatProperties DEF Migration0012

(* So every file is of these, and disclosures are made in 0012 alone,      *)
(* after the column of offers.                                             *)
LEMMA Files ==
  /\ \A m \in Migrations : Script[m] \in Seq(Statements)
  /\ \A m \in Migrations : \A i \in 1 .. Len(Script[m]) :
        /\ Script[m][i] \in Statements
        /\ "disclosures" \in Script[m][i].on => m = 12 /\ i > 1
  /\ Script[12][1] = Add({"decision_event_id"}, {"decision_events"})
<1>1. Elsewhere \subseteq Statements
  BY DEF Elsewhere
<1>2. \A m \in Migrations : Script[m] \in Seq(Statements)
  BY <1>1, FilesOutside0012, File0012, ScriptIs, SeqMonotonic
<1>3. Script[12][1] = Add({"decision_event_id"}, {"decision_events"})
  BY File0012Is, ScriptIs
<1>4. ASSUME NEW m \in Migrations, NEW i \in 1 .. Len(Script[m])
      PROVE /\ Script[m][i] \in Statements
            /\ "disclosures" \in Script[m][i].on => m = 12 /\ i > 1
  <2>1. Script[m][i] \in Statements
    BY <1>2, ElementOfSeq
  <2>2. CASE m # 12
    <3>1. Script[m][i] \in Elsewhere
      BY <2>2, FilesOutside0012, ElementOfSeq
    <3> QED BY <2>1, <3>1 DEF Elsewhere
  <2>3. CASE m = 12
    <3>1. "disclosures" \notin Script[12][1].on
      BY <1>3 DEF Add, Statement
    <3> QED BY <2>1, <2>3, <3>1
  <2> QED BY <2>2, <2>3
<1> QED BY <1>2, <1>3, <1>4

(* What others stand on is what some statement needs.                      *)
LEMMA HostsAre == BaseObjects \subseteq Hosts
<1> DEFINE all == UNION {ToSet(Script[m]) : m \in Migrations}
<1>1. ASSUME NEW m \in Migrations, NEW i \in 1 .. Len(Script[m]),
             NEW o \in Script[m][i].on, NEW h \in Script[m][i].needs, o \in Objects
      PROVE h \in Hosts
  <2>1. Script[m][i] \in all
    BY Files DEF ToSet
  <2> HIDE DEF all
  <2>2. h \in UNION {st.needs : st \in {t \in all : o \in t.on}}
    BY <1>1, <2>1
  <2>3. h \in HostsOf[o]
    BY <1>1, <2>2 DEF HostsOf, all
  <2> QED BY <1>1, <2>3 DEF Hosts
<1> HIDE DEF all
<1>2. "decision_events" \in Hosts
  <2>1. Script[12][1].on = {"decision_event_id"} /\ Script[12][1].needs = {"decision_events"}
    BY Files DEF Add, Statement
  <2>2. 1 \in 1 .. Len(Script[12])
    BY ScriptIs, File0012Is
  <2>3. 12 \in Migrations /\ "decision_event_id" \in Objects
    BY DEF Migrations, Objects, Columns
  <2> QED BY <1>1, <2>1, <2>2, <2>3
<1>3. "disclosures" \in Hosts
  <2>1. Script[12][5].on = {"disclosures_freeze_delivered"} /\ Script[12][5].needs = {"disclosures"}
    BY ScriptIs, File0012Is DEF Statement
  <2>2. 5 \in 1 .. Len(Script[12])
    BY ScriptIs, File0012Is
  <2>3. 12 \in Migrations /\ "disclosures_freeze_delivered" \in Objects
    BY DEF Migrations, Objects, Triggers
  <2> QED BY <1>1, <2>1, <2>2, <2>3
<1>4. "decision_event_id" \in Hosts
  <2>1. Script[12][9].on = {"v_disclosure_provenance"} /\ Script[12][9].needs = Chain
    BY ScriptIs, File0012Is DEF Statement
  <2>2. 9 \in 1 .. Len(Script[12])
    BY ScriptIs, File0012Is
  <2>3. 12 \in Migrations /\ "v_disclosure_provenance" \in Objects
    BY DEF Migrations, Objects
  <2> QED BY <1>1, <2>1, <2>2, <2>3 DEF Chain
<1> QED BY <1>2, <1>3, <1>4 DEF BaseObjects

(* The order of the natural numbers, for the two lemmas that follow.       *)
LEMMA LessIsWellFounded == IsWellFoundedOn({ss \in Nat \X Nat : ss[1] < ss[2]}, Nat)
  BY NatLessThanWellFounded DEF OpToRel

(* A set of numbers below one has a greatest.                              *)
LEMMA Least ==
  ASSUME NEW T \in SUBSET Nat, T # {}
  PROVE \E x \in T : \A y \in T : x <= y
<1> DEFINE R == {ss \in Nat \X Nat : ss[1] < ss[2]}
<1>1. IsWellFoundedOn(R, Nat)
  BY LessIsWellFounded
<1>2. PICK x \in T : \A y \in T : ~ (<<y, x>> \in R)
  <2> HIDE DEF R
  <2> QED BY <1>1, WFMin
<1>3. ASSUME NEW y \in T PROVE x <= y
  <2>1. ~ (<<y, x>> \in R)
    BY <1>2
  <2>2. <<y, x>> \in Nat \X Nat
    OBVIOUS
  <2>3. ~ (y < x)
    BY <2>1, <2>2
  <2> QED BY <2>3
<1> QED BY <1>3

(* A set of numbers below one has a greatest.                              *)
LEMMA Greatest ==
  ASSUME NEW n \in Nat, NEW D \in SUBSET (0 .. n), D # {}
  PROVE \E d \in D : \A e \in D : e <= d
<1> DEFINE R == {ss \in Nat \X Nat : ss[1] < ss[2]}
           U == {n - d : d \in D}
<1>1. IsWellFoundedOn(R, Nat)
  BY LessIsWellFounded
<1>2. U \subseteq Nat /\ U # {}
  <2>1. \A d \in D : n - d \in Nat
    OBVIOUS
  <2>2. PICK d \in D : TRUE
    OBVIOUS
  <2>3. n - d \in U
    OBVIOUS
  <2> QED BY <2>1, <2>3
<1>3. PICK u \in U : \A v \in U : ~ (<<v, u>> \in R)
  <2> HIDE DEF R, U
  <2> QED BY <1>1, <1>2, WFMin
<1>4. PICK d \in D : u = n - d
  OBVIOUS
<1>5. ASSUME NEW e \in D PROVE e <= d
  <2>1. n - e \in U /\ n - e \in Nat /\ u \in Nat
    BY <1>2
  <2>2. ~ (<<n - e, u>> \in R) /\ <<n - e, u>> \in Nat \X Nat
    BY <2>1, <1>3
  <2>3. ~ (n - e < u)
    BY <2>2
  <2> QED BY <2>3, <1>4
<1> QED BY <1>5


(* Every object has a file that makes it, and so a newest.                 *)
LEMMA FileOfIsOne == \A o \in Objects : FileOf[o] \in Migrations
<1>1. ASSUME NEW m \in Migrations, NEW i \in 1 .. Len(Script[m]),
             Script[m][i].do # "assert", NEW o \in Script[m][i].on
      PROVE \E n \in Migrations : o \in Declares[n]
  <2>1. Script[m][i] \in {t \in ToSet(Script[m]) : t.do # "assert"}
    BY <1>1, Files DEF ToSet
  <2>2. o \in UNION {st.on : st \in {t \in ToSet(Script[m]) : t.do # "assert"}}
    BY <1>1, <2>1
  <2> QED BY <2>2 DEF Declares
<1>2. \A o \in {"decision_events", "decision_events_append_only", "decision_events_no_truncate"} :
        \E n \in Migrations : o \in Declares[n]
  <2>1. 4 \in Migrations /\ 1 \in 1 .. Len(Script[4]) /\ 3 \in 1 .. Len(Script[4]) /\ 5 \in 1 .. Len(Script[4])
    BY ScriptIs, File0012Is DEF Migrations, Migration0004, Remake
  <2>2. /\ Script[4][1].do # "assert" /\ {"decision_events"} \subseteq Script[4][1].on
        /\ Script[4][3].do # "assert" /\ {"decision_events_append_only"} \subseteq Script[4][3].on
        /\ Script[4][5].do # "assert" /\ {"decision_events_no_truncate"} \subseteq Script[4][5].on
    BY ScriptIs, File0012Is DEF Migration0004, Remake, Add, AddOver, Statement
  <2> QED BY <1>1, <2>1, <2>2
<1>3. \A o \in {"request_id", "uq_decision_events_request"} :
        \E n \in Migrations : o \in Declares[n]
  <2>1. 5 \in Migrations /\ 1 \in 1 .. Len(Script[5]) /\ 3 \in 1 .. Len(Script[5])
    BY ScriptIs, File0012Is DEF Migrations, Migration0005, Remake
  <2>2. /\ Script[5][1].do # "assert" /\ {"request_id"} \subseteq Script[5][1].on
        /\ Script[5][3].do # "assert" /\ {"uq_decision_events_request"} \subseteq Script[5][3].on
    BY ScriptIs, File0012Is DEF Migration0005, Remake, Add, AddOver, Statement
  <2> QED BY <1>1, <2>1, <2>2
<1>4. \A o \in {"monthly_debt"} :
        \E n \in Migrations : o \in Declares[n]
  <2>1. 6 \in Migrations /\ 1 \in 1 .. Len(Script[6])
    BY ScriptIs, File0012Is DEF Migrations, Migration0006, Remake
  <2>2. /\ Script[6][1].do # "assert" /\ {"monthly_debt"} \subseteq Script[6][1].on
    BY ScriptIs, File0012Is DEF Migration0006, Remake, Add, AddOver, Statement
  <2> QED BY <1>1, <2>1, <2>2
<1>5. \A o \in {"uq_loans_app"} :
        \E n \in Migrations : o \in Declares[n]
  <2>1. 7 \in Migrations /\ 1 \in 1 .. Len(Script[7])
    BY ScriptIs, File0012Is DEF Migrations, Migration0007, Remake
  <2>2. /\ Script[7][1].do # "assert" /\ {"uq_loans_app"} \subseteq Script[7][1].on
    BY ScriptIs, File0012Is DEF Migration0007, Remake, Add, AddOver, Statement
  <2> QED BY <1>1, <2>1, <2>2
<1>6. \A o \in {"continuation_token"} :
        \E n \in Migrations : o \in Declares[n]
  <2>1. 8 \in Migrations /\ 1 \in 1 .. Len(Script[8])
    BY ScriptIs, File0012Is DEF Migrations, Migration0008, Remake
  <2>2. /\ Script[8][1].do # "assert" /\ {"continuation_token"} \subseteq Script[8][1].on
    BY ScriptIs, File0012Is DEF Migration0008, Remake, Add, AddOver, Statement
  <2> QED BY <1>1, <2>1, <2>2
<1>7. \A o \in {"continuation_token_expires_at"} :
        \E n \in Migrations : o \in Declares[n]
  <2>1. 9 \in Migrations /\ 1 \in 1 .. Len(Script[9])
    BY ScriptIs, File0012Is DEF Migrations, Migration0009, Remake
  <2>2. /\ Script[9][1].do # "assert" /\ {"continuation_token_expires_at"} \subseteq Script[9][1].on
    BY ScriptIs, File0012Is DEF Migration0009, Remake, Add, AddOver, Statement
  <2> QED BY <1>1, <2>1, <2>2
<1>8. \A o \in {"uq_offers_app"} :
        \E n \in Migrations : o \in Declares[n]
  <2>1. 10 \in Migrations /\ 1 \in 1 .. Len(Script[10])
    BY ScriptIs, File0012Is DEF Migrations, Migration0010, Remake
  <2>2. /\ Script[10][1].do # "assert" /\ {"uq_offers_app"} \subseteq Script[10][1].on
    BY ScriptIs, File0012Is DEF Migration0010, Remake, Add, AddOver, Statement
  <2> QED BY <1>1, <2>1, <2>2
<1>9. \A o \in {"dob_readable"} :
        \E n \in Migrations : o \in Declares[n]
  <2>1. 11 \in Migrations /\ 1 \in 1 .. Len(Script[11])
    BY ScriptIs, File0012Is DEF Migrations, Migration0011, Remake
  <2>2. /\ Script[11][1].do # "assert" /\ {"dob_readable"} \subseteq Script[11][1].on
    BY ScriptIs, File0012Is DEF Migration0011, Remake, Add, AddOver, Statement
  <2> QED BY <1>1, <2>1, <2>2
<1>10. \A o \in {"decision_event_id", "disclosures", "document_body", "uq_disclosures_offer", "disclosures_freeze_delivered", "disclosures_no_truncate", "v_disclosure_provenance"} :
        \E n \in Migrations : o \in Declares[n]
  <2>1. 12 \in Migrations /\ 1 \in 1 .. Len(Script[12]) /\ 2 \in 1 .. Len(Script[12]) /\ 3 \in 1 .. Len(Script[12]) /\ 5 \in 1 .. Len(Script[12]) /\ 7 \in 1 .. Len(Script[12]) /\ 9 \in 1 .. Len(Script[12])
    BY ScriptIs, File0012Is DEF Migrations, Migration0012, Remake
  <2>2. /\ Script[12][1].do # "assert" /\ {"decision_event_id"} \subseteq Script[12][1].on
        /\ Script[12][2].do # "assert" /\ {"disclosures", "document_body"} \subseteq Script[12][2].on
        /\ Script[12][3].do # "assert" /\ {"uq_disclosures_offer"} \subseteq Script[12][3].on
        /\ Script[12][5].do # "assert" /\ {"disclosures_freeze_delivered"} \subseteq Script[12][5].on
        /\ Script[12][7].do # "assert" /\ {"disclosures_no_truncate"} \subseteq Script[12][7].on
        /\ Script[12][9].do # "assert" /\ {"v_disclosure_provenance"} \subseteq Script[12][9].on
    BY ScriptIs, File0012Is DEF Migration0012, Remake, Add, AddOver, Statement
  <2> QED BY <1>1, <2>1, <2>2
<1>11. \A o \in {"note_rate"} :
        \E n \in Migrations : o \in Declares[n]
  <2>1. 14 \in Migrations /\ 1 \in 1 .. Len(Script[14])
    BY ScriptIs, File0012Is DEF Migrations, Migration0014, Remake
  <2>2. /\ Script[14][1].do # "assert" /\ {"note_rate"} \subseteq Script[14][1].on
    BY ScriptIs, File0012Is DEF Migration0014, Remake, Add, AddOver, Statement
  <2> QED BY <1>1, <2>1, <2>2
<1>12. \A o \in {"submitted_by_user_id"} :
        \E n \in Migrations : o \in Declares[n]
  <2>1. 17 \in Migrations /\ 1 \in 1 .. Len(Script[17])
    BY ScriptIs, File0012Is DEF Migrations, Migration0017, Remake
  <2>2. /\ Script[17][1].do # "assert" /\ {"submitted_by_user_id"} \subseteq Script[17][1].on
    BY ScriptIs, File0012Is DEF Migration0017, Remake, Add, AddOver, Statement
  <2> QED BY <1>1, <2>1, <2>2
<1>13. \A o \in {"idempotency_columns", "status", "amount_minor", "idempotency_key_uniq", "processor_idempotency_key_uniq"} :
        \E n \in Migrations : o \in Declares[n]
  <2>1. 18 \in Migrations /\ 1 \in 1 .. Len(Script[18]) /\ 4 \in 1 .. Len(Script[18]) /\ 5 \in 1 .. Len(Script[18])
    BY ScriptIs, File0012Is DEF Migrations, Migration0018, Remake
  <2>2. /\ Script[18][1].do # "assert" /\ {"idempotency_columns", "status", "amount_minor"} \subseteq Script[18][1].on
        /\ Script[18][4].do # "assert" /\ {"idempotency_key_uniq"} \subseteq Script[18][4].on
        /\ Script[18][5].do # "assert" /\ {"processor_idempotency_key_uniq"} \subseteq Script[18][5].on
    BY ScriptIs, File0012Is DEF Migration0018, Remake, Add, AddOver, Statement
  <2> QED BY <1>1, <2>1, <2>2
<1>14. \A o \in {"payment_applications"} :
        \E n \in Migrations : o \in Declares[n]
  <2>1. 19 \in Migrations /\ 1 \in 1 .. Len(Script[19])
    BY ScriptIs, File0012Is DEF Migrations, Migration0019, Remake
  <2>2. /\ Script[19][1].do # "assert" /\ {"payment_applications"} \subseteq Script[19][1].on
    BY ScriptIs, File0012Is DEF Migration0019, Remake, Add, AddOver, Statement
  <2> QED BY <1>1, <2>1, <2>2
<1>15. \A o \in {"no_cvv"} :
        \E n \in Migrations : o \in Declares[n]
  <2>1. 20 \in Migrations /\ 1 \in 1 .. Len(Script[20])
    BY ScriptIs, File0012Is DEF Migrations, Migration0020, Remake
  <2>2. /\ Script[20][1].do # "assert" /\ {"no_cvv"} \subseteq Script[20][1].on
    BY ScriptIs, File0012Is DEF Migration0020, Remake, Add, AddOver, Statement
  <2> QED BY <1>1, <2>1, <2>2
<1>16. \A o \in {"assistant_runs"} :
        \E n \in Migrations : o \in Declares[n]
  <2>1. 21 \in Migrations /\ 1 \in 1 .. Len(Script[21])
    BY ScriptIs, File0012Is DEF Migrations, Migration0021, Remake
  <2>2. /\ Script[21][1].do # "assert" /\ {"assistant_runs"} \subseteq Script[21][1].on
    BY ScriptIs, File0012Is DEF Migration0021, Remake, Add, AddOver, Statement
  <2> QED BY <1>1, <2>1, <2>2
<1>17. \A o \in {"audit_logs_append_only", "audit_logs_no_truncate"} :
        \E n \in Migrations : o \in Declares[n]
  <2>1. 22 \in Migrations /\ 2 \in 1 .. Len(Script[22]) /\ 4 \in 1 .. Len(Script[22])
    BY ScriptIs, File0012Is DEF Migrations, Migration0022, Remake
  <2>2. /\ Script[22][2].do # "assert" /\ {"audit_logs_append_only"} \subseteq Script[22][2].on
        /\ Script[22][4].do # "assert" /\ {"audit_logs_no_truncate"} \subseteq Script[22][4].on
    BY ScriptIs, File0012Is DEF Migration0022, Remake, Add, AddOver, Statement
  <2> QED BY <1>1, <2>1, <2>2
<1>18. \A o \in {"ssn_last4"} :
        \E n \in Migrations : o \in Declares[n]
  <2>1. 23 \in Migrations /\ 1 \in 1 .. Len(Script[23])
    BY ScriptIs, File0012Is DEF Migrations, Migration0023, Remake
  <2>2. /\ Script[23][1].do # "assert" /\ {"ssn_last4"} \subseteq Script[23][1].on
    BY ScriptIs, File0012Is DEF Migration0023, Remake, Add, AddOver, Statement
  <2> QED BY <1>1, <2>1, <2>2
<1>19. ASSUME NEW o \in Objects PROVE FileOf[o] \in Migrations
  <2>1. PICK n \in Migrations : o \in Declares[n]
    <3> HIDE DEF Declares
    <3> QED BY <1>2, <1>3, <1>4, <1>5, <1>6, <1>7, <1>8, <1>9, <1>10, <1>11, <1>12, <1>13, <1>14, <1>15, <1>16, <1>17, <1>18 DEF Objects, Triggers, Tables, Indexes, Columns
  <2> DEFINE T == {m \in Migrations : o \in Declares[m]}
  <2>2. T \subseteq 0 .. 23 /\ T # {}
    BY <2>1 DEF Migrations
  <2>3. \E m \in T : \A l \in T : l <= m
    <3> HIDE DEF T
    <3> QED BY <2>2, Greatest
  <2>4. \E m \in Migrations : o \in Declares[m] /\ \A l \in Migrations : o \in Declares[l] => l <= m
    BY <2>3
  <2> QED BY <2>4 DEF FileOf
<1> QED BY <1>19

-----------------------------------------------------------------------------
(* A rung asks for the form, but for a name that NameOnly lists; and for   *)
(* disclosures none asks for more than the name.                           *)
Rungs(s) ==
    {r \in [object : Objects, by : {"name", "shape"}] :
        /\ r.by = "name" => <<s, r.object>> \in NameOnly
        /\ r.by = "shape" => r.object # "disclosures"}

(* Rungs that ask for the form may be on any ladder.                       *)
LEMMA ShapesAreRungs ==
  ASSUME NEW s, NEW q \in Seq(Objects \ {"disclosures"})
  PROVE Shapes(q) \in Seq(Rungs(s))
<1>1. Len(q) \in Nat
  OBVIOUS
<1>2. ASSUME NEW i \in 1 .. Len(q) PROVE ByShape(q[i]) \in Rungs(s)
  BY ElementOfSeq DEF Rungs, ByShape
<1> QED BY <1>1, <1>2 DEF Shapes

(* Every ladder is of such rungs.                                          *)
LEMMA LaddersAreOfRungs == \A s \in Services : Ladder[s] \in Seq(Rungs(s))
<1> USE DEF Objects, Triggers, Tables, Indexes, Columns
<1>1. /\ <<"idempotency_columns", "amount_minor", "status",
            "idempotency_key_uniq", "processor_idempotency_key_uniq">> \in Seq(Objects \ {"disclosures"})
      /\ <<"payment_applications">> \in Seq(Objects \ {"disclosures"})
      /\ <<"no_cvv">> \in Seq(Objects \ {"disclosures"})
      /\ <<"note_rate">> \in Seq(Objects \ {"disclosures"})
      /\ <<"submitted_by_user_id", "dob_readable">> \in Seq(Objects \ {"disclosures"})
      /\ <<"ssn_last4", "document_body", "note_rate", "assistant_runs",
            "audit_logs_append_only", "audit_logs_no_truncate">> \in Seq(Objects \ {"disclosures"})
  OBVIOUS
<1>2. <<ByName("monthly_debt"), ByName("uq_loans_app"),
        ByName("continuation_token"), ByName("continuation_token_expires_at")>>
      \in Seq(Rungs("origination"))
  <2>1. \A o \in {"monthly_debt", "uq_loans_app", "continuation_token", "continuation_token_expires_at"} :
          ByName(o) \in Rungs("origination")
    BY DEF ByName, Rungs, NameOnly
  <2> QED BY <2>1
<1>3. DisclosureLadder \in Seq(Rungs("disclosure"))
  <2>1. \A o \in {"decision_event_id", "disclosures", "disclosures_freeze_delivered"} :
          ByName(o) \in Rungs("disclosure")
    BY DEF ByName, Rungs, NameOnly, Chain
  <2>2. \A o \in {"uq_offers_app", "uq_disclosures_offer", "document_body", "v_disclosure_provenance"} :
          ByShape(o) \in Rungs("disclosure")
    BY DEF ByShape, Rungs
  <2> QED BY <2>1, <2>2 DEF DisclosureLadder
<1>4. DecisionLadder \in Seq(Rungs("decision"))
  <2>1. \A o \in {"request_id", "uq_decision_events_request", "decision_events_append_only",
                  "decision_events_no_truncate"} : ByName(o) \in Rungs("decision")
    BY DEF ByName, Rungs, NameOnly
  <2> QED BY <2>1 DEF DecisionLadder
<1> HIDE DEF Objects, Triggers, Tables, Indexes, Columns
<1>5. \A s : PaymentLadder \in Seq(Rungs(s))
  <2>1. ASSUME NEW s PROVE PaymentLadder \in Seq(Rungs(s))
    <3>1. /\ _payments_idempotency_ready \in Seq(Rungs(s))
          /\ _payment_applications_ready \in Seq(Rungs(s))
          /\ _no_stored_sad_ready \in Seq(Rungs(s))
      BY <1>1, ShapesAreRungs
      DEF _payments_idempotency_ready, _payment_applications_ready, _no_stored_sad_ready
    <3> QED BY <3>1, ConcatProperties DEF PaymentLadder
  <2> QED BY <2>1
<1>6. ServicingLadder \in Seq(Rungs("servicing"))
  BY <1>1, <1>5, ShapesAreRungs, ConcatProperties DEF ServicingLadder
<1>7. ApplicationRungs \in Seq(Rungs("origination")) /\ RecordRungs \in Seq(Rungs("origination"))
  BY <1>1, <1>2, ShapesAreRungs, ConcatProperties DEF ApplicationRungs, RecordRungs
<1>8. OriginationLadder \in Seq(Rungs("origination"))
  BY <1>7, ConcatProperties DEF OriginationLadder
<1> QED BY <1>3, <1>4, <1>5, <1>6, <1>8 DEF Ladder, Services

(* What a report names is an object, and disclosures only if it is absent. *)
LEMMA ReportedIsAnObject ==
  ASSUME NEW s \in Services, ~ Ready(s)
  PROVE Reported(s) \in Objects /\ (Reported(s) = "disclosures" => ~ There("disclosures"))
<1> DEFINE failing == {i \in 1 .. Len(Ladder[s]) : ~ Stands(Ladder[s][i])}
<1>1. Ladder[s] \in Seq(Rungs(s))
  BY LaddersAreOfRungs
<1>2. failing # {} /\ failing \subseteq Nat
  BY <1>1 DEF Ready, ToSet
<1>3. \E i \in failing : \A j \in failing : i <= j
  <2> HIDE DEF failing
  <2> QED BY <1>2, Least
<1>4. Reported(s) = Ladder[s][CHOOSE i \in failing : \A j \in failing : i <= j].object
  BY <1>2 DEF Reported, SelectInSeq, Min
<1>5. \A i \in failing : Ladder[s][i] \in Rungs(s) /\ ~ Stands(Ladder[s][i])
  BY <1>1, ElementOfSeq
<1> HIDE DEF failing
<1>6. PICK rung \in Rungs(s) : Reported(s) = rung.object /\ ~ Stands(rung)
  BY <1>3, <1>4, <1>5
<1> QED BY <1>6 DEF Rungs, Stands

(* Over which rungs a report is silent.                                    *)
LEMMA ReadyStands ==
  ASSUME NEW s \in Services, Ready(s)
  PROVE \A i \in 1 .. Len(Ladder[s]) : Stands(Ladder[s][i])
<1>1. Ladder[s] \in Seq(Rungs(s))
  BY LaddersAreOfRungs
<1> QED BY <1>1 DEF Ready, ToSet

-----------------------------------------------------------------------------
(* A database stays one that may be found, and a file that is past its     *)
(* first statement has made what that statement could.                     *)
Forms == {"absent", "sound", "stand-in", "inert"}

Formed == form \in [Objects -> Forms] /\ \A o \in Objects : form[o] \in {"absent", "sound"} \cup Odd(o)

Founded ==
    /\ There("request_id") => There("decision_events")
    /\ There("decision_event_id") => There("decision_events")
    /\ There("document_body") => There("disclosures")
    /\ Sound("disclosures") => There("decision_event_id")

EdgeComesFirst ==
    psql.file = 12 /\ psql.at > 1 /\ form["decision_events"] \notin {"absent", "stand-in"} =>
        There("decision_event_id")

SessionOK ==
    /\ psql \in [file : Migrations \cup {0}, at : Nat, raised : BOOLEAN]
    /\ psql.file # 0 => psql.at > 0

SchemaInv ==
    /\ Formed /\ Founded
    /\ dirty \subseteq DOMAIN RowsUnder
    /\ SessionOK
    /\ EdgeComesFirst

(* What may be found, as the invariant says it.                            *)
LEMMA DatabaseIs == form \in Databases <=> Formed /\ Founded
<1> DEFINE Pairs == {<<"request_id", "decision_events">>, <<"decision_event_id", "decision_events">>,
                     <<"document_body", "disclosures">>}
<1>2. /\ \A c \in Pairs : form[c[1]] # "absent" => form[c[2]] # "absent"
      /\ form["disclosures"] = "sound" => form["decision_event_id"] # "absent"
      <=> Founded
  BY DEF Founded, There, Sound
<1> HIDE DEF Pairs
<1> QED BY <1>2 DEF Databases, Formed, Forms, Pairs

(* A database that is found is one that may be found.                      *)
LEMMA SchemaStart == SchemaInit(Databases) => SchemaInv
<1> SUFFICES ASSUME SchemaInit(Databases) PROVE SchemaInv
  OBVIOUS
<1>1. psql = [file |-> 0, at |-> 0, raised |-> FALSE] /\ dirty = {} /\ form \in Databases
  BY DEF SchemaInit, NoSession
<1>2. psql.file = 0 /\ psql.at = 0
  BY <1>1
<1>3. SessionOK
  BY <1>1, <1>2 DEF SessionOK
<1> QED BY <1>1, <1>2, <1>3, DatabaseIs DEF SchemaInv, EdgeComesFirst

(* What a session at a statement is at.                                    *)
LEMMA AtAStatement ==
  ASSUME SchemaInv, Running
  PROVE /\ psql.file \in Migrations /\ psql.at \in 1 .. Len(Script[psql.file])
        /\ Script[psql.file][psql.at] \in Statements
        /\ "disclosures" \in Script[psql.file][psql.at].on => psql.file = 12 /\ psql.at > 1
<1>1. psql.file \in Migrations /\ psql.at \in Nat /\ psql.at > 0 /\ psql.at <= Len(Script[psql.file])
  BY DEF SchemaInv, SessionOK, Running, Idle
<1>2. Script[psql.file] \in Seq(Statements)
  BY <1>1, Files
<1>3. psql.at \in 1 .. Len(Script[psql.file])
  BY <1>1, <1>2
<1> QED BY <1>1, <1>3, Files

(* 0012 does not make decision_events.                                     *)
LEMMA EventsAreNotOf0012 ==
  \A i \in 1 .. Len(Script[12]) : "decision_events" \notin Script[12][i].on
<1>1. Len(Script[12]) = 9
  BY ScriptIs, File0012Is
<1>2. \A i \in 1 .. 9 : i = 1 \/ i = 2 \/ i = 3 \/ i = 4 \/ i = 5 \/ i = 6 \/ i = 7 \/ i = 8 \/ i = 9
  OBVIOUS
<1> QED BY <1>1, <1>2, ScriptIs, File0012Is DEF Add, AddOver, Statement

(* A statement leaves each object a form it can have, takes away nothing   *)
(* that others stand on, and makes nothing that lacks what it needs.       *)
LEMMA StatementKeepsForms ==
  ASSUME Formed, NEW st \in Statements, NEW o \in Objects
  PROVE /\ Left(st, o) \in Forms
        /\ o \in st.on => Left(st, o) \in {"absent", "sound"} \cup Odd(o)
        /\ o \in st.on \cap BaseObjects /\ There(o) => Left(st, o) # "absent"
        /\ ~ There(o) /\ Left(st, o) # "absent" => st.do \notin {"assert", "drop", "enforce"}
        /\ ~ There(o) /\ Left(st, o) # "absent" /\ st.do = "create" =>
              \A p \in st.on : ~ There(p) /\ Left(st, p) = "sound"
<1> USE DEF Formed, Forms, Left, There, Statements
<1>1. CASE st.do = "add"
  BY <1>1
<1>2. CASE st.do = "create"
  BY <1>2
<1>3. CASE st.do = "enforce"
  BY <1>3
<1>4. CASE st.do = "drop"
  BY <1>4
<1>5. CASE st.do \in {"make", "purge"}
  BY <1>5
<1>6. CASE st.do \in {"make-old", "put-back"}
  BY <1>6
<1>7. CASE st.do = "assert"
  BY <1>7
<1> QED BY <1>1, <1>2, <1>3, <1>4, <1>5, <1>6, <1>7 DEF Verbs

(* A statement keeps the invariant, raising an error or not.               *)
LEMMA NextStatementKeeps ==
  ASSUME SchemaInv, NextStatement PROVE SchemaInv'
<1> DEFINE m == psql.file
           i == psql.at
           st == Script[m][i]
<1>1. /\ m \in Migrations /\ i \in 1 .. Len(Script[m]) /\ st \in Statements
      /\ "disclosures" \in st.on => m = 12 /\ i > 1
  BY AtAStatement DEF NextStatement
<1>2. /\ Raises(st) => form' = form
      /\ ~ Raises(st) => form' = [o \in Objects |-> IF o \in st.on THEN Left(st, o) ELSE form[o]]
      /\ UNCHANGED <<dirty, had, mishaps>>
  BY DEF NextStatement
<1>3. SessionOK' /\ psql'.file = m /\ psql'.at = i + 1
  <2>1. psql' = [psql EXCEPT !.at = psql.at + 1, !.raised = psql.raised \/ Raises(st)]
    BY DEF NextStatement
  <2>2. psql'.file = m /\ psql'.at = i + 1
    BY <2>1 DEF SchemaInv, SessionOK
  <2>3. PICK b \in BOOLEAN : b = (psql.raised \/ Raises(st))
    BY Zenon
  <2>4. psql' = [psql EXCEPT !.at = psql.at + 1, !.raised = b]
    BY <2>1, <2>3, Zenon
  <2>5. psql' \in [file : Migrations \cup {0}, at : Nat, raised : BOOLEAN]
    <3>1. psql \in [file : Migrations \cup {0}, at : Nat, raised : BOOLEAN] /\ i \in Nat
      BY DEF SchemaInv, SessionOK
    <3>2. i + 1 \in Nat
      BY <3>1
    <3>3. ASSUME NEW A, NEW B, NEW C, NEW r \in [file : A, at : B, raised : C], NEW y \in B, NEW z \in C
          PROVE [r EXCEPT !.at = y, !.raised = z] \in [file : A, at : B, raised : C]
      OBVIOUS
    <3> QED BY ONLY <2>3, <2>4, <3>1, <3>2, <3>3, Zenon
  <2> QED BY <2>2, <2>5, <1>1 DEF SessionOK
<1>4. dirty' \subseteq DOMAIN RowsUnder
  BY <1>2 DEF SchemaInv
<1>5. i = 1 /\ m = 12 => st = Add({"decision_event_id"}, {"decision_events"})
  BY Files
<1>6. Formed /\ Founded
  BY DEF SchemaInv
<1>7. CASE Raises(st)
  <2>1. i = 1 /\ m = 12 => form["decision_events"] \in {"absent", "stand-in"}
    <3>1. SUFFICES ASSUME i = 1, m = 12 PROVE form["decision_events"] \in {"absent", "stand-in"}
      OBVIOUS
    <3>2. st.do = "add" /\ st.needs = {"decision_events"} /\ st.rows = "none"
      BY <3>1, <1>5 DEF Add, Statement
    <3>3. "none" \notin dirty
      BY RowsUnderIs DEF SchemaInv
    <3> HIDE DEF st
    <3> QED BY <1>7, <3>2, <3>3 DEF Raises, Refused, There
  <2>2. EdgeComesFirst'
    BY <1>1, <1>2, <1>3, <1>7, <2>1 DEF SchemaInv, EdgeComesFirst, There
  <2> QED BY <1>2, <1>3, <1>4, <1>6, <1>7, <2>2 DEF SchemaInv, Formed, Founded, There, Sound
<1>8. CASE ~ Raises(st)
  <2>1. (st.do = "create" /\ Skipped(st)) \/ \A p \in st.needs : There(p)
    BY <1>8 DEF Raises
  <2>2. /\ form' = [o \in Objects |-> IF o \in st.on THEN Left(st, o) ELSE form[o]]
        /\ \A o \in Objects : form'[o] = IF o \in st.on THEN Left(st, o) ELSE form[o]
    BY <1>2, <1>8
  <2>3. Formed'
    <3>1. \A o \in Objects : Left(st, o) \in Forms /\ (o \in st.on => Left(st, o) \in {"absent", "sound"} \cup Odd(o))
      BY <1>1, <1>6, StatementKeepsForms
    <3> HIDE DEF st
    <3> QED BY <2>2, <3>1, <1>6 DEF Formed
  <2>4. \A o \in BaseObjects : o \in Objects /\ (There(o) => There(o)')
    <3>1. ASSUME NEW o \in BaseObjects PROVE o \in Objects /\ (There(o) => There(o)')
      <4>1. o \in Objects
        BY DEF BaseObjects, Objects, Tables, Columns
      <4>2. o \in st.on /\ There(o) => Left(st, o) # "absent"
        BY <1>1, <1>6, <4>1, StatementKeepsForms
      <4> HIDE DEF st
      <4> QED BY <2>2, <4>1, <4>2 DEF There
    <3> QED BY <3>1
  <2>5. ASSUME NEW o \in Objects, ~ There(o), There(o)'
        PROVE /\ o \in st.on
              /\ st.do \notin {"assert", "drop", "enforce"}
              /\ st.do = "create" => \A p \in st.on : p \in Objects => There(p)'
              /\ \A p \in st.needs : There(p)
    <3>1. o \in st.on /\ Left(st, o) # "absent"
      <4> HIDE DEF st
      <4> QED BY <2>2, <2>5 DEF There
    <3>2. st.do \notin {"assert", "drop", "enforce"} /\ (st.do = "create" => \A p \in st.on : ~ There(p) /\ Left(st, p) = "sound")
      BY <1>1, <1>6, <2>5, <3>1, StatementKeepsForms
    <3> HIDE DEF st
    <3>3. st.do = "create" => ~ Skipped(st)
      BY <3>2 DEF Skipped
    <3> QED BY <2>1, <2>2, <3>1, <3>2, <3>3 DEF There
  <2>6. /\ "request_id" \in Objects /\ "document_body" \in Objects /\ "disclosures" \in Objects
        /\ "decision_event_id" \in Objects /\ "decision_events" \in Objects
    BY DEF Objects, Columns, Tables
  <2>7. There("request_id")' => There("decision_events")'
    BY <1>1, <1>6, <2>4, <2>5, <2>6 DEF Founded, Statements, BaseObjects
  <2>8. There("decision_event_id")' => There("decision_events")'
    BY <1>1, <1>6, <2>4, <2>5, <2>6 DEF Founded, Statements, BaseObjects
  <2>9. There("document_body")' => There("disclosures")'
    BY <1>1, <1>6, <2>4, <2>5, <2>6 DEF Founded, Statements, BaseObjects
  <2>10. Sound("disclosures")' => There("decision_event_id")'
    <3>1. CASE Sound("disclosures")
      BY <3>1, <1>6, <2>4 DEF Founded, BaseObjects
    <3>2. CASE ~ Sound("disclosures") /\ Sound("disclosures")'
      <4>1. "disclosures" \in st.on /\ Left(st, "disclosures") = "sound"
        <5> HIDE DEF st
        <5> QED BY <2>2, <2>6, <3>2 DEF Sound
      <4>2. m = 12 /\ i > 1 /\ st.do = "create" /\ "decision_events" \in st.needs
        BY <1>1, <4>1 DEF Statements
      <4>3. \A p \in st.on : ~ There(p)
        <5> HIDE DEF st
        <5> QED BY <3>2, <4>1, <4>2 DEF Left, Sound
      <4>4. ~ Skipped(st)
        <5> HIDE DEF st
        <5> QED BY <4>2, <4>3 DEF Skipped
      <4>5. There("decision_events")
        BY <2>1, <4>2, <4>4
      <4>6. ~ Refused(st)
        BY <1>8, <4>4 DEF Raises
      <4>7. form["decision_events"] # "stand-in"
        <5> HIDE DEF st
        <5> QED BY <4>1, <4>2, <4>6 DEF Refused, Referring, Tables
      <4>8. There("decision_event_id")
        BY <4>2, <4>5, <4>7 DEF SchemaInv, EdgeComesFirst, There
      <4> QED BY <4>8, <2>4 DEF BaseObjects
    <3> QED BY <3>1, <3>2
  <2>11. EdgeComesFirst'
    <3>1. SUFFICES ASSUME m = 12, form'["decision_events"] \notin {"absent", "stand-in"}
                   PROVE There("decision_event_id")'
      BY <1>3 DEF EdgeComesFirst
    <3>2. form["decision_events"] \notin {"absent", "stand-in"}
      <4>1. "decision_events" \notin st.on
        BY <1>1, <3>1, EventsAreNotOf0012
      <4> HIDE DEF st
      <4> QED BY <2>2, <2>6, <3>1, <4>1
    <3>3. CASE i > 1
      BY <3>1, <3>2, <3>3, <2>4 DEF SchemaInv, EdgeComesFirst, BaseObjects
    <3>4. CASE i = 1
      <4>1. st.do = "add" /\ st.on = {"decision_event_id"}
        BY <3>1, <3>4, <1>5 DEF Add, Statement
      <4>2. ~ There("decision_event_id") => Left(st, "decision_event_id") = "sound"
        BY <4>1 DEF Left
      <4>3. CASE There("decision_event_id")
        BY <4>3, <2>4 DEF BaseObjects
      <4>4. CASE ~ There("decision_event_id")
        <5> HIDE DEF st
        <5> QED BY <4>1, <4>2, <4>4, <2>2, <2>6 DEF There
      <4> QED BY <4>3, <4>4
    <3> QED BY <1>1, <3>3, <3>4
  <2> QED BY <1>3, <1>4, <2>3, <2>7, <2>8, <2>9, <2>10, <2>11 DEF SchemaInv, Founded
<1> QED BY <1>7, <1>8

(* A session that begins has done nothing.                                 *)
LEMMA BeginKeeps ==
  ASSUME SchemaInv, NEW m \in Migrations, Begin(m) PROVE SchemaInv'
<1>1. psql' = [file |-> m, at |-> 1, raised |-> FALSE] /\ form' = form /\ dirty' = dirty
  BY DEF Begin
<1>2. psql'.at = 1
  BY <1>1
<1>3. psql' \in [file : Migrations \cup {0}, at : Nat, raised : BOOLEAN]
  BY <1>1
<1> QED BY <1>1, <1>2, <1>3 DEF SchemaInv, Formed, Founded, There, Sound, SessionOK, EdgeComesFirst

(* A session that ends, or is lost, leaves the database.                   *)
LEMMA SessionEnds ==
  ASSUME SchemaInv, psql' = NoSession, UNCHANGED <<form, dirty>> PROVE SchemaInv'
<1>1. psql' = [file |-> 0, at |-> 0, raised |-> FALSE]
  BY DEF NoSession
<1>2. psql'.file = 0
  BY <1>1
<1>3. psql' \in [file : Migrations \cup {0}, at : Nat, raised : BOOLEAN]
  BY <1>1
<1> QED BY <1>2, <1>3 DEF SchemaInv, Formed, Founded, There, Sound, SessionOK, EdgeComesFirst

(* A repair by hand takes nothing away that others stand on.               *)
LEMMA RepairKeeps ==
  ASSUME SchemaInv, NEW s \in Services, Repair(s) PROVE SchemaInv'
<1> DEFINE o == Reported(s)
<1>1. o \in Objects /\ (o = "disclosures" => ~ There("disclosures"))
  BY ReportedIsAnObject DEF Repair
<1>2. /\ dirty' \subseteq dirty /\ psql' = psql /\ psql.file = 0
      /\ \E f \in {"sound"} \cup (IF o \in Hosts THEN {} ELSE {"absent"}) :
             form' = IF There(o) THEN [form EXCEPT ![o] = f] ELSE form
  BY DEF Repair, Idle
<1>3. PICK f \in {"sound", "absent"} :
        /\ o \in Hosts => f = "sound"
        /\ form' = IF There(o) THEN [form EXCEPT ![o] = f] ELSE form
  BY <1>2
<1>4. Formed /\ Founded
  BY DEF SchemaInv
<1> HIDE DEF o
<1>5. Formed'
  BY <1>1, <1>3, <1>4 DEF Formed, Forms
<1>6. \A p \in BaseObjects : There(p) => There(p)'
  BY <1>3, <1>4, HostsAre DEF Formed, There, BaseObjects, Objects, Tables, Columns
<1>7. \A p \in Objects : There(p)' => There(p)
  BY <1>3, <1>4 DEF Formed, There
<1>8. Sound("disclosures")' => Sound("disclosures")
  BY <1>1, <1>3, <1>4 DEF Formed, Sound
<1>9. Founded'
  BY <1>4, <1>6, <1>7, <1>8 DEF Founded, BaseObjects, Objects, Tables, Columns
<1> QED BY <1>2, <1>5, <1>9 DEF SchemaInv, SessionOK, EdgeComesFirst

(* Every step keeps the invariant.                                         *)
LEMMA SchemaStep == SchemaInv /\ [SchemaNext]_schemaVars => SchemaInv'
<1> SUFFICES ASSUME SchemaInv, [SchemaNext]_schemaVars PROVE SchemaInv'
  OBVIOUS
<1>1. CASE UNCHANGED schemaVars
  BY <1>1 DEF schemaVars, SchemaInv, Formed, Founded, There, Sound, SessionOK, EdgeComesFirst
<1>2. CASE Settled
  BY <1>1, <1>2 DEF Settled
<1>3. CASE NextStatement
  BY <1>3, NextStatementKeeps
<1>4. CASE EndSession \/ SessionLost
  BY <1>4, SessionEnds DEF EndSession, SessionLost
<1>5. ASSUME NEW s \in Services, Follow(s) PROVE SchemaInv'
  <2>1. FileOf[Reported(s)] \in Migrations
    BY <1>5, ReportedIsAnObject, FileOfIsOne DEF Follow
  <2> QED BY <1>5, <2>1, BeginKeeps DEF Follow
<1>6. ASSUME NEW s \in Services, Repair(s) PROVE SchemaInv'
  BY <1>6, RepairKeeps
<1>7. ASSUME NEW m \in Migrations, Stray(m) PROVE SchemaInv'
  BY <1>7, BeginKeeps DEF Stray
<1>8. ASSUME NEW r \in DOMAIN RowsUnder, RowsGoBad(r) PROVE SchemaInv'
  BY <1>8 DEF RowsGoBad, SchemaInv, Formed, Founded, There, Sound, SessionOK, EdgeComesFirst
<1> QED BY <1>1, <1>2, <1>3, <1>4, <1>5, <1>6, <1>7, <1>8 DEF SchemaNext

-----------------------------------------------------------------------------
(* What a rung that stands says of its object.                             *)
LEMMA RungsVouch ==
  ASSUME Formed, NEW s \in Services, Ready(s), NEW o \in {rung.object : rung \in ToSet(Ladder[s])}
  PROVE Sound(o) \/ (There(o) /\ <<s, o>> \in NameOnly)
<1>1. Ladder[s] \in Seq(Rungs(s))
  BY LaddersAreOfRungs
<1>2. PICK i \in 1 .. Len(Ladder[s]) : o = Ladder[s][i].object
  BY <1>1 DEF ToSet
<1>3. Ladder[s][i] \in Rungs(s) /\ Stands(Ladder[s][i])
  BY <1>1, ReadyStands, ElementOfSeq
<1>4. PICK rung \in Rungs(s) : rung = Ladder[s][i]
  BY <1>3
<1>5. CASE rung.by = "shape"
  BY <1>2, <1>3, <1>4, <1>5 DEF Stands
<1>6. CASE rung.by = "name"
  BY <1>2, <1>3, <1>4, <1>6 DEF Stands, Rungs
<1> QED BY <1>4, <1>5, <1>6 DEF Rungs

(* A rung's object is among those of the ladder.                           *)
LEMMA RungOnLadder ==
  ASSUME NEW s \in Services, NEW i \in 1 .. Len(Ladder[s])
  PROVE Ladder[s][i].object \in {rung.object : rung \in ToSet(Ladder[s])}
<1>1. Ladder[s] \in Seq(Rungs(s))
  BY LaddersAreOfRungs
<1> QED BY <1>1 DEF ToSet

(* The invariant gives what a ready service relies on.                     *)
LEMMA ReadyVouches == SchemaInv => ReadyIsSound
<1> SUFFICES ASSUME SchemaInv, NEW s \in Services, Ready(s),
                    NEW o \in ReliesOn[s] \ {"disclosures_no_truncate"}
             PROVE \/ Sound(o)
                   \/ There(o) /\ <<s, o>> \in NameOnly
                   \/ s = "origination" /\ o \in Chain \ {"disclosures"} /\ ~ Sound("disclosures")
  BY DEF ReadyIsSound
<1> DEFINE onLadder == {rung.object : rung \in ToSet(Ladder[s])}
<1>1. Formed /\ Founded
  BY DEF SchemaInv
<1>2. o \in onLadder => Sound(o) \/ (There(o) /\ <<s, o>> \in NameOnly)
  BY <1>1, RungsVouch
<1>3. \/ o \in onLadder
      \/ s = "origination" /\ o \in Chain
      \/ s = "disclosure" /\ o = "decision_events"
      \/ s = "decision" /\ o = "decision_events"
  BY DEF ReliesOn, Services
<1>4. \A i \in 1 .. Len(Ladder[s]) : There(Ladder[s][i].object)
  <2>1. ASSUME NEW i \in 1 .. Len(Ladder[s]) PROVE There(Ladder[s][i].object)
    <3>1. Ladder[s][i].object \in onLadder
      BY RungOnLadder
    <3> HIDE DEF onLadder
    <3>2. Sound(Ladder[s][i].object) \/ There(Ladder[s][i].object)
      BY <3>1, <1>1, RungsVouch DEF onLadder
    <3> QED BY <3>2 DEF Sound, There
  <2> QED BY <2>1
<1> HIDE DEF onLadder
<1>5. CASE s = "origination" /\ o \in Chain
  <2>1. There("document_body")
    <3>1. Ladder["origination"] = OriginationLadder
      BY DEF Ladder, Services
    <3>2. Len(OriginationLadder) = 12 /\ OriginationLadder[8].object = "document_body"
      BY DEF OriginationLadder, ApplicationRungs, RecordRungs, Shapes, ByShape
    <3> QED BY <1>4, <1>5, <3>1, <3>2
  <2>2. CASE Sound("disclosures")
    <3>1. There("disclosures") /\ There("decision_event_id") /\ There("decision_events")
      BY <1>1, <2>1, <2>2 DEF Founded
    <3> QED BY <1>5, <3>1 DEF Chain, NameOnly
  <2>3. CASE ~ Sound("disclosures")
    <3>1. There("disclosures")
      BY <1>1, <2>1 DEF Founded
    <3> QED BY <1>5, <2>3, <3>1 DEF Chain, NameOnly
  <2> QED BY <2>2, <2>3
<1>6. CASE s = "disclosure" /\ o = "decision_events"
  <2>1. Ladder["disclosure"] = DisclosureLadder
    BY DEF Ladder, Services
  <2>2. Len(DisclosureLadder) = 7 /\ DisclosureLadder[2].object = "decision_event_id"
    BY DEF DisclosureLadder, ByName
  <2> QED BY <1>1, <1>4, <1>6, <2>1, <2>2 DEF Founded, NameOnly, Chain
<1>7. CASE s = "decision" /\ o = "decision_events"
  <2>1. Ladder["decision"] = DecisionLadder
    BY DEF Ladder, Services
  <2>2. Len(DecisionLadder) = 4 /\ DecisionLadder[1].object = "request_id"
    BY DEF DecisionLadder, ByName
  <2> QED BY <1>1, <1>4, <1>7, <2>1, <2>2 DEF Founded, NameOnly
<1> QED BY <1>2, <1>3, <1>5, <1>6, <1>7

(* Over any database a service may find, and whatever is applied to it in  *)
(* whatever order, a service that reports itself ready has what it relies  *)
(* on, in the form it relies on but for the objects that NameOnly lists,   *)
(* which need only be there; disclosures_no_truncate, of which it says     *)
(* nothing; and, beside a hand-made disclosures, origination's edge of the *)
(* offer and decision_events, which may be missing (ReadyIsSound).         *)
THEOREM ReadinessIsEarned == SchemaSpec => []ReadyIsSound
  BY SchemaStart, SchemaStep, ReadyVouches, PTL DEF SchemaSpec

-----------------------------------------------------------------------------
(* What a file that means to leave a database better does: it drops only   *)
(* what it makes again at once and has not touched before, and each object *)
(* it declares it makes anew, asserts, or is one of those that nothing     *)
(* asserts.                                                                *)
Settles(st, o) ==
    \/ st.do \in {"assert", "make", "purge"}
    \/ st.do = "create" /\ o \in Tables
    \/ st.do = "add" /\ o \in Unasserted

Tidy(s, excused) ==
    /\ \A j \in 1 .. Len(s) : s[j].do \notin {"make-old", "put-back"}
    /\ \A i, j \in 1 .. Len(s) : i < j /\ s[j].do = "drop" => s[i].on \cap s[j].on = {}
    /\ \A j \in 1 .. Len(s) :
        s[j].do = "drop" => j + 1 \in 1 .. Len(s) /\ s[j + 1].do = "make" /\ s[j + 1].on = s[j].on
    /\ \A i \in 1 .. Len(s) : s[i].do # "assert" =>
        \A o \in s[i].on \ excused : \E k \in 1 .. Len(s) : o \in s[k].on /\ Settles(s[k], o)

(* Every file but 0002 and 0015 is such a file.                            *)
LEMMA FilesAreTidy ==
  \A m \in Migrations \ {2, 15} : Tidy(Script[m], IF m = 12 THEN {"document_body"} ELSE {})
<1>1. Tidy(Migration0004, {})
  <2> DEFINE s == Migration0004
  <2>1. /\ Len(s) = 5
        /\ s[1].do = "create" /\ s[1].on = {"decision_events"}
        /\ s[2].do = "drop" /\ s[2].on = {"decision_events_append_only"}
        /\ s[3].do = "make" /\ s[3].on = {"decision_events_append_only"}
        /\ s[4].do = "drop" /\ s[4].on = {"decision_events_no_truncate"}
        /\ s[5].do = "make" /\ s[5].on = {"decision_events_no_truncate"}
    BY DEF Migration0004, Remake, Add, AddOver, Asserted, Statement
  <2> HIDE DEF s
  <2>2. 1 .. Len(s) = {1, 2, 3, 4, 5}
    BY <2>1
  <2>3. Tidy(s, {})
    BY <2>1, <2>2 DEF Tidy, Settles, Tables, Unasserted
  <2> QED BY <2>3 DEF s
<1>2. Tidy(Migration0005, {})
  <2> DEFINE s == Migration0005
  <2>1. /\ Len(s) = 3
        /\ s[1].do = "add" /\ s[1].on = {"request_id"}
        /\ s[2].do = "drop" /\ s[2].on = {"uq_decision_events_request"}
        /\ s[3].do = "make" /\ s[3].on = {"uq_decision_events_request"}
    BY DEF Migration0005, Remake, Add, AddOver, Asserted, Statement
  <2> HIDE DEF s
  <2>2. 1 .. Len(s) = {1, 2, 3}
    BY <2>1
  <2>3. Tidy(s, {})
    BY <2>1, <2>2 DEF Tidy, Settles, Tables, Unasserted
  <2> QED BY <2>3 DEF s
<1>3. Tidy(Migration0006, {})
  <2> DEFINE s == Migration0006
  <2>1. /\ Len(s) = 1
        /\ s[1].do = "add" /\ s[1].on = {"monthly_debt"}
    BY DEF Migration0006, Remake, Add, AddOver, Asserted, Statement
  <2> HIDE DEF s
  <2>2. 1 .. Len(s) = {1}
    BY <2>1
  <2>3. Tidy(s, {})
    BY <2>1, <2>2 DEF Tidy, Settles, Tables, Unasserted
  <2> QED BY <2>3 DEF s
<1>4. Tidy(Migration0007, {})
  <2> DEFINE s == Migration0007
  <2>1. /\ Len(s) = 1
        /\ s[1].do = "add" /\ s[1].on = {"uq_loans_app"}
    BY DEF Migration0007, Remake, Add, AddOver, Asserted, Statement
  <2> HIDE DEF s
  <2>2. 1 .. Len(s) = {1}
    BY <2>1
  <2>3. Tidy(s, {})
    BY <2>1, <2>2 DEF Tidy, Settles, Tables, Unasserted
  <2> QED BY <2>3 DEF s
<1>5. Tidy(Migration0008, {})
  <2> DEFINE s == Migration0008
  <2>1. /\ Len(s) = 1
        /\ s[1].do = "add" /\ s[1].on = {"continuation_token"}
    BY DEF Migration0008, Remake, Add, AddOver, Asserted, Statement
  <2> HIDE DEF s
  <2>2. 1 .. Len(s) = {1}
    BY <2>1
  <2>3. Tidy(s, {})
    BY <2>1, <2>2 DEF Tidy, Settles, Tables, Unasserted
  <2> QED BY <2>3 DEF s
<1>6. Tidy(Migration0009, {})
  <2> DEFINE s == Migration0009
  <2>1. /\ Len(s) = 1
        /\ s[1].do = "add" /\ s[1].on = {"continuation_token_expires_at"}
    BY DEF Migration0009, Remake, Add, AddOver, Asserted, Statement
  <2> HIDE DEF s
  <2>2. 1 .. Len(s) = {1}
    BY <2>1
  <2>3. Tidy(s, {})
    BY <2>1, <2>2 DEF Tidy, Settles, Tables, Unasserted
  <2> QED BY <2>3 DEF s
<1>7. Tidy(Migration0010, {})
  <2> DEFINE s == Migration0010
  <2>1. /\ Len(s) = 1
        /\ s[1].do = "add" /\ s[1].on = {"uq_offers_app"}
    BY DEF Migration0010, Remake, Add, AddOver, Asserted, Statement
  <2> HIDE DEF s
  <2>2. 1 .. Len(s) = {1}
    BY <2>1
  <2>3. Tidy(s, {})
    BY <2>1, <2>2 DEF Tidy, Settles, Tables, Unasserted
  <2> QED BY <2>3 DEF s
<1>8. Tidy(Migration0011, {})
  <2> DEFINE s == Migration0011
  <2>1. /\ Len(s) = 2
        /\ s[1].do = "add" /\ s[1].on = {"dob_readable"}
        /\ s[2].do = "assert" /\ s[2].on = {"dob_readable"}
    BY DEF Migration0011, Remake, Add, AddOver, Asserted, Statement
  <2> HIDE DEF s
  <2>2. 1 .. Len(s) = {1, 2}
    BY <2>1
  <2>3. Tidy(s, {})
    BY <2>1, <2>2 DEF Tidy, Settles, Tables, Unasserted
  <2> QED BY <2>3 DEF s
<1>9. Tidy(Migration0012, {"document_body"})
  <2> DEFINE s == Migration0012
  <2>1. /\ Len(s) = 9
        /\ s[1].do = "add" /\ s[1].on = {"decision_event_id"}
        /\ s[2].do = "create" /\ s[2].on = {"disclosures", "document_body"}
        /\ s[3].do = "add" /\ s[3].on = {"uq_disclosures_offer"}
        /\ s[4].do = "drop" /\ s[4].on = {"disclosures_freeze_delivered"}
        /\ s[5].do = "make" /\ s[5].on = {"disclosures_freeze_delivered"}
        /\ s[6].do = "drop" /\ s[6].on = {"disclosures_no_truncate"}
        /\ s[7].do = "make" /\ s[7].on = {"disclosures_no_truncate"}
        /\ s[8].do = "drop" /\ s[8].on = {"v_disclosure_provenance"}
        /\ s[9].do = "make" /\ s[9].on = {"v_disclosure_provenance"}
    BY File0012Is DEF Migration0012, Remake, Add, AddOver, Asserted, Statement
  <2> HIDE DEF s
  <2>2. 1 .. Len(s) = {1, 2, 3, 4, 5, 6, 7, 8, 9}
    BY <2>1
  <2>3. Tidy(s, {"document_body"})
    <3>1. \A j \in 1 .. Len(s) : s[j].do \notin {"make-old", "put-back"}
      BY <2>1, <2>2
    <3>2. \A j \in 1 .. Len(s) : s[j].do = "drop" => j = 4 \/ j = 6 \/ j = 8
      BY <2>1, <2>2
    <3>3. \A i, j \in 1 .. Len(s) : i < j /\ s[j].do = "drop" => s[i].on \cap s[j].on = {}
      <4>1. ASSUME NEW i \in 1 .. Len(s), i < 4 PROVE s[i].on \cap s[4].on = {}
        BY <2>1, <2>2, <4>1
      <4>2. ASSUME NEW i \in 1 .. Len(s), i < 6 PROVE s[i].on \cap s[6].on = {}
        BY <2>1, <2>2, <4>2
      <4>3. ASSUME NEW i \in 1 .. Len(s), i < 8 PROVE s[i].on \cap s[8].on = {}
        BY <2>1, <2>2, <4>3
      <4> QED BY <3>2, <4>1, <4>2, <4>3
    <3>4. \A j \in 1 .. Len(s) :
            s[j].do = "drop" => j + 1 \in 1 .. Len(s) /\ s[j + 1].do = "make" /\ s[j + 1].on = s[j].on
      <4>1. s[5].on = s[4].on /\ s[7].on = s[6].on /\ s[9].on = s[8].on
        BY <2>1
      <4>2. s[5].do = "make" /\ s[7].do = "make" /\ s[9].do = "make" /\ Len(s) = 9
        BY <2>1
      <4>3. 4 + 1 = 5 /\ 6 + 1 = 7 /\ 8 + 1 = 9
        OBVIOUS
      <4> QED BY <4>1, <4>2, <4>3, <3>2
    <3>5. ASSUME NEW i \in 1 .. Len(s), NEW o \in s[i].on \ {"document_body"}
          PROVE \E k \in 1 .. Len(s) : o \in s[k].on /\ Settles(s[k], o)
      <4>1. CASE i = 1 \/ i = 2 \/ i = 3
        BY <2>1, <4>1 DEF Settles, Tables, Unasserted
      <4>2. CASE i = 4 \/ i = 5
        BY <2>1, <4>2 DEF Settles
      <4>3. CASE i = 6 \/ i = 7
        BY <2>1, <4>3 DEF Settles
      <4>4. CASE i = 8 \/ i = 9
        BY <2>1, <4>4 DEF Settles
      <4> QED BY <2>2, <4>1, <4>2, <4>3, <4>4
    <3> QED BY <3>1, <3>3, <3>4, <3>5 DEF Tidy
  <2> QED BY <2>3 DEF s
<1>10. Tidy(Migration0013, {})
  <2> DEFINE s == Migration0013
  <2>1. /\ Len(s) = 2
        /\ s[1].do = "add" /\ s[1].on = {"document_body"}
        /\ s[2].do = "assert" /\ s[2].on = {"document_body"}
    BY DEF Migration0013, Remake, Add, AddOver, Asserted, Statement
  <2> HIDE DEF s
  <2>2. 1 .. Len(s) = {1, 2}
    BY <2>1
  <2>3. Tidy(s, {})
    BY <2>1, <2>2 DEF Tidy, Settles, Tables, Unasserted
  <2> QED BY <2>3 DEF s
<1>11. Tidy(Migration0014, {})
  <2> DEFINE s == Migration0014
  <2>1. /\ Len(s) = 2
        /\ s[1].do = "add" /\ s[1].on = {"note_rate"}
        /\ s[2].do = "assert" /\ s[2].on = {"note_rate"}
    BY DEF Migration0014, Remake, Add, AddOver, Asserted, Statement
  <2> HIDE DEF s
  <2>2. 1 .. Len(s) = {1, 2}
    BY <2>1
  <2>3. Tidy(s, {})
    BY <2>1, <2>2 DEF Tidy, Settles, Tables, Unasserted
  <2> QED BY <2>3 DEF s
<1>12. Tidy(Migration0016, {})
  <2> DEFINE s == Migration0016
  <2>1. /\ Len(s) = 2
        /\ s[1].do = "drop" /\ s[1].on = {"v_disclosure_provenance"}
        /\ s[2].do = "make" /\ s[2].on = {"v_disclosure_provenance"}
    BY DEF Migration0016, Remake, Add, AddOver, Asserted, Statement
  <2> HIDE DEF s
  <2>2. 1 .. Len(s) = {1, 2}
    BY <2>1
  <2>3. Tidy(s, {})
    BY <2>1, <2>2 DEF Tidy, Settles, Tables, Unasserted
  <2> QED BY <2>3 DEF s
<1>13. Tidy(Migration0017, {})
  <2> DEFINE s == Migration0017
  <2>1. /\ Len(s) = 1
        /\ s[1].do = "add" /\ s[1].on = {"submitted_by_user_id"}
    BY DEF Migration0017, Remake, Add, AddOver, Asserted, Statement
  <2> HIDE DEF s
  <2>2. 1 .. Len(s) = {1}
    BY <2>1
  <2>3. Tidy(s, {})
    BY <2>1, <2>2 DEF Tidy, Settles, Tables, Unasserted
  <2> QED BY <2>3 DEF s
<1>14. Tidy(Migration0018, {})
  <2> DEFINE s == Migration0018
  <2>1. /\ Len(s) = 6
        /\ s[1].do = "add" /\ s[1].on = {"idempotency_columns", "status", "amount_minor"}
        /\ s[2].do = "enforce" /\ s[2].on = {"status"}
        /\ s[3].do = "assert" /\ s[3].on = {"idempotency_columns", "status", "amount_minor"}
        /\ s[4].do = "add" /\ s[4].on = {"idempotency_key_uniq"}
        /\ s[5].do = "add" /\ s[5].on = {"processor_idempotency_key_uniq"}
        /\ s[6].do = "assert" /\ s[6].on = {"idempotency_key_uniq", "processor_idempotency_key_uniq"}
    BY DEF Migration0018, Remake, Add, AddOver, Asserted, Statement
  <2> HIDE DEF s
  <2>2. 1 .. Len(s) = {1, 2, 3, 4, 5, 6}
    BY <2>1
  <2>3. Tidy(s, {})
    BY <2>1, <2>2 DEF Tidy, Settles, Tables, Unasserted
  <2> QED BY <2>3 DEF s
<1>15. Tidy(Migration0019, {})
  <2> DEFINE s == Migration0019
  <2>1. /\ Len(s) = 3
        /\ s[1].do = "create" /\ s[1].on = {"payment_applications"}
        /\ s[2].do = "assert" /\ s[2].on = {"amount_minor"}
        /\ s[3].do = "assert" /\ s[3].on = {"payment_applications"}
    BY DEF Migration0019, Remake, Add, AddOver, Asserted, Statement
  <2> HIDE DEF s
  <2>2. 1 .. Len(s) = {1, 2, 3}
    BY <2>1
  <2>3. Tidy(s, {})
    BY <2>1, <2>2 DEF Tidy, Settles, Tables, Unasserted
  <2> QED BY <2>3 DEF s
<1>16. Tidy(Migration0020, {})
  <2> DEFINE s == Migration0020
  <2>1. /\ Len(s) = 2
        /\ s[1].do = "purge" /\ s[1].on = {"no_cvv"}
        /\ s[2].do = "assert" /\ s[2].on = {"no_cvv"}
    BY DEF Migration0020, Remake, Add, AddOver, Asserted, Statement
  <2> HIDE DEF s
  <2>2. 1 .. Len(s) = {1, 2}
    BY <2>1
  <2>3. Tidy(s, {})
    BY <2>1, <2>2 DEF Tidy, Settles, Tables, Unasserted
  <2> QED BY <2>3 DEF s
<1>17. Tidy(Migration0021, {})
  <2> DEFINE s == Migration0021
  <2>1. /\ Len(s) = 2
        /\ s[1].do = "create" /\ s[1].on = {"assistant_runs"}
        /\ s[2].do = "assert" /\ s[2].on = {"assistant_runs"}
    BY DEF Migration0021, Remake, Add, AddOver, Asserted, Statement
  <2> HIDE DEF s
  <2>2. 1 .. Len(s) = {1, 2}
    BY <2>1
  <2>3. Tidy(s, {})
    BY <2>1, <2>2 DEF Tidy, Settles, Tables, Unasserted
  <2> QED BY <2>3 DEF s
<1>18. Tidy(Migration0022, {})
  <2> DEFINE s == Migration0022
  <2>1. /\ Len(s) = 4
        /\ s[1].do = "drop" /\ s[1].on = {"audit_logs_append_only"}
        /\ s[2].do = "make" /\ s[2].on = {"audit_logs_append_only"}
        /\ s[3].do = "drop" /\ s[3].on = {"audit_logs_no_truncate"}
        /\ s[4].do = "make" /\ s[4].on = {"audit_logs_no_truncate"}
    BY DEF Migration0022, Remake, Add, AddOver, Asserted, Statement
  <2> HIDE DEF s
  <2>2. 1 .. Len(s) = {1, 2, 3, 4}
    BY <2>1
  <2>3. Tidy(s, {})
    BY <2>1, <2>2 DEF Tidy, Settles, Tables, Unasserted
  <2> QED BY <2>3 DEF s
<1>19. Tidy(Migration0023, {})
  <2> DEFINE s == Migration0023
  <2>1. /\ Len(s) = 2
        /\ s[1].do = "add" /\ s[1].on = {"ssn_last4"}
        /\ s[2].do = "assert" /\ s[2].on = {"ssn_last4"}
    BY DEF Migration0023, Remake, Add, AddOver, Asserted, Statement
  <2> HIDE DEF s
  <2>2. 1 .. Len(s) = {1, 2}
    BY <2>1
  <2>3. Tidy(s, {})
    BY <2>1, <2>2 DEF Tidy, Settles, Tables, Unasserted
  <2> QED BY <2>3 DEF s
<1>20. ASSUME NEW m \in Migrations \ {2, 15}
       PROVE Tidy(Script[m], IF m = 12 THEN {"document_body"} ELSE {})
  <2>1. \/ m = 4 \/ m = 5 \/ m = 6 \/ m = 7 \/ m = 8 \/ m = 9 \/ m = 10 \/ m = 11 \/ m = 12 \/ m = 13
        \/ m = 14 \/ m = 16 \/ m = 17 \/ m = 18 \/ m = 19 \/ m = 20 \/ m = 21 \/ m = 22 \/ m = 23
    BY DEF Migrations
  <2> QED BY <2>1, <1>1, <1>2, <1>3, <1>4, <1>5, <1>6, <1>7, <1>8, <1>9, <1>10, <1>11, <1>12, <1>13, <1>14, <1>15, <1>16, <1>17, <1>18, <1>19, ScriptIs
<1> QED BY <1>20

-----------------------------------------------------------------------------
(* What a statement has seen to once it has run without an error.          *)
Done(st) ==
    /\ st.do \in {"assert", "make", "purge"} => \A o \in st.on : Sound(o)
    /\ st.do = "add" => \A o \in st.on : There(o)
    /\ st.do = "create" => \A o \in st.on \cap Tables : There(o)

(* The object that the session has just dropped, to make it again.         *)
Remaking(o) ==
    /\ psql.at - 1 \in 1 .. Len(Script[psql.file])
    /\ Script[psql.file][psql.at - 1].do = "drop"
    /\ o \in Script[psql.file][psql.at - 1].on

CleanSoFar ==
    psql.file \in Migrations \ {2, 15} /\ ~ psql.raised =>
        /\ psql.at <= Len(Script[psql.file]) + 1
        /\ \A i \in 1 .. Len(Script[psql.file]) : i < psql.at => Done(Script[psql.file][i])
        /\ \A o \in had : Sound(o) \/ Remaking(o)

SessionInv == SchemaInv /\ had \subseteq Objects /\ CleanSoFar

(* A statement that raises no error, and is not of the files that put back *)
(* what was, has done its own, and undone only what it drops.              *)
LEMMA StatementDoes ==
  ASSUME Formed, Founded, NEW st \in Statements, ~ Raises(st), st.do \notin {"make-old", "put-back"},
         form' = [o \in Objects |-> IF o \in st.on THEN Left(st, o) ELSE form[o]]
  PROVE /\ Done(st)'
        /\ \A o \in Objects : ~ (st.do = "drop" /\ o \in st.on) =>
              (Sound(o) => Sound(o)') /\ (There(o) => There(o)')
<1>1. st.on \subseteq Objects /\ st.do \in Verbs
  BY DEF Statements
<1>2. \A o \in st.on : form'[o] = Left(st, o)
  BY <1>1
<1>3. \A o \in Objects \ st.on : form'[o] = form[o]
  OBVIOUS
<1>4. \A o \in st.on : st.do # "drop" => (Sound(o) => Left(st, o) = "sound") /\ (There(o) => Left(st, o) # "absent")
  BY <1>1 DEF Left, Sound, There, Verbs
<1>5. \A o \in Objects : ~ (st.do = "drop" /\ o \in st.on) =>
         (Sound(o) => Sound(o)') /\ (There(o) => There(o)')
  BY <1>2, <1>3, <1>4 DEF Sound, There
<1>6. st.do \in {"make", "purge"} => \A o \in st.on : Sound(o)'
  BY <1>2 DEF Left, Sound
<1>7. st.do = "assert" => \A o \in st.on : Sound(o)'
  BY <1>1, <1>5 DEF Raises
<1>8. st.do = "add" => \A o \in st.on : There(o)'
  BY <1>2 DEF Left, There
<1>9. ASSUME st.do = "create", NEW o \in st.on \cap Tables PROVE There(o)'
  <2>1. CASE There(o)
    BY <1>1, <1>5, <1>9, <2>1
  <2>2. CASE ~ There(o)
    <3>1. st.on = {"decision_events"} \/ st.on = {"disclosures", "document_body"}
      BY <1>9 DEF Statements
    <3>2. CASE st.on = {"decision_events"}
      <4>1. \A p \in st.on : ~ There(p)
        BY <2>2, <3>2
      <4> QED BY <1>2, <1>9, <4>1 DEF Left, There
    <3>3. CASE st.on = {"disclosures", "document_body"}
      <4>1. o = "disclosures"
        BY <3>3 DEF Tables
      <4>2. \A p \in st.on : ~ There(p)
        BY <2>2, <3>3, <4>1 DEF Founded
      <4> QED BY <1>2, <1>9, <4>2 DEF Left, There
    <3> QED BY <3>1, <3>2, <3>3
  <2> QED BY <2>1, <2>2
<1>10. Done(st)'
  BY <1>6, <1>7, <1>8, <1>9 DEF Done
<1> QED BY <1>5, <1>10

(* A statement keeps what the session has seen to so far.                  *)
LEMMA CleanStep ==
  ASSUME SessionInv, NextStatement, NEW m, NEW i, m = psql.file, i = psql.at PROVE SessionInv'
<1> DEFINE st == Script[m][i]
<1>1. /\ m \in Migrations /\ i \in 1 .. Len(Script[m]) /\ st \in Statements /\ i \in Nat
      /\ Len(Script[m]) \in Nat /\ Script[m] \in Seq(Statements)
  <2>1. m \in Migrations /\ i \in 1 .. Len(Script[m]) /\ st \in Statements
    BY AtAStatement DEF NextStatement, SessionInv
  <2>2. Script[m] \in Seq(Statements)
    BY <2>1, Files
  <2> QED BY <2>1, <2>2
<1>2. SchemaInv'
  BY NextStatementKeeps DEF SessionInv
<1>3. had' = had /\ had' \subseteq Objects
  BY DEF NextStatement, SessionInv
<1>4. psql'.file = m /\ psql'.at = i + 1
  BY DEF NextStatement, SessionInv, SchemaInv, SessionOK
<1>5. ~ psql'.raised => ~ psql.raised /\ ~ Raises(st)
  <2>1. psql' = [psql EXCEPT !.at = psql.at + 1, !.raised = psql.raised \/ Raises(st)]
    BY Zenon DEF NextStatement
  <2>2. "raised" \in DOMAIN psql
    BY DEF SessionInv, SchemaInv, SessionOK
  <2>3. ASSUME NEW r, NEW y, NEW z, "raised" \in DOMAIN r
        PROVE [r EXCEPT !.at = y, !.raised = z].raised = z
    BY <2>3
  <2>4. psql'.raised = (psql.raised \/ Raises(st))
    BY <2>1, <2>2, <2>3, Zenon
  <2> QED BY <2>4, Zenon
<1>6. SUFFICES ASSUME m \notin {2, 15}, ~ psql'.raised
               PROVE /\ psql'.at <= Len(Script[m]) + 1
                     /\ \A k \in 1 .. Len(Script[m]) : k < psql'.at => Done(Script[m][k])'
                     /\ \A o \in had : Sound(o)' \/ Remaking(o)'
  BY <1>1, <1>2, <1>3, <1>4 DEF SessionInv, CleanSoFar
<1>7. /\ \A k \in 1 .. Len(Script[m]) : k < i => Done(Script[m][k])
      /\ \A o \in had : Sound(o) \/ Remaking(o)
  BY <1>1, <1>5, <1>6 DEF SessionInv, CleanSoFar
<1>8. Tidy(Script[m], IF m = 12 THEN {"document_body"} ELSE {})
  BY <1>1, <1>6, FilesAreTidy
<1>9. st.do \notin {"make-old", "put-back"}
  BY <1>1, <1>8 DEF Tidy
<1>10. form' = [o \in Objects |-> IF o \in st.on THEN Left(st, o) ELSE form[o]]
  BY <1>5, <1>6 DEF NextStatement
<1>11. Formed /\ Founded /\ ~ Raises(st)
  BY <1>5, <1>6 DEF SessionInv, SchemaInv
<1>12. /\ Done(st)'
       /\ \A o \in Objects : ~ (st.do = "drop" /\ o \in st.on) =>
             (Sound(o) => Sound(o)') /\ (There(o) => There(o)')
  <2>1. PICK t \in Statements : t = st
    BY <1>1
  <2>2. /\ ~ Raises(t) /\ t.do \notin {"make-old", "put-back"}
        /\ form' = [o \in Objects |-> IF o \in t.on THEN Left(t, o) ELSE form[o]]
    BY <1>9, <1>10, <1>11, <2>1
  <2>3. /\ Done(t)'
        /\ \A o \in Objects : ~ (t.do = "drop" /\ o \in t.on) =>
              (Sound(o) => Sound(o)') /\ (There(o) => There(o)')
    BY <1>11, <2>2, StatementDoes
  <2> QED BY <2>1, <2>3
<1>13. ASSUME NEW k \in 1 .. Len(Script[m]), k < psql'.at PROVE Done(Script[m][k])'
  <2>1. CASE k = i
    BY <1>12, <2>1
  <2>2. CASE k < i
    <3>1. Done(Script[m][k])
      BY <1>7, <2>2
    <3>2. Script[m][k].on \subseteq Objects
      BY <1>1, ElementOfSeq DEF Statements
    <3>3. st.do = "drop" => st.on \cap Script[m][k].on = {}
      BY <1>1, <1>8, <2>2 DEF Tidy
    <3>4. \A o \in Script[m][k].on : (Sound(o) => Sound(o)') /\ (There(o) => There(o)')
      BY <1>12, <3>2, <3>3
    <3> HIDE DEF st
    <3> QED BY <3>1, <3>4 DEF Done
  <2> QED BY <1>1, <1>4, <1>13, <2>1, <2>2
<1>14. ASSUME NEW o \in had PROVE Sound(o)' \/ Remaking(o)'
  <2>1. o \in Objects
    BY <1>3
  <2>2. CASE st.do = "drop" /\ o \in st.on
    <3>1. psql'.at - 1 = i /\ psql'.file = m
      BY <1>1, <1>4
    <3>2. i \in 1 .. Len(Script[m]) /\ Script[m][i].do = "drop" /\ o \in Script[m][i].on
      BY <1>1, <2>2
    <3>3. Remaking(o)'
      BY <3>1, <3>2 DEF Remaking
    <3> QED BY <3>3
  <2>3. CASE ~ (st.do = "drop" /\ o \in st.on)
    <3>1. CASE Sound(o)
      BY <1>12, <2>1, <2>3, <3>1
    <3>2. CASE Remaking(o)
      <4>1. /\ i - 1 \in 1 .. Len(Script[m]) /\ Script[m][i - 1].do = "drop"
            /\ o \in Script[m][i - 1].on
        BY <3>2 DEF Remaking
      <4>2. Script[m][(i - 1) + 1].do = "make" /\ Script[m][(i - 1) + 1].on = Script[m][i - 1].on
        BY <1>8, <4>1 DEF Tidy
      <4>3. (i - 1) + 1 = i
        BY <1>1
      <4>4. st.do = "make" /\ o \in st.on
        BY <4>1, <4>2, <4>3
      <4> QED BY <1>12, <4>4 DEF Done
    <3> QED BY <1>7, <3>1, <3>2
  <2> QED BY <2>2, <2>3
<1>15. psql'.at <= Len(Script[m]) + 1
  BY <1>1, <1>4
<1> QED BY <1>13, <1>14, <1>15

(* Before any session nothing is to be shown.                              *)
LEMMA SessionStart == SchemaInit(Databases) => SessionInv
<1> SUFFICES ASSUME SchemaInit(Databases) PROVE SessionInv
  OBVIOUS
<1>1. psql = [file |-> 0, at |-> 0, raised |-> FALSE] /\ had = {}
  BY DEF SchemaInit, NoSession
<1>2. psql.file = 0
  BY <1>1
<1> QED BY <1>1, <1>2, SchemaStart DEF SessionInv, CleanSoFar, Migrations

(* What a new session has done so far is nothing.                          *)
LEMMA SessionBegins ==
  ASSUME SessionInv, NEW m \in Migrations, Begin(m) PROVE SessionInv'
<1>1. psql' = [file |-> m, at |-> 1, raised |-> FALSE] /\ form' = form /\ had' = SoundOnes
  BY DEF Begin
<1>2. psql'.at = 1 /\ psql'.file = m
  BY <1>1
<1>3. SchemaInv'
  BY BeginKeeps DEF SessionInv
<1>4. \A o \in had' : o \in Objects /\ Sound(o)'
  BY <1>1 DEF SoundOnes, Sound
<1>5. Len(Script[m]) \in Nat
  BY Files
<1> QED BY <1>2, <1>3, <1>4, <1>5 DEF SessionInv, CleanSoFar

(* Every step keeps it.                                                    *)
LEMMA SessionStep == SessionInv /\ [SchemaNext]_schemaVars => SessionInv'
<1> SUFFICES ASSUME SessionInv, [SchemaNext]_schemaVars PROVE SessionInv'
  OBVIOUS
<1>1. SchemaInv'
  BY SchemaStep DEF SessionInv
<1>2. CASE UNCHANGED <<form, psql, had>>
  BY <1>1, <1>2 DEF SessionInv, CleanSoFar, Done, Remaking, Sound, There
<1>3. CASE NextStatement
  <2>1. PICK m, i : m = psql.file /\ i = psql.at
    OBVIOUS
  <2> QED BY <1>3, <2>1, CleanStep
<1>4. CASE EndSession \/ SessionLost
  <2>1. psql'.file = 0 /\ had' = {}
    BY <1>4 DEF EndSession, SessionLost, NoSession
  <2> QED BY <1>1, <2>1 DEF SessionInv, CleanSoFar, Migrations
<1>5. ASSUME NEW s \in Services, Follow(s) PROVE SessionInv'
  <2>1. PICK m \in Migrations : m = FileOf[Reported(s)]
    BY <1>5, ReportedIsAnObject, FileOfIsOne DEF Follow
  <2> QED BY <1>5, <2>1, SessionBegins DEF Follow
<1>6. ASSUME NEW s \in Services, Repair(s) PROVE SessionInv'
  <2>1. psql'.file = 0 /\ had' = had
    BY <1>6 DEF Repair, Idle
  <2> QED BY <1>1, <2>1 DEF SessionInv, CleanSoFar, Migrations
<1>7. ASSUME NEW m \in Migrations, Stray(m) PROVE SessionInv'
  BY <1>7, SessionBegins DEF Stray
<1>8. ASSUME NEW r \in DOMAIN RowsUnder, RowsGoBad(r) PROVE SessionInv'
  BY <1>2, <1>8 DEF RowsGoBad
<1> QED BY <1>2, <1>3, <1>4, <1>5, <1>6, <1>7, <1>8 DEF SchemaNext, Settled, schemaVars

(* At the end of the file it is what was to be shown.                      *)
LEMMA CleanRunLeaves == SessionInv => CleanRunConverges
<1> SUFFICES ASSUME SessionInv, ~ Idle, ~ Running, ~ psql.raised, psql.file \notin {2, 15}
             PROVE /\ \A o \in (Declares[psql.file] \ LeftToNext) :
                        Sound(o) \/ (o \in Unasserted /\ There(o))
                   /\ had \subseteq SoundOnes
  BY DEF CleanRunConverges
<1> DEFINE m == psql.file
<1>1. m \in Migrations \ {2, 15} /\ psql.at \in Nat /\ psql.at > 0
  BY DEF SessionInv, SchemaInv, SessionOK, Idle
<1>2. Script[m] \in Seq(Statements) /\ Len(Script[m]) \in Nat
  BY <1>1, Files
<1>3. psql.at > Len(Script[m])
  BY <1>1, <1>2 DEF Running, Idle
<1>4. /\ psql.at = Len(Script[m]) + 1
      /\ \A i \in 1 .. Len(Script[m]) : Done(Script[m][i])
      /\ \A o \in had : Sound(o) \/ Remaking(o)
  BY <1>1, <1>2, <1>3 DEF SessionInv, CleanSoFar
<1>5. Tidy(Script[m], IF m = 12 THEN {"document_body"} ELSE {})
  BY <1>1, FilesAreTidy
<1>6. \A o \in had : ~ Remaking(o)
  <2>1. ASSUME NEW o \in had, Remaking(o) PROVE FALSE
    <3>1. psql.at - 1 = Len(Script[m])
      BY <1>2, <1>4
    <3>2. Len(Script[m]) \in 1 .. Len(Script[m]) /\ Script[m][Len(Script[m])].do = "drop"
      BY <2>1, <3>1 DEF Remaking
    <3>3. Len(Script[m]) + 1 \in 1 .. Len(Script[m])
      BY <1>5, <3>2 DEF Tidy
    <3> QED BY <1>2, <3>3
  <2> QED BY <2>1
<1>7. had \subseteq SoundOnes
  BY <1>4, <1>6 DEF SessionInv, SoundOnes
<1>8. ASSUME NEW o \in Declares[m] \ LeftToNext
      PROVE Sound(o) \/ (o \in Unasserted /\ There(o))
  <2>1. PICK i \in 1 .. Len(Script[m]) : Script[m][i].do # "assert" /\ o \in Script[m][i].on
    BY <1>1, <1>2 DEF Declares, ToSet
  <2>2. o \notin (IF m = 12 THEN {"document_body"} ELSE {})
    BY <1>8 DEF LeftToNext
  <2>3. PICK k \in 1 .. Len(Script[m]) : o \in Script[m][k].on /\ Settles(Script[m][k], o)
    BY <1>5, <2>1, <2>2 DEF Tidy
  <2>4. Done(Script[m][k])
    BY <1>4
  <2> QED BY <2>3, <2>4 DEF Done, Settles, Tables, Unasserted
<1> QED BY <1>7, <1>8

(* A file that ended without an error, but for 0002 and 0015, has undone   *)
(* nothing, whatever it was applied to, and has left what it declares as   *)
(* it declares it, but for the objects of Unasserted, whose names it left  *)
(* to what stood there, and the column 0012 leaves to 0013.                *)
THEOREM CleanRunsConverge == SchemaSpec => []CleanRunConverges
  BY SessionStart, SessionStep, CleanRunLeaves, PTL DEF SchemaSpec
=============================================================================
