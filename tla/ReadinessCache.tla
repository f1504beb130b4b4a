--------------------------- MODULE ReadinessCache ---------------------------
(***************************************************************************)
(* database_reachable, which every service's config.py has, and the        *)
(* gateway's redis_reachable, its twin: threads ask whether a dependency   *)
(* answers and are told the verdict of a probe made at most a TTL ago.     *)
(* The cache is one tuple, read without the lock; a miss takes the lock,   *)
(* looks again and probes.                                                 *)
(*                                                                         *)
(* Time is counted in ticks, as ages: every age grows with the clock, up   *)
(* to where nothing tells it from a greater one.  Left out: the DSN in the *)
(* tuple, which only tests change, and which rung of the schema is missing.*)
(***************************************************************************)
EXTENDS Integers

CONSTANTS
    Askers,     \* threads serving /health, or a submission
    TTL,        \* _PROBE_TTL_SECONDS
    ProbeTime,  \* the probe's connect and statement timeouts together
    NoAsker     \* nobody, for a lock that is free

ASSUME ReadinessAssumption ==
    TTL \in Nat /\ TTL > 0 /\ ProbeTime \in Nat /\ NoAsker \notin Askers

VARIABLES
    answers,    \* up if the dependency answers, with every rung of its schema
    verdict,    \* the cached result
    age,        \* the age of its timestamp, up to TTL
    lock,       \* the asker inside the lock, or NoAsker
    took,       \* how long the probe has been running
    asker,      \* what each thread is doing
    read,       \* the tuple it read without the lock
    sinceUp,    \* history: how long ago the dependency last answered
    sinceDown   \* history: and last did not

cache == <<verdict, age>>
history == <<sinceUp, sinceDown>>
readinessVars == <<answers, cache, lock, took, asker, read, history>>

(* How old the observation behind a served verdict may be.                 *)
Horizon == TTL + ProbeTime

ReadinessTypeOK ==
    /\ answers \in {"up", "down"} /\ verdict \in {"up", "down"}
    /\ age \in 0 .. TTL /\ took \in 0 .. ProbeTime
    /\ lock \in Askers \cup {NoAsker}
    /\ asker \in [Askers -> {"idle", "judge", "wait", "probe", "store",
                             "toldUp", "toldDown"}]
    /\ read \in [Askers -> [saw : {"up", "down"}, age : 0 .. TTL]]
    /\ sinceUp \in 0 .. Horizon /\ sinceDown \in 0 .. Horizon

(* A cold cache counts as expired; the past is unknown.                    *)
ReadinessInit ==
    /\ answers \in {"up", "down"}
    /\ verdict = "down" /\ age = TTL
    /\ lock = NoAsker /\ took = 0
    /\ asker = [t \in Askers |-> "idle"]
    /\ read = [t \in Askers |-> [saw |-> "down", age |-> TTL]]
    /\ sinceUp = (IF answers = "up" THEN 0 ELSE Horizon)
    /\ sinceDown = (IF answers = "up" THEN Horizon ELSE 0)

-----------------------------------------------------------------------------
Step(t, from, to) == asker[t] = from /\ asker' = [asker EXCEPT ![t] = to]

Told(saw) == IF saw = "up" THEN "toldUp" ELSE "toldDown"

Fresh(a) == a < TTL

(* The tuple is read, and then judged by a clock read later.               *)
Peek(t) ==
    /\ Step(t, "idle", "judge")
    /\ read' = [read EXCEPT ![t] = [saw |-> verdict, age |-> age]]
    /\ UNCHANGED <<answers, cache, lock, took, history>>

(* Slip: the lock-free hit renews the timestamp.                           *)
JudgeRenewing(t) ==
    /\ Step(t, "judge", IF Fresh(read[t].age) THEN Told(read[t].saw) ELSE "wait")
    /\ age' = IF Fresh(read[t].age) THEN 0 ELSE age
    /\ UNCHANGED <<answers, verdict, lock, took, read, history>>

Judge(t) ==
    /\ Step(t, "judge", IF Fresh(read[t].age) THEN Told(read[t].saw) ELSE "wait")
    /\ UNCHANGED <<answers, cache, lock, took, read, history>>

(* Whoever waited for the lock reuses what its holder has found.           *)
Enter(t) ==
    /\ lock = NoAsker
    /\ IF Fresh(age) THEN Step(t, "wait", Told(verdict)) /\ UNCHANGED lock
       ELSE Step(t, "wait", "probe") /\ lock' = t
    /\ took' = 0
    /\ UNCHANGED <<answers, cache, read, history>>

(* The probe sees the dependency at some moment of its run.                *)
Probe(t) ==
    /\ Step(t, "probe", "store")
    /\ read' = [read EXCEPT ![t] = [saw |-> answers, age |-> TTL]]
    /\ UNCHANGED <<answers, cache, lock, took, history>>

(* The timestamp is taken after the probe, not before.                     *)
Store(t) ==
    /\ Step(t, "store", Told(read[t].saw))
    /\ verdict' = read[t].saw /\ age' = 0
    /\ lock' = NoAsker /\ took' = 0
    /\ UNCHANGED <<answers, read, history>>

BeTold(t) ==
    /\ asker[t] \in {"toldUp", "toldDown"}
    /\ asker' = [asker EXCEPT ![t] = "idle"]
    /\ read' = [read EXCEPT ![t] = [saw |-> "down", age |-> TTL]]
    /\ UNCHANGED <<answers, cache, lock, took, history>>

(* reset_database_probe_cache.                                             *)
Reset ==
    /\ verdict' = "down" /\ age' = TTL
    /\ UNCHANGED <<answers, lock, took, asker, read, history>>

Older(a, limit) == IF a < limit THEN a + 1 ELSE limit

(* The probe's timeouts end it.                                            *)
Tick ==
    /\ lock # NoAsker => took < ProbeTime
    /\ age' = Older(age, TTL)
    /\ took' = IF lock = NoAsker THEN 0 ELSE took + 1
    /\ read' = [t \in Askers |-> [saw |-> read[t].saw, age |-> Older(read[t].age, TTL)]]
    /\ sinceUp' = IF answers = "up" THEN 0 ELSE Older(sinceUp, Horizon)
    /\ sinceDown' = IF answers = "up" THEN Older(sinceDown, Horizon) ELSE 0
    /\ UNCHANGED <<answers, verdict, lock, asker>>

Change ==
    /\ answers' = IF answers = "up" THEN "down" ELSE "up"
    /\ sinceUp' = 0 /\ sinceDown' = 0
    /\ UNCHANGED <<cache, lock, took, asker, read>>

ReadinessNext ==
    \/ \E t \in Askers : \/ Peek(t) \/ Judge(t) \/ Enter(t) \/ Probe(t) \/ Store(t)
                         \/ BeTold(t)
    \/ Reset \/ Tick \/ Change

ReadinessSpec == ReadinessInit /\ [][ReadinessNext]_readinessVars

-----------------------------------------------------------------------------
(* "/health can lag a DB up/down transition by up to the TTL": what a      *)
(* thread is told was so within a TTL and the length of a probe, whether   *)
(* it read the cache, waited for another's probe or made its own           *)
(* (database_reachable).                                                   *)
VerdictIsRecent ==
    [][\A t \in Askers : asker'[t] # asker[t] =>
          /\ asker'[t] = "toldUp" => sinceUp < Horizon
          /\ asker'[t] = "toldDown" => sinceDown < Horizon]_readinessVars

(* "single-flight so a burst of concurrent misses performs ONE probe": no  *)
(* probe starts beside another, nor while a cached verdict is fresh.       *)
OneProbePerWindow ==
    [][\A t \in Askers : asker'[t] = "probe" /\ asker[t] # "probe" =>
          /\ ~Fresh(age)
          /\ \A u \in Askers : asker[u] \notin {"probe", "store"}]_readinessVars

=============================================================================
