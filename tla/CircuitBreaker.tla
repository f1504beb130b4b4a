--------------------------- MODULE CircuitBreaker ---------------------------
(***************************************************************************)
(* The circuit breaker origination keeps for each downstream (kyc,         *)
(* decision, disclosure): the three places of _breaker_state[base_url],    *)
(* and worker threads that run _with_breaker.  The lock makes              *)
(* _breaker_before_call and _breaker_after_call one step each; the network *)
(* call between them takes as long as it takes, so that a call admitted in *)
(* one state may finish in any other.                                      *)
(***************************************************************************)
EXTENDS Integers

CONSTANTS
    Callers,    \* worker threads
    Threshold   \* _BREAKER_FAILURE_THRESHOLD

ASSUME ThresholdAssumption == Threshold \in Nat \ {0}

VARIABLES
    state,      \* b["state"]
    failures,   \* b["failures"], counted up to Threshold: no test tells more
    cooled,     \* _BREAKER_COOLDOWN_SECONDS have passed since b["opened_at"]
    pc,         \* what each worker is doing
    up,         \* the downstream answers without a 5xx
    started,    \* history: network calls begun since opened_at was last set
    escaped     \* history: a probe ended without reporting to the breaker

breaker == <<state, failures, cooled>>
vars == <<breaker, pc, up, started, escaped>>

TypeOK ==
    /\ state \in {"closed", "open", "half_open"}
    /\ failures \in 0 .. Threshold
    /\ cooled \in BOOLEAN
    /\ pc \in [Callers -> {"idle", "calling", "probing"}]
    /\ up \in BOOLEAN
    /\ started \in Nat
    /\ escaped \in BOOLEAN

(* opened_at is 0.0 in a fresh breaker, long ago.                          *)
Init ==
    /\ state = "closed" /\ failures = 0 /\ cooled = TRUE
    /\ pc = [c \in Callers |-> "idle"]
    /\ up \in BOOLEAN
    /\ started = 0
    /\ escaped = FALSE

-----------------------------------------------------------------------------
(* _breaker_before_call lets the caller through, or the call ends here     *)
(* with CircuitOpenError and nothing has changed.                          *)
AdmitClosed(c) ==
    /\ pc[c] = "idle"
    /\ state = "closed"
    /\ pc' = [pc EXCEPT ![c] = "calling"]
    /\ UNCHANGED <<breaker, up, started, escaped>>

(* Slip: the first caller after the cooldown does not mark the probe.      *)
AdmitEveryCooled(c) ==
    /\ pc[c] = "idle"
    /\ state = "open" /\ cooled
    /\ pc' = [pc EXCEPT ![c] = "probing"]
    /\ started' = started + 1
    /\ UNCHANGED <<breaker, up, escaped>>

AdmitProbe(c) ==
    /\ pc[c] = "idle"
    /\ state = "open" /\ cooled
    /\ state' = "half_open"
    /\ pc' = [pc EXCEPT ![c] = "probing"]
    /\ started' = started + 1
    /\ escaped' = FALSE
    /\ UNCHANGED <<failures, cooled, up>>

Open ==
    /\ state' = "open"
    /\ cooled' = FALSE
    /\ started' = 0

(* A response below 500, a 4xx raised as HTTPStatusError among them.       *)
Succeed(c) ==
    /\ pc[c] # "idle"
    /\ up
    /\ pc' = [pc EXCEPT ![c] = "idle"]
    /\ state' = "closed"
    /\ failures' = 0
    /\ UNCHANGED <<cooled, up, started, escaped>>

(* Slip: a failure in half_open is only counted.                           *)
FailCounting(c) ==
    /\ pc[c] # "idle"
    /\ ~up
    /\ pc' = [pc EXCEPT ![c] = "idle"]
    /\ failures' = IF failures < Threshold THEN failures + 1 ELSE failures
    /\ IF failures' = Threshold /\ state # "half_open" THEN Open
       ELSE UNCHANGED <<state, cooled, started>>
    /\ UNCHANGED <<up, escaped>>

(* A 5xx, a timeout or a connection error.                                 *)
Fail(c) ==
    /\ pc[c] # "idle"
    /\ ~up
    /\ pc' = [pc EXCEPT ![c] = "idle"]
    /\ IF state = "half_open"
       THEN Open /\ failures' = failures
       ELSE /\ failures' = IF failures < Threshold THEN failures + 1 ELSE failures
            /\ IF failures' = Threshold THEN Open
               ELSE UNCHANGED <<state, cooled, started>>
    /\ UNCHANGED <<up, escaped>>

(* Any exception that is not an httpx.HTTPError passes both handlers.      *)
Escape(c) ==
    /\ pc[c] # "idle"
    /\ pc' = [pc EXCEPT ![c] = "idle"]
    /\ escaped' = (escaped \/ pc[c] = "probing")
    /\ UNCHANGED <<breaker, up, started>>

Cool ==
    /\ ~cooled
    /\ cooled' = TRUE
    /\ UNCHANGED <<state, failures, pc, up, started, escaped>>

Outage == up' = ~up /\ UNCHANGED <<breaker, pc, started, escaped>>

Finish(c) == Succeed(c) \/ Fail(c)

Admit(c) == AdmitClosed(c) \/ AdmitProbe(c)

Next ==
    \/ \E c \in Callers : Admit(c) \/ Finish(c) \/ Escape(c)
    \/ Cool
    \/ Outage

Spec == Init /\ [][Next]_vars

(* Every call ends (httpx's timeouts) and time passes.  That requests keep *)
(* coming is an assumption about the clients.                              *)
Fairness ==
    /\ \A c \in Callers : WF_vars(Finish(c))
    /\ WF_vars(Cool)

SteadyLoad == \A c \in Callers : WF_vars(Admit(c))

FairSpec == Spec /\ Fairness /\ SteadyLoad

-----------------------------------------------------------------------------
(* The two halves of the breaker's memory agree: it is closed exactly as   *)
(* long as fewer than Threshold failures have been counted, however late   *)
(* the calls that report to it were admitted (_breaker_after_call).        *)
ClosedIffFewFailures == state = "closed" <=> failures < Threshold

(* A downstream that is down gets one call per cooldown, not a burst       *)
(* (_breaker_before_call's half-open admission).                           *)
OneCallPerCooldown == state # "closed" => started <= 1

(* Half-open is never without its probe, which alone can end it when no    *)
(* earlier call is left, unless an exception bypassed the breaker          *)
(* (_with_breaker, _breaker_after_call).                                   *)
HalfOpenHasProbe ==
    state = "half_open" => escaped \/ \E c \in Callers : pc[c] = "probing"

(* A downstream that is back for good is found: under load the circuit     *)
(* closes and stays closed, unless a probe bypassed the breaker.           *)
RecoveryIsFound == <>[]up => <>[](state = "closed") \/ <>escaped

-----------------------------------------------------------------------------
BreakerInv ==
    /\ TypeOK
    /\ ClosedIffFewFailures
    /\ OneCallPerCooldown
    /\ HalfOpenHasProbe
    /\ state = "open" => started = 0

=============================================================================
