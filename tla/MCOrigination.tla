--------------------------- MODULE MCOrigination ---------------------------
(***************************************************************************)
(* origination-service on small instances: the application's life, and the *)
(* two guards its threads share within a process, which share nothing with *)
(* it or with each other; one at a time.                                   *)
(***************************************************************************)
EXTENDS Origination, ReadinessCache, RateLimit, TLC

Symmetry ==
    Permutations(Officers) \cup Permutations(Applicants)
    \cup Permutations(Askers) \cup Permutations(Requesters)

VARIABLE part

MCInit ==
    /\ part \in {"application", "readiness", "rate"}
    /\ Init /\ ReadinessInit /\ RateInit
    /\ part # "application" => app = "absent" /\ complete
    /\ part # "readiness" => answers = "up"

MCNext ==
    /\ \/ part = "application" /\ Next /\ UNCHANGED <<readinessVars, rateVars>>
       \/ part = "readiness" /\ ReadinessNext /\ UNCHANGED <<vars, rateVars>>
       \/ part = "rate" /\ RateNext /\ UNCHANGED <<vars, readinessVars>>
    /\ UNCHANGED part

MCSpec == MCInit /\ [][MCNext]_<<vars, readinessVars, rateVars, part>>

=============================================================================
