---------------------------- MODULE PaymentIntent ----------------------------
(***************************************************************************)
(* What ADR 0013 Decision 1 and ADR 0020 promise of a payment intent,      *)
(* without requests, calls, clocks or crashes: a key is held by at most    *)
(* one payment, a payment is captured and credited at most once, a         *)
(* disowned capture is never credited later, and a key is released for a   *)
(* new charge only once the charge that held it has been credited.         *)
(***************************************************************************)
CONSTANTS PaymentIds, Keys, NoKey

VARIABLES
    holds,     \* the key a payment holds, or NoKey
    stage,     \* how far a payment got
    credited   \* the payments the balance has absorbed

vars == <<holds, stage, credited>>

Init ==
    /\ holds = [p \in PaymentIds |-> NoKey]
    /\ stage = [p \in PaymentIds |-> "none"]
    /\ credited = {}

Claim(p, k) ==
    /\ stage[p] = "none"
    /\ \A q \in PaymentIds : holds[q] # k
    /\ holds' = [holds EXCEPT ![p] = k]
    /\ stage' = [stage EXCEPT ![p] = "claimed"]
    /\ UNCHANGED credited

Capture(p) ==
    /\ stage[p] = "claimed"
    /\ stage' = [stage EXCEPT ![p] = "captured"]
    /\ UNCHANGED <<holds, credited>>

Credit(p) ==
    /\ stage[p] = "captured"
    /\ p \notin credited
    /\ credited' = credited \cup {p}
    /\ UNCHANGED <<holds, stage>>

Disown(p) ==
    /\ stage[p] = "captured"
    /\ stage' = [stage EXCEPT ![p] = "disowned"]
    /\ UNCHANGED <<holds, credited>>

Release(p) ==
    /\ holds[p] # NoKey
    /\ p \in credited
    /\ holds' = [holds EXCEPT ![p] = NoKey]
    /\ UNCHANGED <<stage, credited>>

Next ==
    \E p \in PaymentIds :
        \/ \E k \in Keys : Claim(p, k)
        \/ Capture(p)
        \/ Credit(p)
        \/ Disown(p)
        \/ Release(p)

Spec == Init /\ [][Next]_vars

=============================================================================
