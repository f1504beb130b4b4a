------------------------------ MODULE MCFront -------------------------------
(***************************************************************************)
(* What stands between a person and the services, on small instances, one  *)
(* at a time: the gateway's session and resume routes, which a borrower's  *)
(* browser drives, the assistant's loop, which a model drives, and the     *)
(* builder of what a model is sent, on each of the sample requests.        *)
(***************************************************************************)
EXTENDS Gateway, Assistant, RequestSamples, TLC

VARIABLE front

MCRooms == {-1, 3}

MCInit ==
    /\ front \in {"borrower", "officer", "builder"}
    /\ RequestInit
    /\ front # "builder" => given = Hands(<<>>, <<>>, Plainest)
    /\ Init
    /\ front # "borrower" => redis = "up" /\ linked = {}
    /\ AssistantInit
    /\ front # "officer" => standing = "missing" /\ room = 3

(* Every run of the assistant ends, and a request is built once.           *)
Rest ==
    \/ front = "officer" /\ \A r \in Runs : stage[r] = "done"
    \/ front = "builder" /\ outgoing # Unbuilt

mcVars == <<vars, assistantVars, requestVars, front>>

MCNext ==
    \/ /\ \/ front = "borrower" /\ Next /\ UNCHANGED <<assistantVars, requestVars>>
          \/ front = "officer" /\ AssistantNext /\ UNCHANGED <<vars, requestVars>>
          \/ front = "builder" /\ Build /\ UNCHANGED <<vars, assistantVars>>
       /\ UNCHANGED front
    \/ Rest /\ UNCHANGED mcVars

MCSpec == MCInit /\ [][MCNext]_mcVars

Symmetry == Permutations(Handlers) \cup Permutations(Apps) \cup Permutations(Runs)

=============================================================================
