----------------------------- MODULE MCPayments -----------------------------
(***************************************************************************)
(* Payments on small instances.                                            *)
(***************************************************************************)
EXTENDS Payments, TLC

Symmetry == Permutations(PaymentIds) \cup Permutations(Requests)
                \cup Permutations(Keys) \cup Permutations(Loans)

(* A charge and a negative one: PaymentIn.amount carries no lower bound.    *)
ChargeAndReversal == {3, -1}

-----------------------------------------------------------------------------
(* A crowd, for the liveness of claim_or_branch: numbered requests that    *)
(* have all arrived before the first claim.  To wait at its claim is all a *)
(* late request would do, so nothing but their number bounds the claims.   *)
(* The first came through payment-service's door and alone may lose its    *)
(* call; the others came through servicing's.  One of the first two may    *)
(* die, the balances row is there from the beginning or never, and nobody  *)
(* re-drives.                                                              *)
Arrival ==
    \/ \E r \in Requests, k \in Keys, t \in Terms :
           Start(r, IF r = 1 THEN "payment" ELSE "servicing", k, t)
    \/ \E l \in Loans : BoardBalance(l)

Handling ==
    \/ \E r \in Requests : Claiming(r) \/ Capturing(r) \/ Serving(r)
    \/ (\A r \in Requests : req[r].pc # "dead") /\ (Die(1) \/ Die(2))
    \/ LoseCall(1)
    \/ \E p \in PaymentIds : Expire(p)

(* Requests are told apart by nothing but their door, and payments.id is a *)
(* SERIAL: it loses nothing to take both in the order of their numbers.    *)
InOrder ==
    /\ \A r, s \in Requests :
           r < s => /\ req[r].pc = "idle" => req[s].pc = "idle"
                    /\ req[r].pc = "claim" => req[s].pc \in {"idle", "claim"}
    /\ \A p, q \in PaymentIds : p < q /\ status[p] = "absent" => status[q] = "absent"

CrowdNext ==
    /\ IF \E r \in Requests : req[r].pc = "idle" THEN Arrival ELSE Handling
    /\ InOrder'

CrowdSpec == Init /\ [][CrowdNext]_vars /\ Fairness

=============================================================================
