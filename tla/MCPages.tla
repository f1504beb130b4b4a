------------------------------ MODULE MCPages ------------------------------
(***************************************************************************)
(* The three pages of the browser that move money or decide on it, one per *)
(* story.  The payment page and the officer's page are taken twice: at     *)
(* length on one loan or file, and across visits to two of them.           *)
(***************************************************************************)
EXTENDS Pages, FiniteSets, TLC

VARIABLE story

vars == <<payPageVars, deskVars, applyVars, story>>

Init ==
    /\ PayPageInit /\ DeskInit /\ ApplyInit
    /\ story \in {"paying", "touring", "reviewing", "roaming", "applying"}

(* What an earlier visit of the officer's page still has to come.          *)
Stragglers ==
    Cardinality({v \in 1..turn - 1 : task[v] # Rest})
    + Cardinality({v \in 1..turn - 1 : opening[v] = "get"})
    + Cardinality({v \in 1..turn - 1 : papers[v] \in {"get", "document"}})

AtThePaymentPage ==
    /\ PayPageNext
    /\ story = "paying" => route' = route
    /\ story = "touring" =>
           Cardinality({k \in PayKeys : minted'[k] # 0}) <= 1 /\ lapsed' = {}

AtTheDesk ==
    /\ DeskNext
    /\ story = "reviewing" =>
           path' = path /\ \A a \in Files \ {path[1]} : events'[a] = <<>>
    /\ story = "roaming" =>
           /\ \A k \in RunIds : usedBy'[k].turn = 0
           /\ \A a \in Files : Len(events'[a]) <= 1
           /\ Stragglers' <= 1

Next ==
    \/ /\ story \in {"paying", "touring"} /\ AtThePaymentPage
       /\ UNCHANGED <<deskVars, applyVars, story>>
    \/ /\ story \in {"reviewing", "roaming"} /\ AtTheDesk
       /\ UNCHANGED <<payPageVars, applyVars, story>>
    \/ /\ story = "applying" /\ ApplyNext
       /\ UNCHANGED <<payPageVars, deskVars, story>>

Spec == Init /\ [][Next]_vars

Symmetry ==
    Permutations(Loans) \cup Permutations(PayKeys) \cup Permutations(Charges)
    \cup Permutations(Files) \cup Permutations(RunIds)

=============================================================================
