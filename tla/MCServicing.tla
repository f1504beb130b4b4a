----------------------------- MODULE MCServicing -----------------------------
(***************************************************************************)
(* The three parts of the servicing service that share no state, on small  *)
(* instances, one at a time: what is written to an account's row, the      *)
(* reconciliation that only reads, and the log file.                       *)
(***************************************************************************)
EXTENDS LoanAccount, Reconciliation, LogRetention, TLC

VARIABLE part

(* A payment or waiver, and one that gives money back.                     *)
ForthAndBack == {3, -3}

(* Two amounts on one loan over three days, and a second loan.             *)
Posted ==
    [loan : {1}, amount : {2}, at : 0..5]
        \cup [loan : {1}, amount : {3}, at : {1, 2, 4}]
        \cup [loan : {2}, amount : {2}, at : {2}]

Line ==
    [loan : {1}, amount : {2, 3}, day : 0..2, type : {"capture"}]
        \cup [loan : {2}, amount : {2}, day : {1}, type : {"capture"}]
        \cup [loan : {1}, amount : {3}, day : {1}, type : {"refund"}]

Numbered(ref, line) == line @@ [ref |-> ref]

Files ==
    {{Numbered(1, a)} : a \in Line}
        \cup {{Numbered(1, p[1]), Numbered(2, p[2])} : p \in Line \X Line}

MiddleDay == {[from |-> 1, to |-> 1]}

(* Lines of any of three days in the file that was never rotated.          *)
AnyThreeDays == SUBSET (0 .. 2)

MCInit ==
    /\ part \in {"account", "reconciliation", "log"}
    /\ LogInit
    /\ part # "log" => files = <<>>
    /\ Init
    /\ ReconciliationInit

MCNext ==
    /\ \/ part = "account" /\ Next /\ UNCHANGED <<reconciliationVars, logVars>>
       \/ part = "reconciliation" /\ ReconciliationNext /\ UNCHANGED <<vars, logVars>>
       \/ part = "log" /\ LogNext /\ UNCHANGED <<vars, reconciliationVars>>
    /\ UNCHANGED part

MCSpec == MCInit /\ [][MCNext]_<<vars, reconciliationVars, logVars, part>>

Symmetry == Permutations(Requests)

=============================================================================
