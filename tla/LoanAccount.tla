---------------------------- MODULE LoanAccount ----------------------------
(***************************************************************************)
(* One servicing account row, balances(balance, past_due), and everything  *)
(* that writes it: the apply of a payment (a single atomic UPDATE here;    *)
(* Payments has its record), an officer's correction (a compare-and-set    *)
(* against the balance his screen quoted), a fee waiver (an atomic         *)
(* decrement) and a late fee (a SELECT followed by an UPDATE).             *)
(*                                                                         *)
(* Amounts are integers of the minor unit: the floats' rounding is left    *)
(* out.  A correction's float arrives as it was quoted (JSON numbers       *)
(* round-trip), so the comparison of the compare-and-set is exact.         *)
(***************************************************************************)
EXTENDS Integers

CONSTANTS
    Loans,
    Requests,     \* payments, corrections, waivers and assessments
    Amounts,      \* of payments and waivers; nothing bounds them below
    Corrections,  \* new_balance values an officer enters
    Principal,
    LateFee       \* LATE_FEE_FLAT

ASSUME AccountAssumption ==
    /\ Amounts \subseteq Int
    /\ Corrections \subseteq Int
    /\ Principal \in Int
    /\ LateFee \in Int

VARIABLES
    boarded,   \* loans that have a balances row
    balance,   \* balances.balance
    pastDue,   \* balances.past_due
    req,       \* what each request does, and the figure it has read
    \* History: what each column should have absorbed.
    applied, corrected, assessed, waived,
    raced      \* loans whose past_due was written during an assessment

columns == <<boarded, balance, pastDue>>
record == <<applied, corrected, assessed, waived>>
vars == <<columns, req, record, raced>>

PCs == {"idle", "quoted", "refusing", "refused",
        "assessing", "done", "dead"}

Request == [pc : PCs, loan : Loans, read : Int]

TypeOK ==
    /\ boarded \in SUBSET Loans
    /\ balance \in [Loans -> Int] /\ pastDue \in [Loans -> Int]
    /\ req \in [Requests -> Request]
    /\ applied \in [Loans -> Int] /\ corrected \in [Loans -> Int]
    /\ assessed \in [Loans -> Int] /\ waived \in [Loans -> Int]
    /\ raced \in SUBSET Loans

(* A loan that was never boarded has no row and reads as zero.             *)
Init ==
    /\ boarded = {}
    /\ balance = [l \in Loans |-> 0]
    /\ pastDue = [l \in Loans |-> 0]
    /\ req \in [Requests -> [pc : {"idle"}, loan : Loans, read : {0}]]
    /\ applied = [l \in Loans |-> 0]
    /\ corrected = [l \in Loans |-> 0]
    /\ assessed = [l \in Loans |-> 0]
    /\ waived = [l \in Loans |-> 0]
    /\ raced = {}

-----------------------------------------------------------------------------
(* Bookkeeping of the history variables.                                   *)

Goto(r, pc) == req' = [req EXCEPT ![r].pc = pc]

Read(r, pc, figure) == req' = [req EXCEPT ![r].pc = pc, ![r].read = figure]

Assessing(l) == {r \in Requests : req[r].loan = l /\ req[r].pc = "assessing"}

(* Request r writes past_due of loan l.                                    *)
WritesPastDue(r, l) ==
    raced' = IF Assessing(l) \subseteq {r} THEN raced ELSE raced \cup {l}

-----------------------------------------------------------------------------
(* accept_offer inserts the row, with the principal and nothing past due.  *)
Board(l) ==
    /\ l \notin boarded
    /\ boarded' = boarded \cup {l}
    /\ balance' = [balance EXCEPT ![l] = Principal]
    /\ UNCHANGED <<pastDue, req, record, raced>>

(* The balance half of _APPLY_SQL.                                         *)
ApplyPayment(r, a) ==
    LET l == req[r].loan IN
    /\ req[r].pc = "idle"
    /\ l \in boarded
    /\ balance' = [balance EXCEPT ![l] = @ - a]
    /\ applied' = [applied EXCEPT ![l] = @ + a]
    /\ Goto(r, "done")
    /\ UNCHANGED <<boarded, pastDue, corrected, assessed, waived, raced>>

(* The officer's screen shows the balance he will correct.                 *)
Quote(r) ==
    /\ req[r].pc \in {"idle", "refused"}
    /\ Read(r, "quoted", balance[req[r].loan])
    /\ UNCHANGED <<columns, record, raced>>

(* Slip: the correction does not look at what was quoted.                  *)
AdjustBlindly(r, v) ==
    LET l == req[r].loan IN
    /\ req[r].pc = "quoted"
    /\ l \in boarded
    /\ balance' = [balance EXCEPT ![l] = v]
    /\ corrected' = [corrected EXCEPT ![l] = @ + v - req[r].read]
    /\ Goto(r, "done")
    /\ UNCHANGED <<boarded, pastDue, applied, assessed, waived, raced>>

(* adjust_balance: one UPDATE ... WHERE balance = expected_balance.        *)
Adjust(r, v) ==
    LET l == req[r].loan IN
    /\ req[r].pc = "quoted"
    /\ l \in boarded /\ balance[l] = req[r].read
    /\ balance' = [balance EXCEPT ![l] = v]
    /\ corrected' = [corrected EXCEPT ![l] = @ + v - req[r].read]
    /\ Goto(r, "done")
    /\ UNCHANGED <<boarded, pastDue, applied, assessed, waived, raced>>

AdjustMovesNothing(r) ==
    LET l == req[r].loan IN
    /\ req[r].pc = "quoted"
    /\ ~(l \in boarded /\ balance[l] = req[r].read)
    /\ Goto(r, "refusing")
    /\ UNCHANGED <<columns, record, raced>>

(* get_balance for the 409's detail, a statement after the refusal.        *)
Refuse(r) ==
    /\ req[r].pc = "refusing"
    /\ Read(r, "refused", balance[req[r].loan])
    /\ UNCHANGED <<columns, record, raced>>

(* waive_fee; without a row the answer is -amount and nothing is written.  *)
WaiveFee(r, a) ==
    LET l == req[r].loan IN
    /\ req[r].pc = "idle"
    /\ Goto(r, "done")
    /\ IF l \in boarded
       THEN /\ pastDue' = [pastDue EXCEPT ![l] = @ - a]
            /\ waived' = [waived EXCEPT ![l] = @ + a]
            /\ WritesPastDue(r, l)
       ELSE UNCHANGED <<pastDue, waived, raced>>
    /\ UNCHANGED <<boarded, balance, applied, corrected, assessed>>

AssessRead(r) ==
    /\ req[r].pc = "idle"
    /\ Read(r, "assessing", pastDue[req[r].loan])
    /\ UNCHANGED <<columns, record, raced>>

(* Slip: half a repair, SET past_due = past_due + new_past_due.            *)
AssessWriteAdds(r) ==
    LET l == req[r].loan IN
    /\ req[r].pc = "assessing"
    /\ Goto(r, "done")
    /\ IF l \in boarded
       THEN /\ pastDue' = [pastDue EXCEPT ![l] = @ + req[r].read + LateFee]
            /\ assessed' = [assessed EXCEPT ![l] = @ + LateFee]
            /\ WritesPastDue(r, l)
       ELSE UNCHANGED <<pastDue, assessed, raced>>
    /\ UNCHANGED <<boarded, balance, applied, corrected, waived>>

AssessWrite(r) ==
    LET l == req[r].loan IN
    /\ req[r].pc = "assessing"
    /\ Goto(r, "done")
    /\ IF l \in boarded
       THEN /\ pastDue' = [pastDue EXCEPT ![l] = req[r].read + LateFee]
            /\ assessed' = [assessed EXCEPT ![l] = @ + LateFee]
            /\ WritesPastDue(r, l)
       ELSE UNCHANGED <<pastDue, assessed, raced>>
    /\ UNCHANGED <<boarded, balance, applied, corrected, waived>>

(* The handler's process dies, or its officer leaves the page.             *)
Die(r) ==
    /\ req[r].pc \in {"quoted", "refusing", "refused", "assessing"}
    /\ Goto(r, "dead")
    /\ UNCHANGED <<columns, record, raced>>

Next ==
    \/ \E l \in Loans : Board(l)
    \/ \E r \in Requests :
        \/ Quote(r)
        \/ \E v \in Corrections : Adjust(r, v)
        \/ AdjustMovesNothing(r)
        \/ Refuse(r)
        \/ \E a \in Amounts : ApplyPayment(r, a) \/ WaiveFee(r, a)
        \/ AssessRead(r)
        \/ AssessWrite(r)
        \/ Die(r)

Spec == Init /\ [][Next]_vars

-----------------------------------------------------------------------------
(* No movement of the balance is overwritten: concurrent payments all      *)
(* count, and a correction moves the balance by exactly what its officer   *)
(* saw himself change, whatever happened between the quote and the submit  *)
(* (_APPLY_SQL, adjust_balance; D3 and D32 of the debt log).               *)
BalanceKeepsEveryMovement ==
    \A l \in boarded : balance[l] = Principal + corrected[l] - applied[l]

(* past_due is the fees assessed less the fees waived, as long as nothing  *)
(* wrote it between an assessment's SELECT and its UPDATE (waive_fee,      *)
(* assess_late_fee).                                                       *)
PastDueExactUnlessRaced ==
    \A l \in Loans \ raced : pastDue[l] = assessed[l] - waived[l]

-----------------------------------------------------------------------------
(* The inductive strengthening: what an assessment has read is still true  *)
(* of a loan that no write has raced.                                      *)
ReadIsCurrent ==
    \A r \in Requests :
        req[r].pc = "assessing" /\ req[r].loan \notin raced
            => req[r].read = pastDue[req[r].loan]

UnboardedIsZero ==
    \A l \in Loans \ boarded : pastDue[l] = 0 /\ corrected[l] = 0 /\ applied[l] = 0

AccountInv ==
    /\ TypeOK
    /\ ReadIsCurrent
    /\ UnboardedIsZero
    /\ BalanceKeepsEveryMovement
    /\ PastDueExactUnlessRaced

=============================================================================
