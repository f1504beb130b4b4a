--------------------------- MODULE PaymentsProofs ---------------------------
(***************************************************************************)
(* Proofs about Payments, for every set of requests, keys, loans, amounts  *)
(* and payment ids.                                                        *)
(***************************************************************************)
EXTENDS Payments, FiniteSetTheorems, WellFoundedInduction, TLAPS

(* Init establishes the types of Payments' variables. *)
LEMMA InitTypeOK == Init => TypeOK
BY ConstantsAssumption
   DEF Init, TypeOK, Idle, Request, PCs, Doors, Kinds, Statuses, CallStates

(* The apply statement, whoever sends it, adds at most the one application *)
(* of an eligible payment that had none, and keeps the ledger's types.     *)
LEMMA ApplyEffect ==
    ASSUME TypeOK, RowInv, NEW p \in PaymentIds, NEW l \in Loans,
           ApplyStatement(p, l)
    PROVE  /\ applications' \in SUBSET Application
           /\ balance' \in [Loans -> Int]
           /\ boarded' = boarded
           /\ applications \subseteq applications'
           /\ \A a \in applications' :
                  \/ a \in applications
                  \/ /\ Credits(p, l)
                     /\ a = [payment |-> p, loan |-> l, amount |-> terms[p].amount]
           /\ Credits(p, l) => \E a \in applications' : a.payment = p /\ a.loan = l
<1>1. CASE Credits(p, l)
  <2>1. terms[p] \in Terms
    BY <1>1 DEF Credits, Eligible, RowInv, CreditingStatuses
  <2>2. terms[p].amount \in Amounts /\ terms[p].amount \in Int
    BY <2>1, ConstantsAssumption DEF Terms
  <2>3. [payment |-> p, loan |-> l, amount |-> terms[p].amount] \in Application
    BY <2>2 DEF Application
  <2>4. balance' \in [Loans -> Int]
    BY <1>1, <2>2 DEF ApplyStatement, TypeOK
  <2>5. QED
    BY <1>1, <2>3, <2>4 DEF ApplyStatement, TypeOK
<1>2. CASE ~Credits(p, l)
  BY <1>2 DEF ApplyStatement, TypeOK, ledger
<1>3. QED
  BY <1>1, <1>2

(* Replacing one request's control state keeps the type of req. *)
LEMMA SetType ==
    ASSUME TypeOK, NEW r \in Requests, NEW q \in Request, Set(r, q)
    PROVE  req' \in [Requests -> Request]
BY DEF TypeOK, Set

(* A request that moves on keeps its type (Goto).                          *)
LEMMA GotoType ==
    ASSUME TypeOK, NEW r \in Requests, NEW pc \in PCs, Goto(r, pc)
    PROVE  req' \in [Requests -> Request]
<1>1. req[r] \in Request
  BY DEF TypeOK
<1>2. [req[r] EXCEPT !.pc = pc] \in Request
  BY <1>1 DEF Request
<1>3. QED
  BY <1>2, SetType DEF Goto

(* And so does one that answers from a row (AnswerFrom).                   *)
LEMMA AnswerType ==
    ASSUME TypeOK, NEW r \in Requests, NEW p \in PaymentIds,
           NEW s \in Statuses \cup {"absent"}, AnswerFrom(r, p, s)
    PROVE  req' \in [Requests -> Request]
<1> DEFINE kind == Verdict(r, p, s)
<1> DEFINE rep == IF kind = "replay" THEN s ELSE "absent"
<1>1. req[r] \in Request
  BY DEF TypeOK
<1>2. kind \in Kinds
  BY DEF Verdict, Kinds
<1>3. rep \in Statuses \cup {"absent"}
  OBVIOUS
<1>4. Set(r, [req[r] EXCEPT !.pc = "done", !.seen = p, !.seenStatus = s, !.kind = kind,
                            !.reported = rep])
  BY DEF AnswerFrom
<1> HIDE DEF kind, rep
<1>5. [req[r] EXCEPT !.pc = "done", !.seen = p, !.seenStatus = s, !.kind = kind,
                     !.reported = rep] \in Request
  BY <1>1, <1>2, <1>3 DEF Request, PCs
<1>6. QED
  BY <1>4, <1>5, SetType

(* Every handler step and every environment step of the capture path       *)
(* preserves the types of the tables, the requests and the calls.          *)
LEMMA NextTypeOK ==
    ASSUME TypeOK, RowInv, OwnerInv, CallInv, SeenInv, [Next]_vars
    PROVE  TypeOK'
<1> USE DEF TypeOK, table, ledger
<1>0. \A r \in Requests : req[r] \in Request
  OBVIOUS
<1>1. ASSUME NEW r \in Requests, NEW d \in Doors, NEW k \in Keys, NEW t \in Terms,
             Start(r, d, k, t)
      PROVE  TypeOK'
  <2>1. [Idle EXCEPT !.pc = "claim", !.door = d, !.key = k, !.terms = t] \in Request
    BY DEF Idle, Request, PCs, Kinds
  <2>2. QED
    BY <1>1, <2>1, SetType DEF Start
<1>2. ASSUME NEW r \in Requests, NEW p \in PaymentIds, ClaimWins(r, p)
      PROVE  TypeOK'
  <2>1. [req[r] EXCEPT !.pc = "finalize", !.payment = p] \in Request
    BY <1>0 DEF Request, PCs
  <2>2. req' \in [Requests -> Request]
    BY <1>2, <2>1, SetType DEF ClaimWins
  <2>3. req[r].key \in Keys \cup {NoKey} /\ req[r].terms \in Terms \cup {NoTerms}
    BY <1>0 DEF Request
  <2>4. QED
    BY <1>2, <2>2, <2>3 DEF ClaimWins, Insert, Statuses
<1>3. ASSUME NEW r \in Requests, NEW p \in PaymentIds, ReadFinds(r, p)
      PROVE  TypeOK'
  <2>1. [req[r] EXCEPT !.pc = "retire", !.seen = p, !.seenStatus = status[p]] \in Request
    BY <1>0 DEF Request, PCs
  <2>2. req' \in [Requests -> Request]
    BY <1>3, <2>1, SetType, AnswerType DEF ReadFinds
  <2>3. QED
    BY <1>3, <2>2 DEF ReadFinds
<1>4. ASSUME NEW r \in Requests, NEW p \in PaymentIds, Retire(r, p)
      PROVE  TypeOK'
  <2>1. req' \in [Requests -> Request]
    BY <1>4, GotoType DEF Retire, PCs
  <2>2. QED
    BY <1>4, <2>1 DEF Retire
<1>5. ASSUME NEW r \in Requests, ClaimLoses(r)
      PROVE  TypeOK'
  <2>1. AfterLostClaim[req[r].pc] \in PCs
    BY <1>5 DEF ClaimLoses, ClaimPCs, AfterLostClaim, PCs
  <2>2. QED
    BY <1>5, <2>1, GotoType DEF ClaimLoses
<1>6. ASSUME NEW r \in Requests, ReadMisses(r)
      PROVE  TypeOK'
  <2>1. [req[r] EXCEPT !.pc = "done", !.kind = "in_flight"] \in Request
    BY <1>0 DEF Request, PCs, Kinds
  <2>2. req' \in [Requests -> Request]
    BY <1>6, <2>1, SetType, GotoType DEF ReadMisses, PCs
  <2>3. QED
    BY <1>6, <2>2 DEF ReadMisses
<1>7. ASSUME NEW r \in Requests, RetireMovesNothing(r)
      PROVE  TypeOK'
  BY <1>7, GotoType DEF RetireMovesNothing, PCs
<1>8. ASSUME NEW r \in Requests, ReadCurrent(r)
      PROVE  TypeOK'
  <2>1. req[r].seen \in PaymentIds /\ req[r].seenStatus \in Statuses \cup {"absent"}
    BY <1>0, <1>8 DEF ReadCurrent, SeenInv, Request
  <2>2. req' \in [Requests -> Request]
    BY <1>8, <2>1, AnswerType DEF ReadCurrent
  <2>3. QED
    BY <1>8, <2>2 DEF ReadCurrent
<1>9. ASSUME NEW r \in Requests, FinalizeCaptured(r)
      PROVE  TypeOK'
  <2>1. req' \in [Requests -> Request]
    BY <1>9, GotoType DEF FinalizeCaptured, PCs
  <2>2. QED
    BY <1>9, <2>1 DEF FinalizeCaptured, SetStatus, Statuses
<1>10. ASSUME NEW r \in Requests, CallApply(r)
       PROVE  TypeOK'
  <2>1. req' \in [Requests -> Request]
    BY <1>10, GotoType DEF CallApply, PCs
  <2>2. QED
    BY <1>10, <2>1 DEF CallApply, CallStates
<1>11. ASSUME NEW r \in Requests, Confirmed(r)
       PROVE  TypeOK'
  <2>1. [req[r] EXCEPT !.pc = "done", !.kind = "claimed", !.reported = "captured"]
            \in Request
    BY <1>0 DEF Request, PCs, Kinds, Statuses
  <2>2. QED
    BY <1>11, <2>1, SetType DEF Confirmed
<1>12. ASSUME NEW r \in Requests, Refused(r) \/ GiveUp(r)
       PROVE  TypeOK'
  BY <1>12, GotoType DEF Refused, GiveUp, PCs
<1>13. ASSUME NEW r \in Requests, FinalizeUnapplied(r)
       PROVE  TypeOK'
  <2>1. [req[r] EXCEPT !.pc = "done", !.kind = "claimed",
                       !.reported = "captured_unapplied"] \in Request
    BY <1>0 DEF Request, PCs, Kinds, Statuses
  <2>2. req' \in [Requests -> Request]
    BY <1>13, <2>1, SetType DEF FinalizeUnapplied
  <2>3. QED
    BY <1>13, <2>2 DEF FinalizeUnapplied, SetStatus, Statuses
<1>14. ASSUME NEW r \in Requests, ServeApply(r)
       PROVE  TypeOK'
  <2>1. UNCHANGED <<table, req>> /\ call' \in [Requests -> CallStates]
    BY <1>14 DEF ServeApply, CallStates
  <2>2. req[r].payment \in PaymentIds
    BY <1>14 DEF ServeApply, CallInv
  <2>3. req[r].terms \in Terms
    BY <2>2, ConstantsAssumption DEF OwnerInv, Unclaimed
  <2>4. req[r].terms.loan \in Loans
    BY <2>3 DEF Terms
  <2>5. /\ applications' \in SUBSET Application
        /\ balance' \in [Loans -> Int]
        /\ boarded' = boarded
    BY <1>14, <2>2, <2>4, ApplyEffect DEF ServeApply
  <2>6. QED
    BY <2>1, <2>5
<1>15. ASSUME NEW r \in Requests, ServePrior(r)
       PROVE  TypeOK'
  BY <1>15 DEF ServePrior, CallStates
<1>16. ASSUME NEW r \in Requests, Die(r)
       PROVE  TypeOK'
  <2>1. req' \in [Requests -> Request]
    BY <1>16, GotoType DEF Die, PCs
  <2>2. QED
    BY <1>16, <2>1 DEF Die, CallStates
<1>17. ASSUME NEW r \in Requests, LoseCall(r)
       PROVE  TypeOK'
  BY <1>17 DEF LoseCall, CallStates
<1>18. ASSUME NEW p \in PaymentIds, NEW l \in Loans, Redrive(p, l)
       PROVE  TypeOK'
  <2>1. /\ applications' \in SUBSET Application
        /\ balance' \in [Loans -> Int]
        /\ boarded' = boarded
    BY <1>18, ApplyEffect DEF Redrive
  <2>2. QED
    BY <1>18, <2>1 DEF Redrive
<1>19. ASSUME NEW p \in PaymentIds, Expire(p)
       PROVE  TypeOK'
  BY <1>19 DEF Expire
<1>20. ASSUME NEW l \in Loans, BoardBalance(l)
       PROVE  TypeOK'
  BY <1>20 DEF BoardBalance
<1>21. CASE UNCHANGED vars
  BY <1>21 DEF vars
<1>22. QED
  BY <1>1, <1>2, <1>3, <1>4, <1>5, <1>6, <1>7, <1>8, <1>9, <1>10, <1>11, <1>12,
     <1>13, <1>14, <1>15, <1>16, <1>17, <1>18, <1>19, <1>20, <1>21
     DEF Next, Claiming, Capturing, Serving, Environment

-----------------------------------------------------------------------------
(* A served call names a payment row and its own loan. *)
LEMMA CallTarget ==
    ASSUME TypeOK, OwnerInv, CallInv, NEW r \in Requests, call[r] # "none"
    PROVE  /\ req[r].payment \in PaymentIds
           /\ req[r].terms \in Terms
           /\ req[r].terms.loan \in Loans
<1>1. req[r].payment \in PaymentIds
  BY DEF CallInv
<1>2. req[r].terms \in Terms
  BY <1>1, ConstantsAssumption DEF OwnerInv, Unclaimed
<1>3. QED
  BY <1>1, <1>2 DEF Terms

(* Only seven kinds of step touch the columns and rows the table           *)
(* invariants speak of.                                                    *)
LEMMA TableSteps ==
    ASSUME [Next]_vars
    PROVE  \/ \E r \in Requests, p \in PaymentIds : ClaimWins(r, p) \/ Retire(r, p)
           \/ \E r \in Requests : FinalizeCaptured(r) \/ FinalizeUnapplied(r)
           \/ \E r \in Requests : ServeApply(r)
           \/ \E p \in PaymentIds, l \in Loans : Redrive(p, l)
           \/ /\ UNCHANGED <<status, key, terms, claimedUnder, applications>>
              /\ boarded \subseteq boarded'
<1> USE DEF table, ledger
<1>1. CASE UNCHANGED vars
  BY <1>1 DEF vars
<1>2. ASSUME NEW r \in Requests,
             \/ \E d \in Doors, k \in Keys, t \in Terms : Start(r, d, k, t)
             \/ \E p \in PaymentIds : ReadFinds(r, p)
             \/ ClaimLoses(r) \/ ReadMisses(r) \/ RetireMovesNothing(r) \/ ReadCurrent(r)
      PROVE  /\ UNCHANGED <<status, key, terms, claimedUnder, applications>>
             /\ boarded \subseteq boarded'
  BY <1>2 DEF Start, ReadFinds, ClaimLoses, ReadMisses, RetireMovesNothing, ReadCurrent
<1>3. ASSUME NEW r \in Requests,
             \/ CallApply(r) \/ Confirmed(r) \/ Refused(r) \/ GiveUp(r)
             \/ ServePrior(r) \/ Die(r) \/ LoseCall(r)
      PROVE  /\ UNCHANGED <<status, key, terms, claimedUnder, applications>>
             /\ boarded \subseteq boarded'
  BY <1>3 DEF CallApply, Confirmed, Refused, GiveUp, ServePrior, Die, LoseCall
<1>4. ASSUME \/ \E p \in PaymentIds : Expire(p)
             \/ \E l \in Loans : BoardBalance(l)
      PROVE  /\ UNCHANGED <<status, key, terms, claimedUnder, applications>>
             /\ boarded \subseteq boarded'
  BY <1>4 DEF Expire, BoardBalance
<1>5. QED
  BY <1>1, <1>2, <1>3, <1>4
     DEF Next, Claiming, Capturing, Serving, Environment

TableInv == RowInv /\ OneRowPerKey /\ RetiredOnlyIfApplied /\ AppliedOnceAsCaptured

(* An apply statement, from a charge or a re-drive, keeps the table's      *)
(* invariants: it credits only a captured row, and only once.              *)
LEMMA ApplyKeepsTable ==
    ASSUME TypeOK, TableInv, NEW p \in PaymentIds, NEW l \in Loans,
           ApplyStatement(p, l), UNCHANGED table
    PROVE  TableInv'
<1> DEFINE new == [payment |-> p, loan |-> l, amount |-> terms[p].amount]
<1> USE DEF TableInv, table
<1>1. /\ applications \subseteq applications'
      /\ boarded' = boarded
      /\ \A a \in applications' : a \in applications \/ (Credits(p, l) /\ a = new)
  BY ApplyEffect
<1>2. Credits(p, l) =>
          status[p] = "captured" /\ ~Applied(p) /\ l \in boarded /\ terms[p].loan = l
  BY DEF Credits, Eligible, CreditingStatuses, RowInv
<1>3. RowInv'
  BY <1>1, <1>2 DEF RowInv, Applied
<1>4. RetiredOnlyIfApplied'
  BY <1>1 DEF RetiredOnlyIfApplied, Applied
<1>5. Credits(p, l) => terms[p] = [loan |-> l, amount |-> terms[p].amount]
  <2>1. status[p] # "absent" => terms[p] \in Terms
    BY DEF RowInv
  <2>2. QED
    BY <1>2, <2>1 DEF Terms
<1>6. AppliedOnceAsCaptured'
  <2> SUFFICES ASSUME NEW a \in applications'
               PROVE  /\ terms[a.payment] = [loan |-> a.loan, amount |-> a.amount]
                      /\ a.loan \in boarded
                      /\ status[a.payment] \in {"captured", "captured_unapplied"}
                      /\ \A b \in applications' : a.payment = b.payment => a = b
    BY <1>1 DEF AppliedOnceAsCaptured
  <2>1. CASE a \in applications
    BY <2>1, <1>1, <1>2 DEF AppliedOnceAsCaptured, Applied
  <2>2. CASE Credits(p, l) /\ a = new
    BY <2>2, <1>1, <1>2, <1>5 DEF AppliedOnceAsCaptured, Applied
  <2>3. QED
    BY <1>1, <2>1, <2>2
<1>7. QED
  BY <1>3, <1>4, <1>6 DEF OneRowPerKey

(* The insert-first claim, retirement, both finalizations and every apply  *)
(* keep the table's invariants.                                            *)
LEMMA NextTableInv ==
    ASSUME TypeOK, TableInv, OwnerInv, CallInv, [Next]_vars
    PROVE  TableInv'
<1> USE DEF TableInv
<1>1. ASSUME NEW r \in Requests, NEW p \in PaymentIds, ClaimWins(r, p)
      PROVE  TableInv'
  <2>1. /\ status[p] = "absent" /\ ~HasHolder(req[r].key)
        /\ UNCHANGED <<applications, boarded>>
    BY <1>1 DEF ClaimWins, Insert, ledger
  <2>2. req[r].key \in Keys /\ req[r].terms \in Terms
    BY <1>1 DEF ClaimWins, ClaimPCs, OwnerInv
  <2>3. /\ status' = [status EXCEPT ![p] = "processing"]
        /\ key' = [key EXCEPT ![p] = req[r].key]
        /\ terms' = [terms EXCEPT ![p] = req[r].terms]
        /\ claimedUnder' = [claimedUnder EXCEPT ![p] = req[r].key]
    BY <1>1 DEF ClaimWins, Insert
  <2>4. \A a \in applications : a.payment # p
    BY <2>1 DEF RowInv, Applied
  <2>5. RowInv'
    BY <2>1, <2>2, <2>3, <2>4 DEF RowInv, Applied, TypeOK
  <2>6. OneRowPerKey'
    BY <2>1, <2>2, <2>3 DEF OneRowPerKey, HasHolder, TypeOK
  <2>7. RetiredOnlyIfApplied'
    BY <2>1, <2>2, <2>3, ConstantsAssumption DEF RetiredOnlyIfApplied, Applied, TypeOK
  <2>8. \A a \in applications : a.payment \in PaymentIds
    BY DEF TypeOK, Application
  <2>9. AppliedOnceAsCaptured'
    BY <2>1, <2>3, <2>4, <2>8 DEF AppliedOnceAsCaptured, TypeOK
  <2>10. QED
    BY <2>5, <2>6, <2>7, <2>9
<1>2. ASSUME NEW r \in Requests, NEW p \in PaymentIds, Retire(r, p)
      PROVE  TableInv'
  <2>1. /\ key' = [key EXCEPT ![p] = NoKey]
        /\ UNCHANGED <<status, terms, claimedUnder, applications, boarded>>
        /\ Retirable(p)
    BY <1>2 DEF Retire, ledger
  <2>2. Applied(p)
    BY <2>1 DEF Retirable, RowInv
  <2>3. QED
    BY <2>1, <2>2
       DEF RowInv, OneRowPerKey, RetiredOnlyIfApplied, AppliedOnceAsCaptured, Applied, TypeOK
<1>3. ASSUME NEW r \in Requests, FinalizeCaptured(r) \/ FinalizeUnapplied(r)
      PROVE  TableInv'
  <2> DEFINE p == req[r].payment
  <2>1. PICK s \in {"captured", "captured_unapplied"} : SetStatus(p, s)
    BY <1>3 DEF FinalizeCaptured, FinalizeUnapplied
  <2>2. p \in PaymentIds /\ status[p] # "absent"
    BY <1>3 DEF FinalizeCaptured, FinalizeUnapplied, OwnerInv
  <2>3. /\ status' = [status EXCEPT ![p] = s]
        /\ UNCHANGED <<key, terms, claimedUnder, applications, boarded>>
    BY <1>3, <2>1 DEF SetStatus, FinalizeCaptured, FinalizeUnapplied, ledger
  <2> HIDE DEF p
  <2>4. \A a \in applications : a.payment \in PaymentIds
    BY DEF TypeOK, Application
  <2>5. QED
    BY <2>2, <2>3, <2>4
       DEF RowInv, OneRowPerKey, RetiredOnlyIfApplied, AppliedOnceAsCaptured, Applied, TypeOK
<1>4. ASSUME NEW r \in Requests, ServeApply(r)
      PROVE  TableInv'
  <2>1. req[r].payment \in PaymentIds /\ req[r].terms.loan \in Loans
    BY <1>4, CallTarget DEF ServeApply
  <2>2. QED
    BY <1>4, <2>1, ApplyKeepsTable DEF ServeApply
<1>5. ASSUME NEW p \in PaymentIds, NEW l \in Loans, Redrive(p, l)
      PROVE  TableInv'
  BY <1>5, ApplyKeepsTable DEF Redrive
<1>6. ASSUME UNCHANGED <<status, key, terms, claimedUnder, applications>>,
             boarded \subseteq boarded'
      PROVE  TableInv'
  BY <1>6 DEF RowInv, OneRowPerKey, RetiredOnlyIfApplied, AppliedOnceAsCaptured, Applied
<1>7. QED
  BY <1>1, <1>2, <1>3, <1>4, <1>5, <1>6, TableSteps

-----------------------------------------------------------------------------
(* Applications are append-only, rows are never deleted, and a row's terms *)
(* never change.                                                           *)
LEMMA Monotone ==
    ASSUME TypeOK, TableInv, OwnerInv, CallInv, [Next]_vars
    PROVE  /\ applications \subseteq applications'
           /\ \A p \in PaymentIds : status[p] # "absent" =>
                  status'[p] # "absent" /\ terms'[p] = terms[p]
<1> USE DEF TypeOK
<1>1. ASSUME NEW r \in Requests, NEW p \in PaymentIds, ClaimWins(r, p) \/ Retire(r, p)
      PROVE  /\ applications \subseteq applications'
             /\ \A q \in PaymentIds : status[q] # "absent" =>
                    status'[q] # "absent" /\ terms'[q] = terms[q]
  BY <1>1 DEF ClaimWins, Insert, Retire, ledger
<1>2. ASSUME NEW r \in Requests, FinalizeCaptured(r) \/ FinalizeUnapplied(r)
      PROVE  /\ applications \subseteq applications'
             /\ \A q \in PaymentIds : status[q] # "absent" =>
                    status'[q] # "absent" /\ terms'[q] = terms[q]
  BY <1>2 DEF FinalizeCaptured, FinalizeUnapplied, SetStatus, ledger
<1>3. ASSUME NEW r \in Requests, ServeApply(r)
      PROVE  UNCHANGED <<status, terms>> /\ applications \subseteq applications'
  BY <1>3, CallTarget, ApplyEffect DEF ServeApply, TableInv, table
<1>4. ASSUME NEW p \in PaymentIds, NEW l \in Loans, Redrive(p, l)
      PROVE  UNCHANGED <<status, terms>> /\ applications \subseteq applications'
  BY <1>4, ApplyEffect DEF Redrive, TableInv, table
<1>5. QED
  BY <1>1, <1>2, <1>3, <1>4, TableSteps

(* An answer from a row leaves the request's own key, terms and payment.   *)
LEMMA AnswerEffect ==
    ASSUME TypeOK, NEW r \in Requests, NEW p, NEW s, AnswerFrom(r, p, s)
    PROVE  /\ req'[r].pc = "done" /\ req'[r].payment = req[r].payment
           /\ req'[r].terms = req[r].terms /\ req'[r].key = req[r].key
           /\ req'[r].seen = p /\ req'[r].kind = Verdict(r, p, s)
           /\ \A q \in Requests : q # r => req'[q] = req[q]
<1> DEFINE kind == Verdict(r, p, s)
<1> DEFINE rep == IF kind = "replay" THEN s ELSE "absent"
<1>1. req[r] \in Request /\ req \in [Requests -> Request]
  BY DEF TypeOK
<1>2. Set(r, [req[r] EXCEPT !.pc = "done", !.seen = p, !.seenStatus = s, !.kind = kind,
                            !.reported = rep])
  BY DEF AnswerFrom
<1> HIDE DEF rep
<1>3. req'[r] = [req[r] EXCEPT !.pc = "done", !.seen = p, !.seenStatus = s, !.kind = kind,
                               !.reported = rep]
  BY <1>1, <1>2 DEF Set
<1>4. \A q \in Requests : q # r => req'[q] = req[q]
  BY <1>1, <1>2 DEF Set
<1> HIDE DEF kind
<1>5. /\ req'[r].pc = "done" /\ req'[r].payment = req[r].payment
      /\ req'[r].terms = req[r].terms /\ req'[r].key = req[r].key
      /\ req'[r].seen = p /\ req'[r].kind = kind
  BY <1>1, <1>3 DEF Request
<1>6. QED
  BY <1>4, <1>5 DEF kind

(* A plain move to another point of the handler changes nothing but that.  *)
LEMMA GotoEffect ==
    ASSUME TypeOK, NEW r \in Requests, NEW pc, Goto(r, pc)
    PROVE  /\ req'[r].pc = pc /\ req'[r].payment = req[r].payment
           /\ req'[r].terms = req[r].terms /\ req'[r].key = req[r].key
           /\ req'[r].seen = req[r].seen /\ req'[r].kind = req[r].kind
           /\ req'[r].reported = req[r].reported
           /\ \A q \in Requests : q # r => req'[q] = req[q]
<1>1. req[r] \in Request /\ req \in [Requests -> Request]
  BY DEF TypeOK
<1>2. QED
  BY <1>1 DEF Goto, Set, Request

(* A request that has claimed nothing moves within claim_or_branch, or is   *)
(* answered: nobody's ownership of a row changes.                          *)
LEMMA StillUnclaimed ==
    ASSUME TypeOK, OwnerInv, NEW r \in Requests, UNCHANGED <<status, terms>>,
           req[r].pc \in Unclaimed \ {"idle"},
           req'[r].pc \in (Unclaimed \ {"idle"}) \cup {"done"},
           req'[r].payment = req[r].payment,
           req'[r].terms = req[r].terms, req'[r].key = req[r].key,
           \A s \in Requests : s # r => req'[s] = req[s]
    PROVE  OwnerInv'
<1>1. req'[r].payment = NoPayment /\ req'[r].key \in Keys /\ req'[r].terms \in Terms
  BY DEF OwnerInv
<1>2. \A s \in Requests : req'[s].payment = req[s].payment
  OBVIOUS
<1>3. req'[r].pc \notin {"finalize", "apply", "waiting", "unapplied"}
  BY DEF Unclaimed
<1>4. \A s, q \in Requests :
          req'[s].payment = req'[q].payment /\ req'[s].payment # NoPayment => s = q
  BY <1>2 DEF OwnerInv
<1>5. ASSUME NEW s \in Requests
      PROVE  /\ req'[s].pc # "idle" => req'[s].key \in Keys /\ req'[s].terms \in Terms
             /\ req'[s].payment \in PaymentIds =>
                    /\ status[req'[s].payment] # "absent"
                    /\ terms[req'[s].payment] = req'[s].terms
             /\ req'[s].pc \in Unclaimed => req'[s].payment = NoPayment
             /\ req'[s].pc = "finalize" =>
                    req'[s].payment \in PaymentIds /\ status[req'[s].payment] = "processing"
             /\ req'[s].pc \in {"apply", "waiting", "unapplied"} =>
                    req'[s].payment \in PaymentIds /\ status[req'[s].payment] = "captured"
  <2>1. CASE s = r
    BY <2>1, <1>1, <1>3, ConstantsAssumption
  <2>2. CASE s # r
    BY <2>2 DEF OwnerInv
  <2>3. QED
    BY <2>1, <2>2
<1>6. QED
  BY <1>4, <1>5 DEF OwnerInv

(* Each request that claimed a row stays its only owner, and the row's     *)
(* status follows the owner's progress through charge: no other request's  *)
(* statement moves a row whose charge is under way.                        *)
LEMMA NextOwnerInv ==
    ASSUME TypeOK, TableInv, OwnerInv, CallInv, [Next]_vars
    PROVE  OwnerInv'
<1> USE DEF TypeOK
<1>0. /\ \A p \in PaymentIds : status[p] # "absent" =>
             status'[p] # "absent" /\ terms'[p] = terms[p]
      /\ \A r \in Requests : req[r] \in Request
  BY Monotone
<1>1. ASSUME NEW r \in Requests, NEW d \in Doors, NEW k \in Keys, NEW t \in Terms,
             Start(r, d, k, t)
      PROVE  OwnerInv'
  BY <1>1, <1>0, ConstantsAssumption DEF Start, Set, Idle, OwnerInv, Unclaimed, table
<1>2. ASSUME NEW r \in Requests, NEW p \in PaymentIds, ClaimWins(r, p)
      PROVE  OwnerInv'
  <2>1. /\ req' = [req EXCEPT ![r] = [req[r] EXCEPT !.pc = "finalize", !.payment = p]]
        /\ status' = [status EXCEPT ![p] = "processing"]
        /\ terms' = [terms EXCEPT ![p] = req[r].terms]
        /\ status[p] = "absent"
        /\ req[r].pc \in ClaimPCs
    BY <1>2 DEF ClaimWins, Set, Insert
  <2>2. /\ req'[r].pc = "finalize" /\ req'[r].payment = p
        /\ req'[r].terms = req[r].terms /\ req'[r].key = req[r].key
        /\ \A s \in Requests : s # r => req'[s] = req[s]
    BY <2>1, <1>0 DEF Request
  <2>3. \A s \in Requests : req[s].payment # p
    BY <2>1 DEF OwnerInv
  <2>4. req[r].key \in Keys /\ req[r].terms \in Terms
    BY <2>1 DEF OwnerInv, ClaimPCs
  <2>5. QED
    BY <2>1, <2>2, <2>3, <2>4, ConstantsAssumption DEF OwnerInv, Unclaimed
<1>3. ASSUME NEW r \in Requests, NEW p \in PaymentIds, ReadFinds(r, p)
      PROVE  OwnerInv'
  <2>1. req[r].pc \in {"read", "reread"} /\ UNCHANGED <<status, terms>>
    BY <1>3 DEF ReadFinds, table
  <2>2. CASE p \in expired /\ status[p] \in TerminalStatuses
    <3>1. Set(r, [req[r] EXCEPT !.pc = "retire", !.seen = p, !.seenStatus = status[p]])
      BY <1>3, <2>2 DEF ReadFinds
    <3>2. /\ req'[r].pc = "retire" /\ req'[r].payment = req[r].payment
          /\ req'[r].terms = req[r].terms /\ req'[r].key = req[r].key
          /\ \A s \in Requests : s # r => req'[s] = req[s]
      BY <1>0, <3>1 DEF Set, Request
    <3>3. QED
      BY <2>1, <3>2, StillUnclaimed DEF Unclaimed
  <2>3. CASE AnswerFrom(r, p, status[p])
    BY <2>1, <2>3, AnswerEffect, StillUnclaimed DEF Unclaimed
  <2>4. QED
    BY <1>3, <2>2, <2>3 DEF ReadFinds
<1>4. ASSUME NEW r \in Requests,
             \/ \E p \in PaymentIds : Retire(r, p)
             \/ RetireMovesNothing(r) \/ ClaimLoses(r) \/ ReadMisses(r)
      PROVE  OwnerInv'
  <2>1. /\ UNCHANGED <<status, terms>>
        /\ \/ \E pc \in Unclaimed \ {"idle"} : Goto(r, pc)
           \/ Set(r, [req[r] EXCEPT !.pc = "done", !.kind = "in_flight"])
    BY <1>4 DEF Retire, RetireMovesNothing, ClaimLoses, ReadMisses, ClaimPCs,
       AfterLostClaim, Unclaimed, table
  <2>2. req[r].pc \in Unclaimed \ {"idle"}
    BY <1>4 DEF Retire, RetireMovesNothing, ClaimLoses, ReadMisses, ClaimPCs, Unclaimed
  <2>3. /\ req'[r].pc \in (Unclaimed \ {"idle"}) \cup {"done"}
        /\ req'[r].payment = req[r].payment
        /\ req'[r].terms = req[r].terms /\ req'[r].key = req[r].key
        /\ \A s \in Requests : s # r => req'[s] = req[s]
    <3>1. CASE \E pc \in Unclaimed \ {"idle"} : Goto(r, pc)
      BY <3>1, GotoEffect
    <3>2. CASE Set(r, [req[r] EXCEPT !.pc = "done", !.kind = "in_flight"])
      BY <1>0, <3>2 DEF Set, Request
    <3>3. QED
      BY <2>1, <3>1, <3>2
  <2>4. QED
    BY <2>1, <2>2, <2>3, StillUnclaimed
<1>5. ASSUME NEW r \in Requests, ReadCurrent(r)
      PROVE  OwnerInv'
  <2>1. PICK p, s : AnswerFrom(r, p, s)
    BY <1>5 DEF ReadCurrent
  <2>2. req[r].pc = "read_current" /\ UNCHANGED <<status, terms>>
    BY <1>5 DEF ReadCurrent, table
  <2>3. QED
    BY <2>1, <2>2, AnswerEffect, StillUnclaimed DEF Unclaimed
<1>6. ASSUME NEW r \in Requests, FinalizeCaptured(r)
      PROVE  OwnerInv'
  <2>1. /\ req'[r].pc = "apply" /\ req'[r].payment = req[r].payment
        /\ req'[r].terms = req[r].terms /\ req'[r].key = req[r].key
        /\ \A s \in Requests : s # r => req'[s] = req[s]
    BY <1>6, <1>0 DEF FinalizeCaptured, Goto, Set, Request
  <2>2. /\ req[r].pc = "finalize" /\ terms' = terms
        /\ status' = [status EXCEPT ![req[r].payment] = "captured"]
    BY <1>6 DEF FinalizeCaptured, SetStatus
  <2>3. QED
    BY <2>1, <2>2, ConstantsAssumption DEF OwnerInv, Unclaimed
<1>7. ASSUME NEW r \in Requests, CallApply(r) \/ Refused(r) \/ GiveUp(r)
      PROVE  OwnerInv'
  <2>1. /\ req'[r].pc \in {"waiting", "unapplied"} /\ req'[r].payment = req[r].payment
        /\ req'[r].terms = req[r].terms /\ req'[r].key = req[r].key
        /\ \A s \in Requests : s # r => req'[s] = req[s]
    BY <1>7, <1>0 DEF CallApply, Refused, GiveUp, Goto, Set, Request
  <2>2. req[r].pc \in {"apply", "waiting"} /\ UNCHANGED <<status, terms>>
    BY <1>7 DEF CallApply, Refused, GiveUp, table
  <2>3. QED
    BY <2>1, <2>2, ConstantsAssumption DEF OwnerInv, Unclaimed
<1>8. ASSUME NEW r \in Requests, Confirmed(r)
      PROVE  OwnerInv'
  <2>1. /\ req'[r].pc = "done" /\ req'[r].payment = req[r].payment
        /\ req'[r].terms = req[r].terms /\ req'[r].key = req[r].key
        /\ \A s \in Requests : s # r => req'[s] = req[s]
    BY <1>8, <1>0 DEF Confirmed, Set, Request
  <2>2. req[r].pc = "waiting" /\ UNCHANGED <<status, terms>>
    BY <1>8 DEF Confirmed, table
  <2>3. QED
    BY <2>1, <2>2, ConstantsAssumption DEF OwnerInv, Unclaimed
<1>9. ASSUME NEW r \in Requests, FinalizeUnapplied(r)
      PROVE  OwnerInv'
  <2>1. /\ req'[r].pc = "done" /\ req'[r].payment = req[r].payment
        /\ req'[r].terms = req[r].terms /\ req'[r].key = req[r].key
        /\ \A s \in Requests : s # r => req'[s] = req[s]
    BY <1>9, <1>0 DEF FinalizeUnapplied, Set, Request
  <2>2. /\ req[r].pc = "unapplied" /\ terms' = terms
        /\ status' = [status EXCEPT ![req[r].payment] = "captured_unapplied"]
    BY <1>9 DEF FinalizeUnapplied, SetStatus
  <2>3. QED
    BY <2>1, <2>2, ConstantsAssumption DEF OwnerInv, Unclaimed
<1>10. ASSUME NEW r \in Requests, Die(r)
       PROVE  OwnerInv'
  <2>1. /\ req'[r].pc = "dead" /\ req'[r].payment = req[r].payment
        /\ req'[r].terms = req[r].terms /\ req'[r].key = req[r].key
        /\ \A s \in Requests : s # r => req'[s] = req[s]
    BY <1>10, <1>0 DEF Die, Goto, Set, Request
  <2>2. req[r].pc # "idle" /\ UNCHANGED <<status, terms>>
    BY <1>10 DEF Die, table
  <2>3. QED
    BY <2>1, <2>2, ConstantsAssumption DEF OwnerInv, Unclaimed
<1>11. ASSUME UNCHANGED <<req, status, terms>>
       PROVE  OwnerInv'
  BY <1>11 DEF OwnerInv
<1>12. ASSUME NEW r \in Requests, Serving(r) \/ LoseCall(r)
       PROVE  UNCHANGED <<req, status, terms>>
  BY <1>12 DEF Serving, ServeApply, ServePrior, LoseCall, table
<1>13. ASSUME \/ \E p \in PaymentIds : Expire(p) \/ \E l \in Loans : Redrive(p, l)
              \/ \E l \in Loans : BoardBalance(l)
       PROVE  UNCHANGED <<req, status, terms>>
  BY <1>13 DEF Expire, Redrive, BoardBalance, table
<1>14. CASE UNCHANGED vars
  BY <1>14, <1>11 DEF vars, table
<1>15. QED
  BY <1>1, <1>2, <1>3, <1>4, <1>5, <1>6, <1>7, <1>8, <1>9, <1>10, <1>11, <1>12, <1>13,
     <1>14
     DEF Next, Claiming, Capturing, Environment

-----------------------------------------------------------------------------
(* A step that leaves the apply calls alone keeps what is known of them, as *)
(* long as the requests that called keep their payment.                    *)
LEMMA CallsKept ==
    ASSUME CallInv, call' = call, applications \subseteq applications',
           \A s \in Requests :
               call[s] # "none" => /\ req'[s].payment = req[s].payment
                                   /\ req'[s].terms = req[s].terms,
           \A s \in Requests :
               req'[s].pc \in Unclaimed \cup {"finalize", "apply"} => call[s] = "none"
    PROVE  CallInv'
BY DEF CallInv, CreditedTo

(* An apply call is made only by a request that captured its own payment,  *)
(* and is answered 200 only when that payment is credited to the loan the  *)
(* request named.                                                          *)
LEMMA NextCallInv ==
    ASSUME TypeOK, TableInv, OwnerInv, CallInv, [Next]_vars
    PROVE  CallInv'
<1>0. /\ applications \subseteq applications'
      /\ req \in [Requests -> Request]
      /\ \A r \in Requests : req[r] \in Request
  BY Monotone DEF TypeOK
<1>1. ASSUME NEW r \in Requests, NEW d \in Doors, NEW k \in Keys, NEW t \in Terms,
             Start(r, d, k, t)
      PROVE  CallInv'
  <2>1. /\ call' = call /\ call[r] = "none"
        /\ \A s \in Requests : s # r => req'[s] = req[s]
    BY <1>1, <1>0 DEF Start, Set, CallInv, Unclaimed
  <2>2. QED
    BY <1>0, <2>1, CallsKept DEF CallInv
<1>2. ASSUME NEW r \in Requests, Claiming(r)
      PROVE  CallInv'
  <2>1. call' = call /\ req[r].pc \in Unclaimed
    BY <1>2 DEF Claiming, ClaimWins, ReadFinds, Retire, ClaimLoses, ReadMisses,
       RetireMovesNothing, ReadCurrent, ClaimPCs, Unclaimed
  <2>2. \A s \in Requests : s # r => req'[s] = req[s]
    <3>1. CASE \E p \in PaymentIds : ClaimWins(r, p)
      BY <3>1, <1>0 DEF ClaimWins, Set
    <3>2. CASE \E p \in PaymentIds : ReadFinds(r, p)
      <4>1. PICK q : Set(r, q)
        BY <3>2 DEF ReadFinds, AnswerFrom
      <4>2. QED
        BY <4>1, <1>0 DEF Set
    <3>3. CASE \E p \in PaymentIds : Retire(r, p)
      BY <3>3, <1>0 DEF Retire, Goto, Set
    <3>4. CASE ClaimLoses(r) \/ ReadMisses(r) \/ RetireMovesNothing(r)
      BY <3>4, <1>0 DEF ClaimLoses, ReadMisses, RetireMovesNothing, Goto, Set
    <3>5. CASE ReadCurrent(r)
      <4>1. PICK p, st : AnswerFrom(r, p, st)
        BY <3>5 DEF ReadCurrent
      <4>2. QED
        BY <4>1, AnswerEffect
    <3>6. QED
      BY <1>2, <3>1, <3>2, <3>3, <3>4, <3>5 DEF Claiming
  <2>3. call[r] = "none"
    BY <2>1 DEF CallInv
  <2>4. QED
    BY <1>0, <2>1, <2>2, <2>3, CallsKept DEF CallInv
<1>3. ASSUME NEW r \in Requests, FinalizeCaptured(r)
      PROVE  CallInv'
  BY <1>3, <1>0, GotoEffect, CallsKept DEF FinalizeCaptured, CallInv
<1>4. ASSUME NEW r \in Requests, CallApply(r)
      PROVE  CallInv'
  <2>1. /\ call' = [call EXCEPT ![r] = "sent"] /\ req[r].pc = "apply"
        /\ req'[r].pc = "waiting" /\ req'[r].payment = req[r].payment
        /\ \A s \in Requests : s # r => req'[s] = req[s]
    BY <1>4, GotoEffect DEF CallApply
  <2>2. req[r].payment \in PaymentIds
    BY <2>1 DEF OwnerInv
  <2>3. \A s \in Requests :
            /\ call'[s] = IF s = r THEN "sent" ELSE call[s]
            /\ req'[s].payment = req[s].payment
    BY <2>1 DEF TypeOK
  <2>4. QED
    BY <1>0, <2>1, <2>2, <2>3 DEF CallInv, CreditedTo, Unclaimed
<1>5. ASSUME NEW r \in Requests, Refused(r) \/ GiveUp(r)
      PROVE  CallInv'
  <2>1. call' = call /\ Goto(r, "unapplied")
    BY <1>5 DEF Refused, GiveUp
  <2>2. \A s \in Requests :
            /\ req'[s].payment = req[s].payment /\ req'[s].terms = req[s].terms
            /\ s # r => req'[s].pc = req[s].pc
    BY <2>1, GotoEffect
  <2>3. req'[r].pc = "unapplied"
    BY <2>1, GotoEffect
  <2>4. QED
    BY <1>0, <2>1, <2>2, <2>3, CallsKept DEF CallInv, Unclaimed
<1>6. ASSUME NEW r \in Requests, Confirmed(r) \/ FinalizeUnapplied(r)
      PROVE  CallInv'
  <2>1. /\ call' = call
        /\ \E rep \in Statuses :
               Set(r, [req[r] EXCEPT !.pc = "done", !.kind = "claimed", !.reported = rep])
    BY <1>6 DEF Confirmed, FinalizeUnapplied, Statuses
  <2>2. \A s \in Requests :
            /\ req'[s].payment = req[s].payment /\ req'[s].terms = req[s].terms
            /\ s # r => req'[s].pc = req[s].pc
    BY <2>1, <1>0 DEF Set, Request
  <2>3. req'[r].pc = "done"
    BY <2>1, <1>0 DEF Set, Request
  <2>4. QED
    BY <1>0, <2>1, <2>2, <2>3, CallsKept DEF CallInv, Unclaimed
<1>7. ASSUME NEW r \in Requests, ServeApply(r)
      PROVE  CallInv'
  <2>1. /\ call[r] = "sent" /\ req' = req
        /\ ApplyStatement(req[r].payment, req[r].terms.loan)
        /\ call' = [call EXCEPT ![r] =
               IF Credits(req[r].payment, req[r].terms.loan) THEN "ok" ELSE "prior"]
    BY <1>7 DEF ServeApply
  <2>2. req[r].payment \in PaymentIds /\ req[r].terms.loan \in Loans
    BY <2>1, CallTarget
  <2>3. Credits(req[r].payment, req[r].terms.loan) => CreditedTo(r)'
    BY <2>1, <2>2, ApplyEffect DEF CreditedTo, TableInv
  <2>4. /\ call'[r] = "ok" => CreditedTo(r)'
        /\ \A s \in Requests : s # r => call'[s] = call[s]
    BY <2>1, <2>3 DEF TypeOK
  <2>5. req[r].pc \notin Unclaimed \cup {"finalize", "apply"}
    BY <2>1 DEF CallInv
  <2>6. QED
    BY <1>0, <2>1, <2>2, <2>4, <2>5 DEF CallInv, CreditedTo
<1>8. ASSUME NEW r \in Requests, ServePrior(r)
      PROVE  CallInv'
  <2> DEFINE mine == {a \in applications : a.payment = req[r].payment}
  <2>1. /\ call[r] = "prior" /\ UNCHANGED <<req, applications>>
        /\ call' = [call EXCEPT ![r] =
               IF mine # {} /\ \A a \in mine : a.loan = req[r].terms.loan
               THEN "ok" ELSE "refused"]
    BY <1>8 DEF ServePrior, ledger
  <2>2. /\ call'[r] = "ok" => mine # {} /\ \A a \in mine : a.loan = req[r].terms.loan
        /\ \A s \in Requests : s # r => call'[s] = call[s]
    BY <2>1 DEF TypeOK
  <2>3. call'[r] = "ok" => CreditedTo(r)'
    BY <2>1, <2>2 DEF CreditedTo
  <2>4. req[r].payment \in PaymentIds /\ req[r].pc \notin Unclaimed \cup {"finalize", "apply"}
    BY <2>1 DEF CallInv
  <2>5. QED
    BY <2>1, <2>2, <2>3, <2>4 DEF CallInv, CreditedTo
<1>9. ASSUME NEW r \in Requests, Die(r) \/ LoseCall(r)
      PROVE  CallInv'
  <2>1. \A s \in Requests : call'[s] = call[s] \/ (call'[s] = "lost" /\ call[s] # "none")
    BY <1>9 DEF Die, LoseCall, TypeOK
  <2>2. \A s \in Requests :
            /\ req'[s].payment = req[s].payment /\ req'[s].terms = req[s].terms
            /\ req'[s].pc = req[s].pc \/ req'[s].pc = "dead"
    BY <1>9, GotoEffect DEF Die, LoseCall
  <2>3. QED
    BY <1>0, <2>1, <2>2 DEF CallInv, CreditedTo, Unclaimed
<1>10. ASSUME UNCHANGED <<req, call>>
       PROVE  CallInv'
  BY <1>10, <1>0 DEF CallInv, CreditedTo
<1>11. ASSUME \/ \E p \in PaymentIds : Expire(p) \/ \E l \in Loans : Redrive(p, l)
              \/ \E l \in Loans : BoardBalance(l)
              \/ UNCHANGED vars
       PROVE  UNCHANGED <<req, call>>
  BY <1>11 DEF Expire, Redrive, BoardBalance, vars
<1>12. QED
  BY <1>1, <1>2, <1>3, <1>4, <1>5, <1>6, <1>7, <1>8, <1>9, <1>10, <1>11
     DEF Next, Capturing, Serving, Environment

-----------------------------------------------------------------------------
ReplyInv == SeenInv /\ ClaimedInv /\ ReplayIsOfSameTerms

(* What a step must establish of the one request it moves; of the others   *)
(* the replies stay true because rows and applications are never undone.   *)
LEMMA RepliesKept ==
    ASSUME TypeOK, TableInv, OwnerInv, CallInv, ReplyInv, [Next]_vars,
           NEW r \in Requests, \A s \in Requests : s # r => req'[s] = req[s],
           /\ req'[r].pc \in {"retire", "claim_retired", "read_current"} =>
                  req'[r].seen \in PaymentIds
           /\ req'[r].kind # "none" => req'[r].pc = "done"
           /\ req'[r].seen \in PaymentIds => status[req'[r].seen] # "absent"
           /\ req'[r].kind = "replay" =>
                  req'[r].seen \in PaymentIds /\ terms[req'[r].seen] = req'[r].terms
           /\ req'[r].kind = "claimed" =>
                  \/ /\ req'[r].reported = "captured"
                     /\ \E a \in applications :
                            a.payment = req'[r].payment /\ a.loan = req'[r].terms.loan
                  \/ req'[r].reported = "captured_unapplied"
    PROVE  ReplyInv'
<1>1. /\ applications \subseteq applications'
      /\ \A p \in PaymentIds : status[p] # "absent" =>
             status'[p] # "absent" /\ terms'[p] = terms[p]
  BY Monotone
<1>2. SeenInv'
  BY <1>1 DEF ReplyInv, SeenInv
<1>3. ClaimedInv'
  <2>1. ASSUME NEW s \in Requests, req'[s].kind = "claimed",
               req'[s].reported # "captured_unapplied"
        PROVE  req'[s].reported = "captured" /\ CreditedTo(s)'
    BY <2>1, <1>1 DEF ReplyInv, ClaimedInv, CreditedTo
  <2>2. QED
    BY <2>1 DEF ClaimedInv
<1>4. ReplayIsOfSameTerms'
  <2>1. ASSUME NEW s \in Requests, req'[s].kind = "replay"
        PROVE  terms'[req'[s].seen] = req'[s].terms
    <3>1. /\ req'[s].seen \in PaymentIds /\ status[req'[s].seen] # "absent"
          /\ terms[req'[s].seen] = req'[s].terms
      BY <2>1 DEF ReplyInv, SeenInv, ReplayIsOfSameTerms
    <3>2. QED
      BY <3>1, <1>1
  <2>2. QED
    BY <2>1 DEF ReplayIsOfSameTerms
<1>5. QED
  BY <1>2, <1>3, <1>4 DEF ReplyInv

(* A request in progress moves on to pc with what it had seen.             *)
LEMMA RepliesKeptByGoto ==
    ASSUME TypeOK, TableInv, OwnerInv, CallInv, ReplyInv, [Next]_vars,
           NEW r \in Requests, req[r].pc # "done", NEW pc, Goto(r, pc),
           pc \in {"retire", "claim_retired", "read_current"} =>
               req[r].pc \in {"retire", "claim_retired", "read_current"}
    PROVE  ReplyInv'
<1>1. req[r].kind = "none"
  BY DEF ReplyInv, SeenInv
<1>2. QED
  BY <1>1, GotoEffect, RepliesKept DEF ReplyInv, SeenInv

(* Whatever row a request answers from, it replays it only for its own     *)
(* terms.                                                                  *)
LEMMA RepliesKeptByAnswer ==
    ASSUME TypeOK, TableInv, OwnerInv, CallInv, ReplyInv, [Next]_vars,
           NEW r \in Requests, NEW p \in PaymentIds, status[p] # "absent", NEW s,
           AnswerFrom(r, p, s)
    PROVE  ReplyInv'
<1>1. /\ req'[r].pc = "done" /\ req'[r].seen = p
      /\ req'[r].kind = Verdict(r, p, s) /\ req'[r].terms = req[r].terms
      /\ \A q \in Requests : q # r => req'[q] = req[q]
  BY AnswerEffect
<1>2. /\ Verdict(r, p, s) # "claimed"
      /\ Verdict(r, p, s) = "replay" => terms[p] = req[r].terms
  BY DEF Verdict
<1>3. QED
  BY <1>1, <1>2, RepliesKept

(* No step falsifies what an answered client was told: a capture it was    *)
(* told of is on the balance, a replay it got is of its own charge.        *)
LEMMA NextReplyInv ==
    ASSUME TypeOK, TableInv, OwnerInv, CallInv, ReplyInv, [Next]_vars
    PROVE  ReplyInv'
<1>0. /\ req \in [Requests -> Request]
      /\ \A r \in Requests : req[r] \in Request
  BY DEF TypeOK
<1>1. ASSUME NEW r \in Requests, NEW d \in Doors, NEW k \in Keys, NEW t \in Terms,
             Start(r, d, k, t)
      PROVE  ReplyInv'
  <2>1. /\ req'[r].pc = "claim" /\ req'[r].kind = "none" /\ req'[r].seen = NoPayment
        /\ \A s \in Requests : s # r => req'[s] = req[s]
    BY <1>1, <1>0 DEF Start, Set, Idle
  <2>2. QED
    BY <2>1, ConstantsAssumption, RepliesKept
<1>2. ASSUME NEW r \in Requests, NEW p \in PaymentIds, ClaimWins(r, p)
      PROVE  ReplyInv'
  <2>1. /\ req[r].pc \in ClaimPCs
        /\ Set(r, [req[r] EXCEPT !.pc = "finalize", !.payment = p])
    BY <1>2 DEF ClaimWins
  <2>2. /\ req'[r].pc = "finalize" /\ req'[r].kind = req[r].kind
        /\ req'[r].seen = req[r].seen
        /\ \A s \in Requests : s # r => req'[s] = req[s]
    BY <2>1, <1>0 DEF Set, Request
  <2>3. req[r].kind = "none"
    BY <2>1 DEF ReplyInv, SeenInv, ClaimPCs
  <2>4. QED
    BY <2>2, <2>3, RepliesKept DEF ReplyInv, SeenInv
<1>3. ASSUME NEW r \in Requests, NEW p \in PaymentIds, ReadFinds(r, p)
      PROVE  ReplyInv'
  <2>1. req[r].pc \in {"read", "reread"} /\ key[p] = req[r].key
    BY <1>3 DEF ReadFinds
  <2>2. status[p] # "absent"
    BY <2>1, ConstantsAssumption DEF TableInv, RowInv, OwnerInv
  <2>3. CASE Set(r, [req[r] EXCEPT !.pc = "retire", !.seen = p, !.seenStatus = status[p]])
    <3>1. /\ req'[r].pc = "retire" /\ req'[r].kind = req[r].kind
          /\ req'[r].seen = p
          /\ \A s \in Requests : s # r => req'[s] = req[s]
      BY <2>3, <1>0 DEF Set, Request
    <3>2. req[r].kind = "none"
      BY <2>1 DEF ReplyInv, SeenInv
    <3>3. QED
      BY <2>2, <3>1, <3>2, RepliesKept
  <2>4. CASE AnswerFrom(r, p, status[p])
    BY <2>2, <2>4, RepliesKeptByAnswer
  <2>5. QED
    BY <1>3, <2>3, <2>4 DEF ReadFinds
<1>4. ASSUME NEW r \in Requests, ReadMisses(r)
      PROVE  ReplyInv'
  <2>1. CASE Goto(r, "reclaim")
    BY <1>4, <2>1, RepliesKeptByGoto DEF ReadMisses
  <2>2. CASE Set(r, [req[r] EXCEPT !.pc = "done", !.kind = "in_flight"])
    <3>1. /\ req'[r].pc = "done" /\ req'[r].kind = "in_flight"
          /\ req'[r].seen = req[r].seen
          /\ \A s \in Requests : s # r => req'[s] = req[s]
      BY <2>2, <1>0 DEF Set, Request
    <3>2. QED
      BY <3>1, RepliesKept DEF ReplyInv, SeenInv
  <2>3. QED
    BY <1>4, <2>1, <2>2 DEF ReadMisses
<1>5. ASSUME NEW r \in Requests,
             \/ \E p \in PaymentIds : Retire(r, p)
             \/ RetireMovesNothing(r) \/ ClaimLoses(r)
      PROVE  ReplyInv'
  <2>1. PICK pc \in PCs : Goto(r, pc) /\ req[r].pc # "done"
            /\ (pc \in {"retire", "claim_retired", "read_current"} =>
                    req[r].pc \in {"retire", "claim_retired", "read_current"})
    BY <1>5 DEF Retire, RetireMovesNothing, ClaimLoses, ClaimPCs, AfterLostClaim, PCs
  <2>2. QED
    BY <2>1, RepliesKeptByGoto
<1>6. ASSUME NEW r \in Requests,
             \/ FinalizeCaptured(r) \/ CallApply(r) \/ Refused(r) \/ GiveUp(r) \/ Die(r)
      PROVE  ReplyInv'
  <2>1. PICK pc \in {"apply", "waiting", "unapplied", "dead"} :
            Goto(r, pc) /\ req[r].pc # "done"
    BY <1>6 DEF FinalizeCaptured, CallApply, Refused, GiveUp, Die
  <2>2. QED
    BY <2>1, RepliesKeptByGoto
<1>7. ASSUME NEW r \in Requests, ReadCurrent(r)
      PROVE  ReplyInv'
  <2>1. req[r].pc = "read_current" /\ req[r].seen \in PaymentIds
        /\ status[req[r].seen] # "absent" /\ req[r].key \in Keys
    BY <1>7 DEF ReadCurrent, ReplyInv, SeenInv, OwnerInv
  <2>2. PICK p, st : p \in PaymentIds /\ AnswerFrom(r, p, st) /\ status[p] # "absent"
    BY <1>7, <2>1, ConstantsAssumption DEF ReadCurrent, TableInv, RowInv
  <2>3. QED
    BY <2>2, RepliesKeptByAnswer
<1>8. ASSUME NEW r \in Requests, Confirmed(r)
      PROVE  ReplyInv'
  <2>1. /\ req'[r].pc = "done" /\ req'[r].kind = "claimed"
        /\ req'[r].reported = "captured"
        /\ req'[r].seen = req[r].seen /\ req'[r].payment = req[r].payment
        /\ req'[r].terms = req[r].terms
        /\ \A s \in Requests : s # r => req'[s] = req[s]
    BY <1>8, <1>0 DEF Confirmed, Set, Request
  <2>2. CreditedTo(r)
    BY <1>8 DEF Confirmed, CallInv
  <2>3. QED
    BY <2>1, <2>2, RepliesKept DEF ReplyInv, SeenInv, CreditedTo
<1>9. ASSUME NEW r \in Requests, FinalizeUnapplied(r)
      PROVE  ReplyInv'
  <2>1. /\ req'[r].pc = "done" /\ req'[r].kind = "claimed"
        /\ req'[r].reported = "captured_unapplied" /\ req'[r].seen = req[r].seen
        /\ \A s \in Requests : s # r => req'[s] = req[s]
    BY <1>9, <1>0 DEF FinalizeUnapplied, Set, Request
  <2>2. QED
    BY <2>1, RepliesKept DEF ReplyInv, SeenInv
<1>10. ASSUME req' = req
       PROVE  ReplyInv'
  BY <1>10, Monotone DEF ReplyInv, SeenInv, ClaimedInv, ReplayIsOfSameTerms, CreditedTo
<1>11. ASSUME \/ \E r \in Requests : Serving(r) \/ LoseCall(r)
              \/ \E p \in PaymentIds : Expire(p) \/ \E l \in Loans : Redrive(p, l)
              \/ \E l \in Loans : BoardBalance(l)
              \/ UNCHANGED vars
       PROVE  req' = req
  BY <1>11 DEF Serving, ServeApply, ServePrior, LoseCall, Expire, Redrive, BoardBalance, vars
<1>12. QED
  BY <1>1, <1>2, <1>3, <1>4, <1>5, <1>6, <1>7, <1>8, <1>9, <1>10, <1>11
     DEF Next, Claiming, Capturing, Environment

-----------------------------------------------------------------------------
(* The inductive invariant holds initially, *)
LEMMA InitIInv == Init => IInv
<1> SUFFICES ASSUME Init PROVE IInv
  OBVIOUS
<1>1. TypeOK
  BY InitTypeOK
<1>2. RowInv /\ OneRowPerKey /\ RetiredOnlyIfApplied /\ AppliedOnceAsCaptured
  BY DEF Init, RowInv, OneRowPerKey, RetiredOnlyIfApplied, AppliedOnceAsCaptured, Applied
<1>3. OwnerInv /\ CallInv /\ SeenInv /\ ClaimedInv /\ ReplayIsOfSameTerms
  BY ConstantsAssumption
     DEF Init, Idle, OwnerInv, CallInv, SeenInv, ClaimedInv, ReplayIsOfSameTerms,
         Unclaimed, CreditedTo
<1>4. QED
  BY <1>1, <1>2, <1>3 DEF IInv

(* and every step of the capture path preserves it.                        *)
LEMMA NextIInv == IInv /\ [Next]_vars => IInv'
<1> SUFFICES ASSUME IInv, [Next]_vars PROVE IInv'
  OBVIOUS
<1> USE DEF IInv, TableInv, ReplyInv
<1>1. TypeOK'
  BY NextTypeOK
<1>2. TableInv'
  BY NextTableInv
<1>3. OwnerInv' /\ CallInv'
  BY NextOwnerInv, NextCallInv
<1>4. ReplyInv'
  BY NextReplyInv
<1>5. QED
  BY <1>1, <1>2, <1>3, <1>4

(* The inductive invariant: tables, requests, calls and replies agree, in  *)
(* every interleaving of any number of requests on either front door.      *)
THEOREM IInvHolds == Spec => []IInv
<1>1. QED
  BY InitIInv, NextIInv, PTL DEF Spec

(* Every variable keeps its type. *)
THEOREM TypeCorrect == Spec => []TypeOK
<1>1. IInv => TypeOK
  BY DEF IInv
<1>2. QED
  BY <1>1, IInvHolds, PTL

(* At most one live payment row per Idempotency-Key (_CLAIM_SQL's partial  *)
(* unique index together with _RETIRE_SQL).                                *)
THEOREM KeysAreExclusive == Spec => []OneRowPerKey
<1>1. IInv => OneRowPerKey
  BY DEF IInv
<1>2. QED
  BY <1>1, IInvHolds, PTL

(* A key is released only by a payment the balance has absorbed            *)
(* (_RETIRE_SQL's EXISTS arm).                                             *)
THEOREM RetirementIsSafe == Spec => []RetiredOnlyIfApplied
<1>1. IInv => RetiredOnlyIfApplied
  BY DEF IInv
<1>2. QED
  BY <1>1, IInvHolds, PTL

(* Of two charges made under one key, one has been credited: no retry,     *)
(* crash, timeout or expired key ever charges a client twice for a payment *)
(* whose fate is unknown (claim_or_branch).                                *)
THEOREM NoDoubleCharge == Spec => []NoSecondChargeWhileUnapplied
<1>1. IInv => NoSecondChargeWhileUnapplied
  <2> SUFFICES ASSUME IInv, NEW p \in PaymentIds, NEW q \in PaymentIds, p # q,
                      claimedUnder[p] = claimedUnder[q], claimedUnder[p] # NoKey
               PROVE  Applied(p) \/ Applied(q)
    BY DEF NoSecondChargeWhileUnapplied
  <2>1. status[p] # "absent" /\ status[q] # "absent"
    BY DEF IInv, RowInv
  <2>2. key[p] = NoKey \/ key[q] = NoKey
    BY <2>1 DEF IInv, RowInv, OneRowPerKey
  <2>3. QED
    BY <2>1, <2>2 DEF IInv, RetiredOnlyIfApplied
<1>2. QED
  BY <1>1, IInvHolds, PTL

(* A payment is applied once, to its own loan and in its own amount, and   *)
(* only after it was captured (_APPLY_SQL).                                *)
THEOREM AppliesOnce == Spec => []AppliedOnceAsCaptured
<1>1. IInv => AppliedOnceAsCaptured
  BY DEF IInv
<1>2. QED
  BY <1>1, IInvHolds, PTL

(* A claiming request told of an amount, or answered 200 by                *)
(* payment-service, has credited the balance (charge, post_payment).       *)
THEOREM ConfirmationsAreTrue == Spec => []ConfirmedIsApplied
<1>1. IInv => ConfirmedIsApplied
  <2> SUFFICES ASSUME IInv, NEW r \in Requests, req[r].kind = "claimed",
                      TellsAnAmount(r) \/ (req[r].door = "payment" /\ Code(r) = 200)
               PROVE  CreditedTo(r)
    BY DEF ConfirmedIsApplied
  <2>1. req[r].reported # "captured_unapplied"
    BY DEF TellsAnAmount, Code
  <2>2. QED
    BY <2>1 DEF IInv, ClaimedInv
<1>2. QED
  BY <1>1, IInvHolds, PTL

(* A replay never answers for a charge of other terms (claim_or_branch).   *)
THEOREM ReplaysAreOwn == Spec => []ReplayIsOfSameTerms
<1>1. IInv => ReplayIsOfSameTerms
  BY DEF IInv
<1>2. QED
  BY <1>1, IInvHolds, PTL

(* Once a charge is marked captured_unapplied no late apply call and no    *)
(* re-drive credits it, and no statement moves it on (_APPLY_SQL's         *)
(* eligible CTE, charge).                                                  *)
THEOREM DisownedStaysDisowned == Spec => UnappliedIsFinal
<1> DEFINE Final == \A p \in PaymentIds :
               status[p] = "captured_unapplied" =>
                   /\ status'[p] = "captured_unapplied"
                   /\ Applied(p)' => Applied(p)
<1>1. IInv /\ [Next]_vars => [Final]_vars
  <2> SUFFICES ASSUME IInv, [Next]_vars PROVE Final
    OBVIOUS
  <2> USE DEF IInv, TypeOK
  <2>1. ASSUME NEW r \in Requests, NEW p \in PaymentIds, ClaimWins(r, p) \/ Retire(r, p)
        PROVE  Final
    BY <2>1 DEF ClaimWins, Insert, Retire, ledger, Applied
  <2>2. ASSUME NEW r \in Requests, FinalizeCaptured(r) \/ FinalizeUnapplied(r)
        PROVE  Final
    <3>1. status[req[r].payment] # "captured_unapplied" /\ req[r].payment \in PaymentIds
      BY <2>2 DEF FinalizeCaptured, FinalizeUnapplied, OwnerInv
    <3>2. QED
      BY <2>2, <3>1 DEF FinalizeCaptured, FinalizeUnapplied, SetStatus, ledger, Applied
  <2>3. ASSUME NEW p \in PaymentIds, NEW l \in Loans, ApplyStatement(p, l), status' = status
        PROVE  Final
    <3>1. \A a \in applications' : a \in applications \/ (Credits(p, l) /\ a.payment = p)
      BY <2>3, ApplyEffect
    <3>2. Credits(p, l) => status[p] # "captured_unapplied"
      BY DEF Credits, Eligible, CreditingStatuses
    <3>3. QED
      BY <2>3, <3>1, <3>2 DEF Applied
  <2>4. ASSUME NEW r \in Requests, ServeApply(r)
        PROVE  Final
    BY <2>4, <2>3, CallTarget DEF ServeApply, table
  <2>5. ASSUME NEW p \in PaymentIds, NEW l \in Loans, Redrive(p, l)
        PROVE  Final
    BY <2>5, <2>3 DEF Redrive, table
  <2>6. ASSUME UNCHANGED <<status, applications>>
        PROVE  Final
    BY <2>6 DEF Applied
  <2>7. TableInv
    BY DEF TableInv
  <2>8. QED
    BY <2>1, <2>2, <2>4, <2>5, <2>6, <2>7, TableSteps
<1>2. QED
  BY <1>1, IInvHolds, PTL DEF Spec, UnappliedIsFinal

(* A request that has died does nothing more, and a request takes only a   *)
(* row that was not there (the `claim' INSERT of claim_or_branch).         *)
LEMMA OwnersStay ==
    ASSUME IInv, [Next]_vars, NEW q \in Requests
    PROVE  /\ req[q].pc = "dead" => req'[q] = req[q]
           /\ \/ req'[q].payment = req[q].payment
              \/ req'[q].payment \in PaymentIds /\ status[req'[q].payment] = "absent"
<1> DEFINE Stays == /\ req[q].pc = "dead" => req'[q] = req[q]
                    /\ \/ req'[q].payment = req[q].payment
                       \/ req'[q].payment \in PaymentIds /\ status[req'[q].payment] = "absent"
<1>1. TypeOK /\ OwnerInv /\ req \in [Requests -> Request] /\ req[q] \in Request
  BY DEF IInv, TypeOK
<1>2. ASSUME NEW r \in Requests, NEW d \in Doors, NEW k \in Keys, NEW t \in Terms,
             Start(r, d, k, t)
      PROVE  Stays
  <2>1. req[r].payment = NoPayment
    BY <1>1, <1>2 DEF OwnerInv, Start, Unclaimed
  <2> QED BY <1>1, <1>2, <2>1 DEF Start, Set, Idle
<1>3. ASSUME NEW r \in Requests, NEW p \in PaymentIds, ClaimWins(r, p)
      PROVE  Stays
  <2>1. /\ req' = [req EXCEPT ![r] = [req[r] EXCEPT !.pc = "finalize", !.payment = p]]
        /\ status[p] = "absent" /\ req[r].pc # "dead" /\ req[r] \in Request
    BY <1>1, <1>3 DEF ClaimWins, Insert, Set, ClaimPCs
  <2>2. req'[r].payment = p
    BY <1>1, <2>1 DEF Request
  <2>3. q # r => req'[q] = req[q]
    BY <1>1, <2>1
  <2> QED BY <1>3, <2>1, <2>2, <2>3
<1>4. ASSUME NEW r \in Requests, NEW pc, Goto(r, pc), req[r].pc # "dead"
      PROVE  Stays
  BY <1>1, <1>4, GotoEffect
<1>5. ASSUME NEW r \in Requests, NEW p, NEW s, AnswerFrom(r, p, s), req[r].pc # "dead"
      PROVE  Stays
  BY <1>1, <1>5, AnswerEffect
<1>6. ASSUME NEW r \in Requests, NEW p \in PaymentIds, ReadFinds(r, p)
      PROVE  Stays
  <2>1. CASE AnswerFrom(r, p, status[p])
    BY <1>5, <1>6, <2>1 DEF ReadFinds
  <2>2. CASE Set(r, [req[r] EXCEPT !.pc = "retire", !.seen = p, !.seenStatus = status[p]])
    BY <1>1, <1>6, <2>2 DEF ReadFinds, Set, Request
  <2> QED BY <1>6, <2>1, <2>2 DEF ReadFinds
<1>7. ASSUME NEW r \in Requests, NEW p \in PaymentIds, Retire(r, p)
      PROVE  Stays
  BY <1>4, <1>7 DEF Retire
<1>8. ASSUME NEW r \in Requests,
             \/ ClaimLoses(r) \/ RetireMovesNothing(r) \/ FinalizeCaptured(r)
             \/ CallApply(r) \/ Refused(r) \/ GiveUp(r) \/ Die(r)
      PROVE  Stays
  <2>1. req[r].pc # "dead" /\ \E pc : Goto(r, pc)
    BY <1>8 DEF ClaimLoses, RetireMovesNothing, FinalizeCaptured, CallApply, Refused,
                GiveUp, Die, ClaimPCs
  <2> QED BY <1>4, <2>1
<1>9. ASSUME NEW r \in Requests, ReadMisses(r) \/ Confirmed(r) \/ FinalizeUnapplied(r)
      PROVE  Stays
  <2>1. CASE \E pc : Goto(r, pc) /\ req[r].pc # "dead"
    BY <1>4, <2>1
  <2>2. CASE Set(r, [req[r] EXCEPT !.pc = "done", !.kind = "in_flight"]) /\ req[r].pc # "dead"
    BY <1>1, <2>2 DEF Set, Request
  <2>3. CASE /\ Set(r, [req[r] EXCEPT !.pc = "done", !.kind = "claimed", !.reported = "captured"])
             /\ req[r].pc # "dead"
    BY <1>1, <2>3 DEF Set, Request
  <2>4. CASE /\ Set(r, [req[r] EXCEPT !.pc = "done", !.kind = "claimed",
                                      !.reported = "captured_unapplied"])
             /\ req[r].pc # "dead"
    BY <1>1, <2>4 DEF Set, Request
  <2> QED BY <1>9, <2>1, <2>2, <2>3, <2>4 DEF ReadMisses, Confirmed, FinalizeUnapplied
<1>10. ASSUME NEW r \in Requests, ReadCurrent(r)
       PROVE  Stays
  <2>1. req[r].pc # "dead" /\ \E p, s : AnswerFrom(r, p, s)
    BY <1>10 DEF ReadCurrent
  <2> QED BY <1>5, <2>1
<1>11. CASE UNCHANGED req
  BY <1>11
<1>12. ASSUME Environment PROVE Stays
  <2>1. UNCHANGED req \/ \E r \in Requests : Die(r)
    BY <1>12 DEF Environment, LoseCall, Expire, Redrive, BoardBalance
  <2> QED BY <1>8, <1>11, <2>1
<1>13. ASSUME NEW r \in Requests, Serving(r) PROVE Stays
  BY <1>11, <1>13 DEF Serving, ServeApply, ServePrior
<1>14. CASE UNCHANGED vars
  BY <1>11, <1>14 DEF vars
<1> QED
  BY <1>2, <1>3, <1>6, <1>7, <1>8, <1>9, <1>10, <1>12, <1>13, <1>14
  DEF Next, Claiming, Capturing

(* A claim whose process died before its finalize is never finalized,      *)
(* credited, retired or claimed anew: the key answers for it for ever, and *)
(* is never charged again (claim_or_branch; there is no reaper).           *)
THEOREM AbandonedStaysAbandoned == Spec => AbandonedIsFinal
<1> DEFINE Final == \A p \in PaymentIds :
               Abandoned(p) => Abandoned(p)' /\ key'[p] = key[p] /\ ~Applied(p)'
<1>1. IInv /\ [Next]_vars => [Final]_vars
  <2> SUFFICES ASSUME IInv, [Next]_vars, NEW p \in PaymentIds, Abandoned(p)
               PROVE  Abandoned(p)' /\ key'[p] = key[p] /\ ~Applied(p)'
    OBVIOUS
  <2>1. /\ status[p] = "processing" /\ ~Applied(p)
        /\ \A r \in Requests : req[r].payment = p => req[r].pc = "dead"
    BY DEF Abandoned, IInv, RowInv
  <2>2. \A r \in Requests : req'[r].payment = p => req'[r].pc = "dead"
    <3>1. ASSUME NEW r \in Requests, req'[r].payment = p PROVE req'[r].pc = "dead"
      <4>1. req[r].payment = p
        BY <2>1, <3>1, OwnersStay
      <4> QED BY <2>1, <4>1, OwnersStay
    <3> QED BY <3>1
  <2> USE DEF IInv, TypeOK
  <2> DEFINE Kept == status'[p] = status[p] /\ key'[p] = key[p] /\ (Applied(p)' => Applied(p))
  <2>3. ASSUME NEW r \in Requests, NEW n \in PaymentIds, ClaimWins(r, n) PROVE Kept
    BY <2>1, <2>3 DEF ClaimWins, Insert, ledger, Applied
  <2>4. ASSUME NEW r \in Requests, NEW n \in PaymentIds, Retire(r, n) PROVE Kept
    BY <2>1, <2>4 DEF Retire, Retirable, ledger, Applied
  <2>5. ASSUME NEW r \in Requests, FinalizeCaptured(r) \/ FinalizeUnapplied(r) PROVE Kept
    <3>1. req[r].payment # p
      BY <2>1, <2>5 DEF FinalizeCaptured, FinalizeUnapplied
    <3> QED BY <2>5, <3>1 DEF FinalizeCaptured, FinalizeUnapplied, SetStatus, ledger, Applied
  <2>6. ASSUME NEW n \in PaymentIds, NEW l \in Loans, ApplyStatement(n, l),
               UNCHANGED <<status, key>>
        PROVE  Kept
    <3>1. \A a \in applications' : a \in applications \/ (Credits(n, l) /\ a.payment = n)
      BY <2>6, ApplyEffect
    <3>2. Credits(n, l) => n # p
      BY <2>1 DEF Credits, Eligible, CreditingStatuses
    <3> QED BY <2>6, <3>1, <3>2 DEF Applied
  <2>7. ASSUME NEW r \in Requests, ServeApply(r) PROVE Kept
    BY <2>6, <2>7, CallTarget DEF ServeApply, table
  <2>8. ASSUME NEW n \in PaymentIds, NEW l \in Loans, Redrive(n, l) PROVE Kept
    BY <2>6, <2>8 DEF Redrive, table
  <2>9. ASSUME UNCHANGED <<status, key, applications>> PROVE Kept
    BY <2>9 DEF Applied
  <2>10. Kept
    BY <2>3, <2>4, <2>5, <2>7, <2>8, <2>9, TableSteps
  <2> QED BY <2>1, <2>2, <2>10 DEF Abandoned
<1>2. QED
  BY <1>1, IInvHolds, PTL DEF Spec, AbandonedIsFinal

-----------------------------------------------------------------------------
(* The whole capture path, with its requests, calls, crashes and clocks,   *)
(* implements the payment intent of PaymentIntent (ADR 0013, ADR 0020).    *)
THEOREM ImplementsTheIntent == Spec => ImplementsIntent
<1> DEFINE stage == [p \in PaymentIds |-> StageOf(p)]
<1> DEFINE credited == {a.payment : a \in applications}
<1>1. Init => Intent!Init
  BY DEF Init, Intent!Init, StageOf
<1>2. IInv /\ [Next]_vars => [Intent!Next]_(Intent!vars)
  <2> SUFFICES ASSUME IInv, [Next]_vars PROVE [Intent!Next]_(Intent!vars)
    OBVIOUS
  <2> USE DEF IInv, TypeOK
  <2>0. \A p \in PaymentIds : Applied(p) <=> p \in credited
    BY DEF Applied
  <2>1. ASSUME NEW r \in Requests, NEW p \in PaymentIds, ClaimWins(r, p)
        PROVE  Intent!Claim(p, req[r].key)
    <3>1. /\ status[p] = "absent" /\ status' = [status EXCEPT ![p] = "processing"]
          /\ key' = [key EXCEPT ![p] = req[r].key]
          /\ \A q \in PaymentIds : key[q] # req[r].key
          /\ UNCHANGED applications
      BY <2>1 DEF ClaimWins, Insert, HasHolder, ledger
    <3>2. stage' = [stage EXCEPT ![p] = "claimed"] /\ stage[p] = "none"
      BY <3>1 DEF StageOf
    <3>3. QED
      BY <3>1, <3>2 DEF Intent!Claim
  <2>2. ASSUME NEW r \in Requests, FinalizeCaptured(r)
        PROVE  Intent!Capture(req[r].payment)
    <3>1. req[r].payment \in PaymentIds /\ status[req[r].payment] = "processing"
      BY <2>2 DEF FinalizeCaptured, OwnerInv
    <3>2. /\ status' = [status EXCEPT ![req[r].payment] = "captured"]
          /\ UNCHANGED <<key, applications>>
      BY <2>2 DEF FinalizeCaptured, SetStatus, ledger
    <3>3. stage' = [stage EXCEPT ![req[r].payment] = "captured"]
          /\ stage[req[r].payment] = "claimed"
      BY <3>1, <3>2 DEF StageOf
    <3>4. QED
      BY <3>2, <3>3 DEF Intent!Capture
  <2>3. ASSUME NEW r \in Requests, FinalizeUnapplied(r)
        PROVE  Intent!Disown(req[r].payment)
    <3>1. req[r].payment \in PaymentIds /\ status[req[r].payment] = "captured"
      BY <2>3 DEF FinalizeUnapplied, OwnerInv
    <3>2. /\ status' = [status EXCEPT ![req[r].payment] = "captured_unapplied"]
          /\ UNCHANGED <<key, applications>>
      BY <2>3 DEF FinalizeUnapplied, SetStatus, ledger
    <3>3. stage' = [stage EXCEPT ![req[r].payment] = "disowned"]
          /\ stage[req[r].payment] = "captured"
      BY <3>1, <3>2 DEF StageOf
    <3>4. QED
      BY <3>2, <3>3 DEF Intent!Disown
  <2>4. ASSUME NEW r \in Requests, NEW p \in PaymentIds, Retire(r, p)
        PROVE  Intent!Release(p)
    <3>1. /\ key' = [key EXCEPT ![p] = NoKey] /\ UNCHANGED <<status, applications>>
          /\ key[p] = req[r].key /\ req[r].pc = "retire" /\ Retirable(p)
      BY <2>4 DEF Retire, ledger
    <3>2. key[p] # NoKey
      BY <3>1, ConstantsAssumption DEF OwnerInv
    <3>3. p \in credited
      BY <3>1, <2>0 DEF Retirable, RowInv
    <3>4. QED
      BY <3>1, <3>2, <3>3 DEF Intent!Release, StageOf
  <2>5. ASSUME NEW p \in PaymentIds, NEW l \in Loans, ApplyStatement(p, l),
               UNCHANGED <<status, key>>
        PROVE  Intent!Credit(p) \/ UNCHANGED Intent!vars
    <3>1. stage' = stage
      BY <2>5 DEF StageOf
    <3>2. CASE Credits(p, l)
      <4>1. status[p] = "captured" /\ ~Applied(p)
        BY <3>2 DEF Credits, Eligible, CreditingStatuses, RowInv
      <4>2. credited' = credited \cup {p}
        <5> DEFINE new == [payment |-> p, loan |-> l, amount |-> terms[p].amount]
        <5>1. applications' = applications \cup {new} /\ new.payment = p
          BY <3>2, <2>5 DEF ApplyStatement
        <5> HIDE DEF new
        <5>2. QED
          BY <5>1
      <4>3. stage[p] = "captured"
        BY <4>1 DEF StageOf
      <4>4. QED
        BY <4>1, <4>2, <4>3, <3>1, <2>0, <2>5 DEF Intent!Credit
    <3>3. CASE ~Credits(p, l)
      BY <3>1, <3>3, <2>5 DEF ApplyStatement, ledger, Intent!vars
    <3>4. QED
      BY <3>2, <3>3
  <2>6. ASSUME UNCHANGED <<status, key, applications>>
        PROVE  UNCHANGED Intent!vars
    BY <2>6 DEF Intent!vars, StageOf
  <2>7. ASSUME NEW r \in Requests, ServeApply(r)
        PROVE  (\E p \in PaymentIds : Intent!Credit(p)) \/ UNCHANGED Intent!vars
    BY <2>7, <2>5, CallTarget DEF ServeApply, table
  <2>8. ASSUME NEW p \in PaymentIds, NEW l \in Loans, Redrive(p, l)
        PROVE  Intent!Credit(p) \/ UNCHANGED Intent!vars
    BY <2>8, <2>5 DEF Redrive, table
  <2>9. \A r \in Requests :
            (\E p \in PaymentIds : ClaimWins(r, p)) => req[r].key \in Keys
    BY DEF ClaimWins, ClaimPCs, OwnerInv
  <2>10. \A r \in Requests :
             FinalizeCaptured(r) \/ FinalizeUnapplied(r) => req[r].payment \in PaymentIds
    BY DEF FinalizeCaptured, FinalizeUnapplied, OwnerInv
  <2>11. QED
    BY <2>1, <2>2, <2>3, <2>4, <2>6, <2>7, <2>8, <2>9, <2>10, TableSteps DEF Intent!Next
<1>3. QED
  BY <1>1, <1>2, IInvHolds, PTL DEF Spec, ImplementsIntent, Intent!Spec

-----------------------------------------------------------------------------
(* The sum of the amounts of a finite set of applications: the library's   *)
(* fold takes the elements out in an order of its own, and the order is of *)
(* no account.  An induction over sets is one over their sizes, by a       *)
(* smallest counterexample.                                                *)

(* A set of natural numbers has a least element.                           *)
LEMMA LessIsWellFounded == IsWellFoundedOn({ss \in Nat \X Nat : ss[1] < ss[2]}, Nat)
BY NatLessThanWellFounded DEF OpToRel

(* A set of natural numbers has a least element.                           *)
LEMMA Least ==
  ASSUME NEW T \in SUBSET Nat, T # {}
  PROVE \E x \in T : \A y \in T : x <= y
<1> DEFINE R == {ss \in Nat \X Nat : ss[1] < ss[2]}
<1>1. IsWellFoundedOn(R, Nat)
  BY LessIsWellFounded
<1>2. PICK x \in T : \A y \in T : ~ (<<y, x>> \in R)
  <2> HIDE DEF R
  <2> QED BY <1>1, WFMin
<1>3. ASSUME NEW y \in T PROVE x <= y
  <2>1. ~ (<<y, x>> \in R)
    BY <1>2
  <2>2. <<y, x>> \in Nat \X Nat
    OBVIOUS
  <2> QED BY <2>1, <2>2
<1> QED BY <1>3

(* Of a family of subsets of a finite set, one has the fewest elements.    *)
LEMMA Smallest ==
  ASSUME NEW S, IsFiniteSet(S), NEW B \in SUBSET SUBSET S, B # {}
  PROVE \E m \in B : \A t \in B : Cardinality(m) <= Cardinality(t)
<1> DEFINE Sizes == {Cardinality(t) : t \in B}
<1>1. \A t \in B : Cardinality(t) \in Nat
  BY FS_Subset, FS_CardinalityType
<1>2. Sizes \in SUBSET Nat /\ Sizes # {}
  BY <1>1
<1>3. PICK n \in Sizes : \A y \in Sizes : n <= y
  <2> HIDE DEF Sizes
  <2> QED BY <1>2, Least
<1> QED BY <1>3

(* The element that the fold takes out of a set first.                     *)
First(s) == CHOOSE a \in s : TRUE
Rest(s) == s \ {First(s)}

(* Without the element taken first, a set has one element fewer.           *)
LEMMA FirstRest ==
  ASSUME NEW S, IsFiniteSet(S), NEW s \in SUBSET S, s # {}
  PROVE /\ First(s) \in s /\ Rest(s) \in SUBSET s /\ Rest(s) # s
        /\ Cardinality(s) \in Nat /\ Cardinality(Rest(s)) = Cardinality(s) - 1
<1>1. First(s) \in s
  BY DEF First
<1>2. IsFiniteSet(s) /\ Cardinality(s) \in Nat
  BY FS_Subset, FS_CardinalityType
<1>3. Cardinality(s \ {First(s)}) = Cardinality(s) - 1
  BY <1>1, <1>2, FS_RemoveElement
<1> QED BY <1>1, <1>2, <1>3 DEF Rest

(* g is the fold's function on the sets of D.                              *)
IsCredit(g, D) == g = [s \in D |-> IF s = {} THEN 0 ELSE First(s).amount + g[Rest(s)]]

(* The library's sum over the record, unfolded to the function it chooses. *)
LEMMA Opens ==
  ASSUME NEW S
  PROVE Credited(S) = (CHOOSE g : IsCredit(g, SUBSET S))[S]
BY DEF Credited, MapThenSumSet, MapThenFoldSet, IsCredit, First, Rest

(* There is such a function on the subsets of every finite set.            *)
LEMMA FoldExists ==
  ASSUME NEW S, IsFiniteSet(S)
  PROVE \E g : IsCredit(g, SUBSET S)
<1> DEFINE Small(n) == {t \in SUBSET S : Cardinality(t) <= n}
           Bad == {n \in Nat : ~ \E g : IsCredit(g, Small(n))}
<1>1. \A t \in SUBSET S : Cardinality(t) \in Nat
  BY FS_Subset, FS_CardinalityType
<1>2. ASSUME Bad # {} PROVE FALSE
  <2>1. PICK n \in Bad : \A m \in Bad : n <= m
    <3>1. Bad \in SUBSET Nat
      OBVIOUS
    <3> HIDE DEF Bad
    <3> QED BY <1>2, <3>1, Least
  <2>2. n \in Nat /\ ~ \E g : IsCredit(g, Small(n))
    OBVIOUS
  <2>3. CASE n = 0
    <3>1. \A t \in Small(0) : t = {}
      BY <1>1, FS_Subset, FS_EmptySet
    <3>2. IsCredit([s \in Small(0) |-> 0], Small(0))
      <4> HIDE DEF Small
      <4> QED BY <3>1 DEF IsCredit
    <3> QED BY <2>2, <2>3, <3>2
  <2>4. CASE n # 0
    <3>1. n - 1 \in Nat /\ ~ (n <= n - 1)
      BY <2>2, <2>4
    <3>1a. n - 1 \notin Bad
      <4> HIDE DEF Bad
      <4> QED BY <2>1, <3>1
    <3>2. PICK g : IsCredit(g, Small(n - 1))
      BY <3>1, <3>1a
    <3> DEFINE h == [s \in Small(n) |-> IF s = {} THEN 0 ELSE First(s).amount + g[Rest(s)]]
    <3>3. ASSUME NEW s \in Small(n), s # {} PROVE g[Rest(s)] = h[Rest(s)]
      <4>1. Rest(s) \in Small(n - 1) /\ Rest(s) \in Small(n)
        <5>1. s \in SUBSET S /\ Cardinality(s) <= n
          OBVIOUS
        <5>2. /\ Rest(s) \in SUBSET s /\ Cardinality(s) \in Nat
              /\ Cardinality(Rest(s)) = Cardinality(s) - 1
          BY <3>3, <5>1, FirstRest
        <5> QED BY <2>2, <5>1, <5>2
      <4>2. g[Rest(s)] = IF Rest(s) = {} THEN 0
                         ELSE First(Rest(s)).amount + g[Rest(Rest(s))]
        <5> HIDE DEF Small
        <5> QED BY <3>2, <4>1 DEF IsCredit
      <4>3. h[Rest(s)] = IF Rest(s) = {} THEN 0
                         ELSE First(Rest(s)).amount + g[Rest(Rest(s))]
        <5> HIDE DEF Small
        <5> QED BY <4>1
      <4> QED BY <4>2, <4>3
    <3>4. h = [s \in Small(n) |-> IF s = {} THEN 0 ELSE First(s).amount + h[Rest(s)]]
      <4>1. \A s \in Small(n) : (IF s = {} THEN 0 ELSE First(s).amount + g[Rest(s)])
                              = (IF s = {} THEN 0 ELSE First(s).amount + h[Rest(s)])
        <5> HIDE DEF h, Small
        <5> QED BY <3>3
      <4>2. PICK hh : hh = h
        OBVIOUS
      <4>3. hh = [s \in Small(n) |-> IF s = {} THEN 0 ELSE First(s).amount + g[Rest(s)]]
        BY <4>2
      <4>4. hh = [s \in Small(n) |-> IF s = {} THEN 0 ELSE First(s).amount + hh[Rest(s)]]
        <5> HIDE DEF h, Small
        <5> QED BY <4>1, <4>2, <4>3
      <4> QED BY <4>2, <4>4
    <3>5. IsCredit(h, Small(n))
      <4> HIDE DEF h, Small
      <4> QED BY <3>4 DEF IsCredit
    <3> QED BY <2>2, <3>5
  <2> QED BY <2>3, <2>4
<1>3. Cardinality(S) \in Nat /\ Small(Cardinality(S)) = SUBSET S
  BY FS_Subset, FS_CardinalityType
<1>4. Cardinality(S) \notin Bad
  BY <1>2
<1> QED BY <1>3, <1>4

(* On a set that both know, two of the fold's functions agree.             *)
LEMMA FoldsAgree ==
  ASSUME NEW S, IsFiniteSet(S), NEW T \in SUBSET S, NEW g, NEW h,
         IsCredit(g, SUBSET S), IsCredit(h, SUBSET T)
  PROVE \A s \in SUBSET T : g[s] = h[s]
<1> DEFINE Bad == {s \in SUBSET T : g[s] # h[s]}
<1>1. ASSUME Bad # {} PROVE FALSE
  <2>1. IsFiniteSet(T) /\ Bad \in SUBSET SUBSET T
    BY FS_Subset
  <2>2. PICK m \in Bad : \A t \in Bad : Cardinality(m) <= Cardinality(t)
    <3> HIDE DEF Bad
    <3> QED BY <1>1, <2>1, Smallest
  <2>3. m \in SUBSET T /\ m \in SUBSET S /\ g[m] # h[m]
    OBVIOUS
  <2>4. g[m] = (IF m = {} THEN 0 ELSE First(m).amount + g[Rest(m)])
    BY <2>3 DEF IsCredit
  <2>5. h[m] = (IF m = {} THEN 0 ELSE First(m).amount + h[Rest(m)])
    BY <2>3 DEF IsCredit
  <2>6. m # {}
    BY <2>3, <2>4, <2>5
  <2>7. /\ Rest(m) \in SUBSET m /\ Cardinality(m) \in Nat
        /\ Cardinality(Rest(m)) = Cardinality(m) - 1
    BY <2>1, <2>3, <2>6, FirstRest
  <2>8. Rest(m) \notin Bad
    BY <2>2, <2>7
  <2>9. g[Rest(m)] = h[Rest(m)]
    BY <2>3, <2>7, <2>8
  <2> QED BY <2>3, <2>4, <2>5, <2>9
<1> QED BY <1>1

(* What the sum of a set is: nothing, or one amount and the others' sum.   *)
LEMMA SumOpens ==
  ASSUME NEW S, IsFiniteSet(S)
  PROVE /\ S = {} => Credited(S) = 0
        /\ S # {} => Credited(S) = First(S).amount + Credited(Rest(S))
<1>1. PICK g : g = CHOOSE g0 : IsCredit(g0, SUBSET S)
  OBVIOUS
<1>2. IsCredit(g, SUBSET S) /\ Credited(S) = g[S]
  BY <1>1, FoldExists, Opens
<1>3. Credited(S) = IF S = {} THEN 0 ELSE First(S).amount + g[Rest(S)]
  BY <1>2 DEF IsCredit
<1>4. ASSUME S # {} PROVE g[Rest(S)] = Credited(Rest(S))
  <2>1. Rest(S) \in SUBSET S /\ IsFiniteSet(Rest(S))
    BY FS_Subset DEF Rest
  <2>2. PICK h : h = CHOOSE g0 : IsCredit(g0, SUBSET Rest(S))
    OBVIOUS
  <2>3. IsCredit(h, SUBSET Rest(S)) /\ Credited(Rest(S)) = h[Rest(S)]
    BY <2>1, <2>2, FoldExists, Opens
  <2>4. \A s \in SUBSET Rest(S) : g[s] = h[s]
    <3>1. PICK T \in SUBSET S : T = Rest(S)
      BY <2>1
    <3>2. IsCredit(g, SUBSET S) /\ IsCredit(h, SUBSET T)
      BY <1>2, <2>3, <3>1
    <3> QED BY ONLY IsFiniteSet(S), T \in SUBSET S, <3>1, <3>2, FoldsAgree
  <2> QED BY <2>3, <2>4
<1> QED BY <1>3, <1>4

(* Any element may be taken out first: the order is of no account.         *)
LEMMA SumRemoves ==
  ASSUME NEW S, IsFiniteSet(S), \A a \in S : a.amount \in Int
  PROVE /\ Credited(S) \in Int
        /\ \A b \in S : Credited(S) = b.amount + Credited(S \ {b})
<1> DEFINE Good(s) == /\ Credited(s) \in Int
                      /\ \A b \in s : Credited(s) = b.amount + Credited(s \ {b})
           Bad == {s \in SUBSET S : ~ Good(s)}
<1>1. ASSUME Bad # {} PROVE FALSE
  <2>1. PICK m \in Bad : \A t \in Bad : Cardinality(m) <= Cardinality(t)
    <3>1. Bad \in SUBSET SUBSET S
      OBVIOUS
    <3> HIDE DEF Bad
    <3> QED BY <1>1, <3>1, Smallest
  <2>2. m \in SUBSET S /\ IsFiniteSet(m) /\ ~ Good(m)
    BY FS_Subset
  <2> DEFINE c == First(m)
  <2>3. m # {}
    <3>1. ASSUME m = {} PROVE Good(m)
      BY <2>2, <3>1, SumOpens
    <3> QED BY <2>2, <3>1
  <2>4. c \in m /\ c.amount \in Int
    BY <2>2, <2>3, FirstRest
  <2>5. Credited(m) = c.amount + Credited(m \ {c})
    BY <2>2, <2>3, SumOpens DEF Rest
  <2>6. ASSUME NEW d \in m PROVE Good(m \ {d})
    <3>1. Cardinality(m) \in Nat /\ Cardinality(m \ {d}) = Cardinality(m) - 1
      BY <2>2, FS_CardinalityType, FS_RemoveElement
    <3>2. m \ {d} \notin Bad
      <4> HIDE DEF Bad
      <4> QED BY <2>1, <3>1
    <3> QED BY <2>2, <3>2
  <2> HIDE DEF Good, Bad, c
  <2>7. Credited(m \ {c}) \in Int
    BY <2>4, <2>6 DEF Good
  <2>8. ASSUME NEW b \in m PROVE Credited(m) = b.amount + Credited(m \ {b})
    <3>1. CASE b = c
      BY <2>5, <3>1
    <3>2. CASE b # c
      <4>1. Credited(m \ {c}) = b.amount + Credited((m \ {c}) \ {b})
        BY <2>4, <2>6, <3>2 DEF Good
      <4>2. Credited(m \ {b}) = c.amount + Credited((m \ {b}) \ {c})
        BY <2>4, <2>6, <3>2 DEF Good
      <4>3. (m \ {c}) \ {b} = (m \ {b}) \ {c}
        OBVIOUS
      <4>4. b.amount \in Int /\ Credited((m \ {b}) \ {c}) \in Int
        <5>1. Good(m \ {b}) /\ c \in m \ {b}
          BY <2>4, <2>6, <3>2
        <5>2. m \ {b} \in SUBSET S /\ b.amount \in Int
          BY <2>2
        <5>3. Credited((m \ {b}) \ {c}) \in Int
          <6>1. PICK t : t = m \ {b}
            OBVIOUS
          <6>2. t \in SUBSET m /\ IsFiniteSet(t) /\ c \in t /\ t # m
            BY <2>2, <5>1, <6>1, FS_Subset
          <6>3. Cardinality(t) = Cardinality(m) - 1 /\ Cardinality(m) \in Nat
            BY <2>2, <6>1, FS_CardinalityType, FS_RemoveElement
          <6>4. Cardinality(t \ {c}) = Cardinality(t) - 1
            BY <6>2, FS_RemoveElement
          <6>5. t \ {c} \notin Bad
            BY <2>1, <6>3, <6>4
          <6> QED BY <2>2, <6>1, <6>2, <6>5 DEF Bad, Good
        <5> QED BY <5>2, <5>3
      <4>5. PICK x \in Int, y \in Int, z \in Int :
                x = b.amount /\ y = c.amount /\ z = Credited((m \ {b}) \ {c})
        BY <2>4, <4>4
      <4>6. Credited(m \ {c}) = x + z
        BY <4>1, <4>3, <4>5
      <4>7. Credited(m \ {b}) = y + z
        BY <4>2, <4>5
      <4>8. Credited(m) = y + (x + z)
        BY <2>5, <4>5, <4>6
      <4>9. y + (x + z) = x + (y + z)
        OBVIOUS
      <4>10. Credited(m) = x + Credited(m \ {b})
        BY <4>7, <4>8, <4>9
      <4> QED BY <4>5, <4>10
    <3> QED BY <3>1, <3>2
  <2>9. Good(m)
    BY <2>4, <2>5, <2>7, <2>8 DEF Good
  <2> QED BY <2>2, <2>9
<1>2. S \notin Bad
  BY <1>1
<1> QED BY <1>2

(* One more element adds its amount.                                       *)
LEMMA SumGrows ==
  ASSUME NEW S, IsFiniteSet(S), \A a \in S : a.amount \in Int,
         NEW b, b \notin S, b.amount \in Int
  PROVE /\ Credited(S) \in Int
        /\ Credited(S \cup {b}) = Credited(S) + b.amount
<1>1. IsFiniteSet(S \cup {b})
  BY FS_AddElement
<1>2. PICK T : T = S \cup {b}
  OBVIOUS
<1>3. IsFiniteSet(T) /\ b \in T /\ T \ {b} = S /\ \A a \in T : a.amount \in Int
  BY <1>1, <1>2
<1>4. Credited(T) = b.amount + Credited(T \ {b})
  BY <1>3, SumRemoves
<1>5. Credited(S) \in Int
  BY SumRemoves
<1>6. PICK x \in Int, y \in Int : x = b.amount /\ y = Credited(S)
  BY <1>5
<1>7. Credited(T) = x + Credited(S)
  BY <1>3, <1>4, <1>6
<1>8. Credited(T) = y + x
  BY <1>6, <1>7
<1>9. Credited(S \cup {b}) = y + x
  BY <1>2, <1>8
<1> QED BY <1>6, <1>9

-----------------------------------------------------------------------------
(* The balance is the record of its movements.                             *)

LedgerInv == IsFiniteSet(applications) /\ BalanceIsTheRecord

(* The apply's one transaction records what it takes off the balance       *)
(* (ApplyStatement).                                                       *)
LEMMA LedgerApply ==
    ASSUME TypeOK, RowInv, LedgerInv, NEW p \in PaymentIds, NEW l \in Loans,
           ApplyStatement(p, l)
    PROVE  LedgerInv'
<1> DEFINE Of(A, m) == {a \in A : a.loan = m}
<1>1. CASE Credits(p, l)
  <2>1. terms[p] \in Terms /\ ~ Applied(p)
    BY <1>1 DEF Credits, Eligible, RowInv, CreditingStatuses
  <2>2. terms[p].amount \in Amounts /\ terms[p].amount \in Int
    BY <2>1, ConstantsAssumption DEF Terms
  <2>3. PICK b : b = [payment |-> p, loan |-> l, amount |-> terms[p].amount]
    OBVIOUS
  <2>4. b.loan = l /\ b.amount = terms[p].amount /\ b.amount \in Int /\ b \notin applications
    BY <2>1, <2>2, <2>3 DEF Applied
  <2>5. /\ applications' = applications \cup {b}
        /\ balance' = [balance EXCEPT ![l] = @ - terms[p].amount]
    BY <1>1, <2>3 DEF ApplyStatement
  <2>6. IsFiniteSet(applications')
    BY <2>5, FS_AddElement DEF LedgerInv
  <2>7. ASSUME NEW m \in Loans PROVE balance'[m] = Principal - Credited(Of(applications', m))
    <3>1. /\ IsFiniteSet(Of(applications, m)) /\ b \notin Of(applications, m)
          /\ \A a \in Of(applications, m) : a.amount \in Int
      <4>1. \A a \in applications : a.amount \in Int
        BY ConstantsAssumption DEF TypeOK, Application
      <4>2. IsFiniteSet(Of(applications, m))
        BY FS_Subset DEF LedgerInv
      <4> QED BY <2>4, <4>1, <4>2
    <3>2. PICK A : A = Of(applications, m)
      OBVIOUS
    <3>3. balance[m] = Principal - Credited(A) /\ balance[m] \in Int
      BY <3>2 DEF LedgerInv, BalanceIsTheRecord, TypeOK
    <3>4. Credited(A) \in Int /\ Credited(A \cup {b}) = Credited(A) + b.amount
      BY <2>4, <3>1, <3>2, SumGrows
    <3>5. CASE m = l
      <4>1. Of(applications', m) = A \cup {b}
        BY <2>4, <2>5, <3>2, <3>5
      <4>2. balance'[m] = balance[m] - b.amount
        BY <2>4, <2>5, <3>5 DEF TypeOK
      <4>3. PICK x \in Int, y \in Int, z \in Int :
                x = b.amount /\ y = Credited(A) /\ z = balance[m]
        BY <2>4, <3>3, <3>4
      <4>4. balance'[m] = z - x /\ z = Principal - y /\ Credited(A \cup {b}) = y + x
        BY <3>3, <3>4, <4>2, <4>3
      <4>5. z - x = Principal - (y + x)
        BY <4>4, ConstantsAssumption
      <4>6. balance'[m] = Principal - Credited(A \cup {b})
        BY <4>4, <4>5
      <4> QED BY <4>1, <4>6
    <3>6. CASE m # l
      <4>1. Of(applications', m) = A
        BY <2>4, <2>5, <3>2, <3>6
      <4>2. balance'[m] = balance[m]
        BY <2>5, <3>6 DEF TypeOK
      <4> QED BY <3>3, <4>1, <4>2
    <3> QED BY <3>5, <3>6
  <2> QED BY <2>6, <2>7 DEF LedgerInv, BalanceIsTheRecord
<1>2. CASE ~ Credits(p, l)
  BY <1>2 DEF ApplyStatement, ledger, LedgerInv, BalanceIsTheRecord
<1> QED BY <1>1, <1>2

(* Nothing is credited and nothing recorded at first (Init).               *)
LEMMA InitLedgerInv == Init => LedgerInv
<1> SUFFICES ASSUME Init PROVE LedgerInv
  OBVIOUS
<1>1. IsFiniteSet({}) /\ Credited({}) = 0
  BY FS_EmptySet, SumOpens
<1>2. \A l \in Loans : {a \in applications : a.loan = l} = {}
  BY DEF Init
<1>3. \A l \in Loans : balance[l] = Principal - 0
  BY ConstantsAssumption DEF Init
<1> QED BY <1>1, <1>2, <1>3 DEF LedgerInv, BalanceIsTheRecord, Init

(* No other step touches the balance or the record (Next).                 *)
LEMMA NextLedgerInv == IInv /\ LedgerInv /\ [Next]_vars => LedgerInv'
<1> SUFFICES ASSUME IInv, LedgerInv, [Next]_vars PROVE LedgerInv'
  OBVIOUS
<1>1. ASSUME NEW r \in Requests, ServeApply(r) PROVE LedgerInv'
  <2>1. req[r].payment \in PaymentIds /\ req[r].terms \in Terms
    BY <1>1, CallTarget DEF IInv, ServeApply
  <2>2. req[r].terms.loan \in Loans
    BY <2>1 DEF Terms
  <2> QED BY <1>1, <2>1, <2>2, LedgerApply DEF IInv, ServeApply
<1>2. ASSUME NEW p \in PaymentIds, NEW l \in Loans, Redrive(p, l) PROVE LedgerInv'
  BY <1>2, LedgerApply DEF IInv, Redrive
<1>3. ASSUME UNCHANGED <<applications, balance>> PROVE LedgerInv'
  BY <1>3 DEF LedgerInv, BalanceIsTheRecord
<1>4. ASSUME NEW r \in Requests, ~ ServeApply(r),
             \/ \E d \in Doors, k \in Keys, t \in Terms : Start(r, d, k, t)
             \/ Claiming(r) \/ Capturing(r) \/ Serving(r)
      PROVE UNCHANGED <<applications, balance>>
  BY <1>4 DEF Start, Claiming, ClaimWins, ClaimLoses, ReadFinds, ReadMisses, Retire,
       RetireMovesNothing, ReadCurrent, Capturing, FinalizeCaptured, CallApply, Confirmed,
       Refused, GiveUp, FinalizeUnapplied, Serving, ServePrior, ledger
<1>5. ASSUME \/ \E r \in Requests : Die(r) \/ LoseCall(r)
             \/ \E p \in PaymentIds : Expire(p)
             \/ \E l \in Loans : BoardBalance(l)
             \/ UNCHANGED vars
      PROVE UNCHANGED <<applications, balance>>
  BY <1>5 DEF Die, LoseCall, Expire, BoardBalance, ledger, vars
<1> QED BY <1>1, <1>2, <1>3, <1>4, <1>5 DEF Next, Environment

(* No money moves without its record, and none is recorded that has not    *)
(* moved: a loan's balance is its principal less exactly the applications  *)
(* recorded for it, however many requests, re-drives, timeouts and crashes *)
(* have called the apply statement, and in whatever order (_APPLY_SQL).    *)
THEOREM TheBalanceIsTheRecord == Spec => []BalanceIsTheRecord
<1>1. LedgerInv => BalanceIsTheRecord
  BY DEF LedgerInv
<1> QED
  BY <1>1, InitLedgerInv, NextLedgerInv, IInvHolds, PTL DEF Spec

=============================================================================
