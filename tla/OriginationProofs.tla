------------------------- MODULE OriginationProofs -------------------------
(***************************************************************************)
(* Proofs about Origination, for any number of threads and decisions.      *)
(*                                                                         *)
(* The argument is the one the code's comments make: what a guard reads    *)
(* before a write can only become more true.  A decided or offered         *)
(* application cannot be deleted, a KYC pass is not undone while the       *)
(* application exists, events are only appended, a delivered disclosure    *)
(* stays, and a closed edge is not reopened.  Relies says what a thread    *)
(* may still count on between the statement that read it and the one that  *)
(* uses it.                                                                *)
(***************************************************************************)
EXTENDS Origination, TLAPS

(* What a thread that holds q counts on.                                   *)
Relies(q) ==
    /\ q.pc \in {"latest", "mint"} => Exists /\ pointer # "none"
    /\ q.pc = "row" => app = "abandoned" \/ (checked /\ complete)
    /\ q.pc = "loan" /\ q.boardable => Authority
    /\ q.pc = "board" => Authority
    /\ q.pc = "balance" => loan
    /\ q.pc = "fund" => loan /\ balance
    /\ q.pc = "accepted" => Whole

CallerInv == \A c \in Callers : Relies(caller[c])

FundedIsWhole == app = "funded" => Whole

IInv ==
    /\ TypeOK
    /\ CallerInv
    /\ LoanIsAuthorized
    /\ NothingOutlivesApplication
    /\ FundedIsWhole

-----------------------------------------------------------------------------
(* What the handlers read of the rows only grows, but for the deletion of  *)
(* an application that has nothing.                                        *)
Grows ==
    /\ pointer # "none" => pointer' # "none"
    /\ Exists /\ pointer # "none" => Exists'
    /\ Authority => Authority'
    /\ checked /\ complete => (checked' /\ complete') \/ app' = "abandoned"
    /\ loan => loan'
    /\ balance => balance'
    /\ Whole => Whole'
    /\ app = "abandoned" => app' = "abandoned"

(* The rows grow and no thread moves: every thread counts on as much.      *)
LEMMA StillCaller ==
    ASSUME CallerInv, Grows, caller' = caller
    PROVE  CallerInv'
BY DEF CallerInv, Relies, Grows

(* The rows grow and one thread moves to a statement it may count on.      *)
LEMMA MovedCaller ==
    ASSUME TypeOK, CallerInv, Grows, NEW c \in Callers, NEW q, Set(c, q),
           Relies(caller[c])'
    PROVE  CallerInv'
<1> SUFFICES ASSUME NEW d \in Callers PROVE Relies(caller[d])'
  BY DEF CallerInv
<1>1. CASE d = c
  BY <1>1
<1>2. CASE d # c
  <2>1. caller'[d] = caller[d]
    BY <1>2 DEF TypeOK, Set
  <2>2. Relies(caller[d])
    BY DEF CallerInv
  <2> QED BY <2>1, <2>2 DEF Relies, Grows
<1> QED BY <1>1, <1>2

(* A step that leaves the rows alone grows them.                           *)
LEMMA SameRowsGrow ==
    ASSUME UNCHANGED <<rows, record>>
    PROVE  Grows
BY DEF Grows, rows, record, Exists, Authority, KycPassed, Approves, Whole

(* A thread moves, and nothing else does.                                  *)
LEMMA QuietMove ==
    ASSUME IInv, NEW c \in Callers, NEW q \in Thread, Set(c, q), Relies(q),
           UNCHANGED <<rows, record, abandon>>
    PROVE  IInv'
<1>1. caller'[c] = q /\ caller' \in [Callers -> Thread]
  BY DEF IInv, TypeOK, Set
<1>2. TypeOK'
  BY <1>1 DEF IInv, TypeOK, Thread, rows, record
<1>3. Relies(caller[c])'
  <2>1. Relies(caller'[c])
    BY <1>1
  <2> QED BY <2>1 DEF Relies, rows, record, Exists, Authority, KycPassed, Approves, Whole
<1>4. CallerInv'
  BY <1>3, SameRowsGrow, MovedCaller DEF IInv
<1>5. (LoanIsAuthorized /\ NothingOutlivesApplication /\ FundedIsWhole)'
  BY DEF IInv, rows, record, LoanIsAuthorized, NothingOutlivesApplication, FundedIsWhole,
         Exists, Authority, KycPassed, Approves, Whole
<1> QED BY <1>2, <1>4, <1>5 DEF IInv

(* A thread that holds nothing is well typed and counts on nothing.        *)
LEMMA Fresh ==
    ASSUME TypeOK, NEW pc \in {"idle", "refused"}
    PROVE  Holding(pc, NoEdge, FALSE) \in Thread /\ Relies(Holding(pc, NoEdge, FALSE))
<1>1. Len(events) \in Nat
  BY DEF TypeOK
<1>2. 0 \in 0..Len(events)
  BY <1>1
<1>3. Holding(pc, NoEdge, FALSE) \in Thread
  BY <1>2 DEF Holding, NoEdge, Thread, PCs
<1>4. Relies(Holding(pc, NoEdge, FALSE))
  BY DEF Holding, Relies
<1> QED BY <1>3, <1>4

(* What is known of a thread before it moves.                              *)
LEMMA ThreadFacts ==
    ASSUME IInv, NEW c \in Callers
    PROVE  /\ caller[c] \in Thread
           /\ Relies(caller[c])
           /\ {NoEdge, Len(events)} \subseteq 0..Len(events)
<1>1. caller[c] \in Thread /\ Len(events) \in Nat
  BY DEF IInv, TypeOK
<1>2. Relies(caller[c])
  BY DEF IInv, CallerInv
<1>3. {NoEdge, Len(events)} \subseteq 0..Len(events)
  BY <1>1 DEF NoEdge
<1> QED BY <1>1, <1>2, <1>3

(* A guard either lets the thread through, to what it may count on, or     *)
(* answers.                                                                *)
LEMMA PassMove ==
    ASSUME IInv, NEW c \in Callers, NEW pc \in PCs, NEW ok \in BOOLEAN, Pass(c, pc, ok),
           ok => Relies([caller[c] EXCEPT !.pc = pc]),
           UNCHANGED <<rows, record, abandon>>
    PROVE  IInv'
<1>1. caller[c] \in Thread /\ Len(events) \in Nat
  BY DEF IInv, TypeOK
<1>2. CASE ok
  <2>1. [caller[c] EXCEPT !.pc = pc] \in Thread
    BY <1>1 DEF Thread
  <2> QED BY <1>2, <2>1, QuietMove DEF Pass, Goto
<1>3. CASE ~ok
  <2>1. Refused \in Thread /\ Relies(Refused)
    BY Fresh DEF IInv, Refused
  <2>2. Set(c, Refused)
    BY <1>3 DEF Pass
  <2> QED BY <2>1, <2>2, QuietMove
<1> QED BY <1>2, <1>3

(* An answer that leaves.                                                  *)
LEMMA IdleMove ==
    ASSUME IInv, NEW c \in Callers, Set(c, Idle), UNCHANGED <<rows, record, abandon>>
    PROVE  IInv'
<1>1. Idle \in Thread /\ Relies(Idle)
  BY Fresh DEF IInv, Idle
<1> QED BY <1>1, QuietMove

-----------------------------------------------------------------------------
(* Nothing is promised of an application that is not there (Init).         *)
LEMMA InitInv == Init => IInv
<1> SUFFICES ASSUME Init PROVE IInv
  OBVIOUS
<1> USE OriginationAssumption
<1>1. events \in Seq(Record!Event)
  <2>1. CASE events = <<>>
    BY <2>1
  <2>2. CASE events \in UNION {[1..n -> Record!Event] : n \in 0..MaxEvents}
    <3>1. PICK n \in 0..MaxEvents : events \in [1..n -> Record!Event]
      BY <2>2
    <3> QED BY <3>1
  <2> QED BY <2>1, <2>2 DEF Init
<1>2. Len(events) \in Nat
  BY <1>1
<1>3. offer \in [status : {"absent", "made"}, edge : 0..Len(events)]
  BY <1>2 DEF Init, NoOffer, NoEdge
<1>4. disclosure \in [status : {"absent", "pending", "bare", "delivered"},
                     event : 0..Len(events)]
  BY <1>2 DEF Init, NoDisclosure, NoEdge
<1>5. caller \in [Callers -> Thread] /\ \A c \in Callers : caller[c] = Idle
  BY <1>2 DEF Init, Thread, Idle, Holding, PCs, NoEdge
<1>6. TypeOK
  <2>1. /\ app \in {"absent", "submitted", "funded", "abandoned"}
        /\ token \in {"none", "live", "retired"}
        /\ complete \in BOOLEAN /\ checked \in BOOLEAN
        /\ loan \in BOOLEAN /\ balance \in BOOLEAN
        /\ abandon \in {"idle", "delete"}
    BY DEF Init
  <2>2. pointer \in Outcomes \cup {"none"}
    BY DEF Init
  <2> QED BY <1>1, <1>3, <1>4, <1>5, <2>1, <2>2 DEF TypeOK
<1>7. CallerInv
  BY <1>5 DEF CallerInv, Relies, Idle, Holding
<1>8. LoanIsAuthorized /\ NothingOutlivesApplication /\ FundedIsWhole
  BY DEF Init, LoanIsAuthorized, NothingOutlivesApplication, FundedIsWhole, Exists
<1> QED BY <1>6, <1>7, <1>8 DEF IInv

-----------------------------------------------------------------------------
(* The handlers that only read.                                            *)
LEMMA QuietStep ==
    ASSUME IInv, NEW c \in Callers,
           \/ Recheck(c) \/ DecideNothing(c)
           \/ Start(c, "gate decision") \/ Gate(c, "gate decision", "decide")
           \/ Start(c, "gate offer") \/ Gate(c, "gate offer", "pointer")
           \/ ReadPointer(c) \/ ReadLatestEvent(c)
           \/ Accept(c) \/ Gate(c, "gate accept", "row") \/ ReadRow(c)
           \/ LookForLoan(c) \/ Leave(c) \/ Crash(c)
    PROVE  IInv'
<1> USE DEF PCs
<1>0. /\ caller[c] \in Thread
      /\ Relies(caller[c])
      /\ {NoEdge, Len(events)} \subseteq 0..Len(events)
  BY ThreadFacts
<1>p. ASSUME NEW pc \in PCs
      PROVE  [caller[c] EXCEPT !.pc = pc] \in Thread
             /\ [caller[c] EXCEPT !.pc = pc].pc = pc
             /\ [caller[c] EXCEPT !.pc = pc].boardable = caller[c].boardable
  BY <1>0 DEF Thread
<1>1. CASE Recheck(c)
  <2>1. Relies([caller[c] EXCEPT !.pc = "check"])
    BY <1>p DEF Relies
  <2>2. (Authorized(c) /\ Exists) \in BOOLEAN
    BY DEF Authorized, Exists
  <2> QED BY <1>1, <2>1, <2>2, PassMove DEF Recheck
<1>2. CASE DecideNothing(c)
  BY <1>2, PassMove DEF DecideNothing
<1>3. ASSUME NEW pc \in {"gate decision", "gate offer"}, Start(c, pc) PROVE IInv'
  <2>1. Relies([caller[c] EXCEPT !.pc = pc])
    BY <1>p DEF Relies
  <2>2. Authorized(c) \in BOOLEAN
    BY DEF Authorized, Exists
  <2> QED BY <1>3, <2>1, <2>2, PassMove DEF Start
<1>4. ASSUME NEW pc \in {"gate decision", "gate offer", "gate accept"},
             NEW to \in {"decide", "pointer", "row"}, Gate(c, pc, to)
      PROVE  IInv'
  <2>1. KycPassed => Relies([caller[c] EXCEPT !.pc = to])
    BY <1>p DEF Relies, KycPassed
  <2>2. KycPassed \in BOOLEAN
    BY DEF KycPassed, Exists
  <2> QED BY <1>4, <2>1, <2>2, PassMove DEF Gate
<1>5. CASE ReadPointer(c)
  <2>1. Exists /\ pointer = "approve" => Relies([caller[c] EXCEPT !.pc = "latest"])
    BY <1>p DEF Relies
  <2>2. (Exists /\ pointer = "approve") \in BOOLEAN
    OBVIOUS
  <2> QED BY <1>5, <2>1, <2>2, PassMove DEF ReadPointer
<1>6. CASE ReadLatestEvent(c)
  <2> DEFINE q == Holding("mint", Len(events), FALSE)
  <2>1. q \in Thread /\ q.pc = "mint"
    BY <1>0 DEF Thread, Holding
  <2>2. Relies(q)
    BY <1>0, <1>6, <2>1 DEF Relies, ReadLatestEvent, At
  <2>3. Set(c, q)
    BY <1>6 DEF ReadLatestEvent
  <2> HIDE DEF q
  <2> QED BY <1>6, <2>1, <2>2, <2>3, QuietMove DEF ReadLatestEvent
<1>7. CASE Accept(c)
  <2>1. CASE ~Authorized(c) /\ Replayable(c)
    <3>1. Whole
      BY <2>1 DEF Replayable, IInv, FundedIsWhole
    <3>2. Relies([caller[c] EXCEPT !.pc = "accepted"])
      BY <1>p, <3>1 DEF Relies
    <3> QED BY <1>7, <2>1, <1>p, <3>2, QuietMove DEF Accept, Goto
  <2>2. CASE ~(~Authorized(c) /\ Replayable(c))
    <3>1. Relies([caller[c] EXCEPT !.pc = "gate accept"])
      BY <1>p DEF Relies
    <3>2. Authorized(c) \in BOOLEAN
      BY DEF Authorized, Exists
    <3> QED BY <1>7, <2>2, <3>1, <3>2, PassMove DEF Accept
  <2> QED BY <2>1, <2>2
<1>8. CASE ReadRow(c)
  <2>1. CASE Exists /\ pointer = "approve" /\ offer # NoOffer
    <3> DEFINE q == Holding("loan", NoEdge, Boardable)
    <3>1. Boardable \in BOOLEAN
      BY DEF Boardable
    <3>2. q \in Thread /\ q.pc = "loan" /\ q.boardable = Boardable
      BY <1>0, <3>1 DEF Thread, Holding
    <3>3. Boardable => Authority
      BY <1>0, <1>8, <2>1
         DEF ReadRow, At, Relies, Boardable, Authority, KycPassed, Exists
    <3>4. Relies(q)
      BY <3>2, <3>3 DEF Relies
    <3>5. Set(c, q)
      BY <1>8, <2>1 DEF ReadRow
    <3> HIDE DEF q
    <3> QED BY <1>8, <3>2, <3>4, <3>5, QuietMove DEF ReadRow
  <2>2. CASE ~(Exists /\ pointer = "approve" /\ offer # NoOffer)
    BY <1>8, <2>2, PassMove DEF ReadRow
  <2> QED BY <2>1, <2>2
<1>9. CASE LookForLoan(c)
  <2>1. CASE loan
    <3>1. Relies([caller[c] EXCEPT !.pc = "balance"])
      BY <1>p, <2>1 DEF Relies
    <3> QED BY <1>9, <2>1, <1>p, <3>1, QuietMove DEF LookForLoan, Goto
  <2>2. CASE ~loan
    <3>1. caller[c].boardable => Relies([caller[c] EXCEPT !.pc = "board"])
      BY <1>0, <1>9, <1>p DEF Relies, LookForLoan, At
    <3>2. caller[c].boardable \in BOOLEAN
      BY <1>0 DEF Thread
    <3> QED BY <1>9, <2>2, <3>1, <3>2, PassMove DEF LookForLoan
  <2> QED BY <2>1, <2>2
<1>10. CASE Leave(c) \/ Crash(c)
  BY <1>10, IdleMove DEF Leave, Crash
<1> QED BY <1>1, <1>2, <1>3, <1>4, <1>5, <1>6, <1>7, <1>8, <1>9, <1>10

-----------------------------------------------------------------------------
(* The handlers that write a row.                                          *)

(* A thread moves while the record stays as it is.                         *)
LEMMA MoveTypes ==
    ASSUME TypeOK, NEW c \in Callers, NEW q \in Thread, Set(c, q), UNCHANGED record
    PROVE  /\ caller'[c] = q
           /\ (caller \in [Callers -> Thread])'
           /\ (events \in Seq(Record!Event))'
           /\ (pointer \in Outcomes \cup {"none"})'
BY DEF TypeOK, Set, Thread, record

(* Set(c, [caller[c] EXCEPT !.pc = pc]) is a move of a thread.             *)
LEMMA GotoTypes ==
    ASSUME IInv, NEW c \in Callers, NEW pc \in PCs, Goto(c, pc)
    PROVE  \E q \in Thread : Set(c, q) /\ q.pc = pc
<1>1. caller[c] \in Thread
  BY ThreadFacts
<1>2. [caller[c] EXCEPT !.pc = pc] \in Thread
  BY <1>1 DEF Thread
<1>3. [caller[c] EXCEPT !.pc = pc].pc = pc
  BY <1>1 DEF Thread
<1> QED BY <1>2, <1>3 DEF Goto

(* create_application's transaction starts from an application that is not *)
(* there, so it has nothing to take away (submit_application).             *)
LEMMA SubmitInv ==
    ASSUME IInv, NEW c \in Callers, Submit(c)
    PROVE  IInv'
<1>1. PICK q \in Thread : Set(c, q) /\ q.pc = "check"
  BY GotoTypes DEF Submit, PCs
<1>2. TypeOK'
  BY <1>1, MoveTypes DEF IInv, Submit, TypeOK, record
<1>3. ~Exists /\ events = <<>> /\ pointer = "none" /\ offer = NoOffer /\ ~loan /\ ~checked
  BY DEF Submit, IInv, NothingOutlivesApplication, Exists
<1>4. Grows
  BY <1>3 DEF Grows, Submit, Exists, Authority, KycPassed, Whole, record
<1>5. Relies(caller[c])'
  BY <1>1, MoveTypes DEF IInv, Relies, Submit, record
<1>6. CallerInv'
  BY <1>1, <1>4, <1>5, MovedCaller DEF IInv
<1> QED BY <1>2, <1>3, <1>6
        DEF IInv, Submit, LoanIsAuthorized, NothingOutlivesApplication, FundedIsWhole,
            Exists, record

(* A check's row is added while the applicant exists, and never removed    *)
(* alone (kyc_check).                                                      *)
LEMMA RunKycInv ==
    ASSUME IInv, NEW c \in Callers, RunKyc(c)
    PROVE  IInv'
<1>1. Idle \in Thread /\ Idle.pc = "idle" /\ Set(c, Idle)
  BY Fresh DEF IInv, RunKyc, Idle, Holding
<1>2. checked' \in BOOLEAN
  BY DEF RunKyc, IInv, TypeOK, Exists
<1>3. TypeOK'
  BY <1>1, <1>2, MoveTypes DEF IInv, RunKyc, TypeOK, record
<1>4. Grows
  BY DEF Grows, RunKyc, Exists, Authority, KycPassed, Approves, Whole, record, IInv,
         NothingOutlivesApplication
<1>5. Relies(caller[c])'
  BY <1>1, MoveTypes DEF IInv, Relies, RunKyc, record
<1>6. CallerInv'
  BY <1>1, <1>4, <1>5, MovedCaller DEF IInv
<1>7. LoanIsAuthorized'
  BY <1>4 DEF IInv, LoanIsAuthorized, RunKyc, Grows
<1>8. NothingOutlivesApplication' /\ FundedIsWhole'
  BY DEF IInv, RunKyc, NothingOutlivesApplication, FundedIsWhole, Exists, Whole, record
<1> QED BY <1>3, <1>6, <1>7, <1>8 DEF IInv

(* What an INSERT leaves of the record.                                    *)
LEMMA AppendFacts ==
    ASSUME NEW S, NEW s \in Seq(S), NEW e \in S
    PROVE  /\ Append(s, e) \in Seq(S)
           /\ Len(s) \in Nat
           /\ Len(Append(s, e)) = Len(s) + 1
           /\ 0..Len(s) \subseteq 0..Len(Append(s, e))
           /\ \A i \in DOMAIN s : i \in DOMAIN Append(s, e) /\ Append(s, e)[i] = s[i]
  OBVIOUS

(* A decision appends its event and leaves the earlier ones, so that what  *)
(* approved an offer still does (decision-service's create_decision).      *)
LEMMA DecideInv ==
    ASSUME IInv, NEW c \in Callers, Decide(c)
    PROVE  IInv'
<1>1. PICK e \in Record!Event : Record!Record(e)
  BY DEF Decide
<1>2. events' = Append(events, e) /\ pointer' = e.outcome /\ e.outcome \in Outcomes
  BY <1>1 DEF Record!Record, Record!Event
<1>3. /\ (events \in Seq(Record!Event))'
      /\ 0..Len(events) \subseteq 0..Len(events')
      /\ \A i \in DOMAIN events : i \in DOMAIN events' /\ events'[i] = events[i]
  BY <1>2, AppendFacts DEF IInv, TypeOK
<1>4. Idle \in Thread /\ Idle.pc = "idle" /\ Set(c, Idle)
  BY Fresh DEF IInv, Decide, Idle, Holding
<1>5. caller'[c] = Idle /\ (caller \in [Callers -> Thread])'
  <2>1. Thread \subseteq Thread'
    BY <1>3 DEF Thread
  <2>2. caller'[c] = Idle /\ caller' \in [Callers -> Thread]
    BY <1>4 DEF Set, IInv, TypeOK
  <2> QED BY <2>1, <2>2
<1>6. TypeOK'
  <2>1. (offer \in [status : {"absent", "made"}, edge : 0..Len(events)])'
    BY <1>3 DEF IInv, TypeOK, Decide, rows
  <2>2. (disclosure \in [status : {"absent", "pending", "bare", "delivered"},
                        event : 0..Len(events)])'
    BY <1>3 DEF IInv, TypeOK, Decide, rows
  <2>3. (pointer \in Outcomes \cup {"none"})'
    BY <1>2
  <2> QED BY <1>3, <1>5, <2>1, <2>2, <2>3 DEF IInv, TypeOK, Decide, rows
<1>7. Grows
  <2>1. pointer' # "none"
    BY <1>2 DEF Outcomes
  <2>2. Authority => Authority'
    BY <1>3 DEF Authority, KycPassed, Exists, Approves, Decide, rows
  <2> QED BY <2>1, <2>2 DEF Grows, Decide, rows, Exists, Whole
<1>8. Relies(caller[c])'
  BY <1>4, <1>5 DEF Relies
<1>9. CallerInv'
  BY <1>4, <1>7, <1>8, MovedCaller DEF IInv
<1>10. LoanIsAuthorized'
  BY <1>7 DEF IInv, LoanIsAuthorized, Grows, Decide, rows
<1>11. NothingOutlivesApplication' /\ FundedIsWhole'
  BY DEF IInv, Decide, NothingOutlivesApplication, FundedIsWhole, Exists, Whole, rows
<1> QED BY <1>6, <1>9, <1>10, <1>11 DEF IInv

(* An offer is inserted for an application that has been decided, which    *)
(* can no longer be deleted (make_offer).                                  *)
LEMMA MintInv ==
    ASSUME IInv, NEW c \in Callers, Mint(c)
    PROVE  IInv'
<1>1. Idle \in Thread /\ Idle.pc = "idle" /\ Set(c, Idle)
  BY Fresh DEF IInv, Mint, Idle, Holding
<1>2. Exists /\ pointer # "none"
  BY ThreadFacts DEF Mint, At, Relies
<1>3. caller[c].seen \in 0..Len(events)
  BY ThreadFacts DEF Thread
<1>4. offer' \in [status : {"absent", "made"}, edge : 0..Len(events)]
  BY <1>3 DEF Mint, IInv, TypeOK
<1>5. TypeOK'
  BY <1>1, <1>4, MoveTypes DEF IInv, Mint, TypeOK, record
<1>6. Authority => Authority'
  BY DEF Mint, Authority, KycPassed, Exists, Approves, record
<1>7. Grows
  BY <1>6 DEF Grows, Mint, Exists, Whole, record
<1>8. Relies(caller[c])'
  BY <1>1, MoveTypes DEF IInv, Relies, Mint, record
<1>9. CallerInv'
  BY <1>1, <1>7, <1>8, MovedCaller DEF IInv
<1> QED BY <1>2, <1>5, <1>6, <1>9
        DEF IInv, Mint, LoanIsAuthorized, NothingOutlivesApplication, FundedIsWhole,
            Exists, Whole, record

(* The INSERT of the loan comes statements after its guards were judged,   *)
(* and they hold still (accept_offer, board_to_servicing).                 *)
LEMMA BoardLoanInv ==
    ASSUME IInv, NEW c \in Callers, BoardLoan(c)
    PROVE  IInv'
<1>1. PICK q \in Thread : Set(c, q) /\ q.pc = "balance"
  BY GotoTypes DEF BoardLoan, PCs
<1>2. Authority
  BY ThreadFacts DEF BoardLoan, At, Relies
<1>3. TypeOK'
  BY <1>1, MoveTypes DEF IInv, BoardLoan, TypeOK, record
<1>4. Grows
  BY DEF Grows, BoardLoan, Exists, Authority, KycPassed, Approves, Whole, record
<1>5. Relies(caller[c])'
  BY <1>1, MoveTypes DEF IInv, Relies, BoardLoan, record
<1>6. CallerInv'
  BY <1>1, <1>4, <1>5, MovedCaller DEF IInv
<1>7. LoanIsAuthorized'
  BY <1>2, <1>4 DEF LoanIsAuthorized, Grows
<1>8. NothingOutlivesApplication' /\ FundedIsWhole'
  BY <1>2 DEF IInv, BoardLoan, NothingOutlivesApplication, FundedIsWhole, Authority,
              KycPassed, Exists, Whole, record
<1> QED BY <1>3, <1>6, <1>7, <1>8 DEF IInv

(* The balance is inserted for a loan that is there (board_to_servicing).  *)
LEMMA SeedBalanceInv ==
    ASSUME IInv, NEW c \in Callers, SeedBalance(c)
    PROVE  IInv'
<1>1. PICK q \in Thread : Set(c, q) /\ q.pc = "fund"
  BY GotoTypes DEF SeedBalance, PCs
<1>2. loan
  BY ThreadFacts DEF SeedBalance, At, Relies
<1>3. TypeOK'
  BY <1>1, MoveTypes DEF IInv, SeedBalance, TypeOK, record
<1>4. Grows
  BY DEF Grows, SeedBalance, Exists, Authority, KycPassed, Approves, Whole, record
<1>5. Relies(caller[c])'
  BY <1>1, <1>2, MoveTypes DEF IInv, Relies, SeedBalance, record
<1>6. CallerInv'
  BY <1>1, <1>4, <1>5, MovedCaller DEF IInv
<1>7. LoanIsAuthorized'
  BY <1>4 DEF IInv, LoanIsAuthorized, SeedBalance, Grows
<1>8. NothingOutlivesApplication' /\ FundedIsWhole'
  BY DEF IInv, SeedBalance, NothingOutlivesApplication, FundedIsWhole, Exists, Whole, record
<1> QED BY <1>3, <1>6, <1>7, <1>8 DEF IInv

(* The application is funded once its loan and balance are there           *)
(* (accept_offer's reconciliation).                                        *)
LEMMA FundInv ==
    ASSUME IInv, NEW c \in Callers, Fund(c)
    PROVE  IInv'
<1>1. PICK q \in Thread : Set(c, q) /\ q.pc = "accepted"
  BY GotoTypes DEF Fund, PCs
<1>2. loan /\ balance
  BY ThreadFacts DEF Fund, At, Relies
<1>3. Exists
  BY <1>2 DEF IInv, LoanIsAuthorized, Authority, KycPassed
<1>4. app' = "funded" /\ token' # "live" /\ token' \in {"none", "live", "retired"}
  BY <1>3 DEF Fund, IInv, TypeOK
<1>5. TypeOK'
  BY <1>1, <1>4, MoveTypes DEF IInv, Fund, TypeOK, record
<1>6. Grows
  BY <1>3, <1>4 DEF Grows, Fund, Exists, Authority, KycPassed, Approves, Whole, record
<1>7. Whole'
  BY <1>2, <1>4 DEF Whole, Fund
<1>8. Relies(caller[c])'
  BY <1>1, <1>7, MoveTypes DEF IInv, Relies, Fund, record
<1>9. CallerInv'
  BY <1>1, <1>6, <1>8, MovedCaller DEF IInv
<1>10. LoanIsAuthorized'
  BY <1>6 DEF IInv, LoanIsAuthorized, Fund, Grows
<1>11. NothingOutlivesApplication' /\ FundedIsWhole'
  BY <1>4, <1>7 DEF NothingOutlivesApplication, FundedIsWhole, Exists
<1> QED BY <1>5, <1>9, <1>10, <1>11 DEF IInv

-----------------------------------------------------------------------------
(* The steps of disclosure-service, of time and of the compensation.       *)

(* The record's creation and the edge it closes: no offer is boarded       *)
(* before it (create_offer and _close_provenance_edge in disclosure-       *)
(* service).                                                               *)
LEMMA DiscloseInv ==
    ASSUME IInv, NEW e \in DOMAIN events, Disclose(e)
    PROVE  IInv'
<1>1. disclosure.status # "delivered"
  BY DEF Disclose, NoDisclosure
<1>2. ~Authority /\ ~loan
  BY <1>1 DEF IInv, LoanIsAuthorized, Authority
<1>3. Exists
  BY DEF Disclose, IInv, NothingOutlivesApplication
<1>4. e \in 0..Len(events)
  BY DEF IInv, TypeOK
<1>5. TypeOK'
  BY <1>4 DEF IInv, TypeOK, Disclose, record, Thread
<1>6. Grows
  BY <1>2 DEF Grows, Disclose, Exists, Whole, record
<1>7. CallerInv'
  BY <1>6, StillCaller DEF IInv, Disclose
<1> QED BY <1>2, <1>3, <1>5, <1>7
        DEF IInv, Disclose, LoanIsAuthorized, NothingOutlivesApplication, FundedIsWhole,
            Exists, Whole, record

(* Closing an open edge names the event that the disclosure names already  *)
(* (_close_provenance_edge).                                               *)
LEMMA CloseEdgeInv ==
    ASSUME IInv, CloseEdge
    PROVE  IInv'
<1>1. /\ offer \in [status : {"absent", "made"}, edge : 0..Len(events)]
      /\ disclosure.event \in 0..Len(events)
  BY DEF IInv, TypeOK
<1>2. offer.status = "made"
  BY <1>1 DEF CloseEdge, NoOffer, NoEdge
<1>3. /\ offer' \in [status : {"absent", "made"}, edge : 0..Len(events)]
      /\ offer' # NoOffer /\ offer'.edge = disclosure.event
  BY <1>1, <1>2 DEF CloseEdge, NoOffer
<1>4. Exists
  BY DEF CloseEdge, IInv, NothingOutlivesApplication
<1>5. TypeOK'
  BY <1>3 DEF IInv, TypeOK, CloseEdge, record, Thread
<1>6. Grows
  BY <1>3 DEF Grows, CloseEdge, Exists, Authority, KycPassed, Approves, Whole, record
<1>7. CallerInv'
  BY <1>6, StillCaller DEF IInv, CloseEdge
<1>8. LoanIsAuthorized'
  BY <1>6 DEF IInv, LoanIsAuthorized, Grows, CloseEdge
<1> QED BY <1>4, <1>5, <1>7, <1>8
        DEF IInv, CloseEdge, NothingOutlivesApplication, FundedIsWhole, Exists, Whole, record

(* A disclosure is delivered before there is a loan (the review's          *)
(* transitions).                                                           *)
LEMMA DeliverInv ==
    ASSUME IInv, Deliver
    PROVE  IInv'
<1>1. ~Authority
  BY DEF Deliver, Authority
<1>2. disclosure' \in [status : {"absent", "pending", "bare", "delivered"},
                       event : 0..Len(events)]
  BY DEF Deliver, IInv, TypeOK
<1>3. TypeOK'
  BY <1>2 DEF IInv, TypeOK, Deliver, record, Thread
<1>4. Grows
  BY <1>1 DEF Grows, Deliver, Exists, Whole, record
<1>5. CallerInv'
  BY <1>4, StillCaller DEF IInv, Deliver
<1> QED BY <1>3, <1>5
        DEF IInv, Deliver, LoanIsAuthorized, NothingOutlivesApplication, FundedIsWhole,
            Exists, Whole, record

(* A token that expires takes nothing else with it.                        *)
LEMMA ExpireInv ==
    ASSUME IInv, Expire
    PROVE  IInv'
<1>1. TypeOK'
  BY DEF IInv, TypeOK, Expire, record, Thread
<1>2. Grows
  BY DEF Grows, Expire, Exists, Authority, KycPassed, Approves, Whole, record
<1>3. CallerInv'
  BY <1>2, StillCaller DEF IInv, Expire
<1>4. LoanIsAuthorized'
  BY <1>2 DEF IInv, LoanIsAuthorized, Grows, Expire
<1> QED BY <1>1, <1>3, <1>4
        DEF IInv, Expire, NothingOutlivesApplication, FundedIsWhole, Exists, Whole, record

(* The probe only reads, and so does a stuttering step.                    *)
LEMMA SameRowsInv ==
    ASSUME IInv, UNCHANGED <<rows, record, caller>>, abandon' \in {"idle", "delete"}
    PROVE  IInv'
<1>1. TypeOK'
  BY DEF IInv, TypeOK, rows, record, Thread
<1>2. CallerInv'
  BY SameRowsGrow, StillCaller DEF IInv
<1> QED BY <1>1, <1>2
        DEF IInv, LoanIsAuthorized, NothingOutlivesApplication, FundedIsWhole,
            Exists, Authority, KycPassed, Approves, Whole, rows, record

(* The DELETE goes through only for an application that nothing references,*)
(* and such an application has no loan (abandon_application).              *)
LEMMA DeleteInv ==
    ASSUME IInv, Delete
    PROVE  IInv'
<1>1. CASE events = <<>> /\ pointer = "none" /\ offer = NoOffer
  <2>1. /\ app' = "abandoned" /\ token' = "none" /\ checked' = FALSE /\ abandon' = "idle"
        /\ UNCHANGED <<complete, offer, disclosure, loan, balance, record, caller>>
    BY <1>1 DEF Delete
  <2>2. ~Authority /\ ~loan
    BY <1>1 DEF IInv, LoanIsAuthorized, Authority
  <2>3. TypeOK'
    BY <2>1 DEF IInv, TypeOK, record, Thread
  <2>4. Grows
    BY <1>1, <2>1, <2>2 DEF Grows, Whole, record
  <2>5. CallerInv'
    BY <2>1, <2>4, StillCaller DEF IInv
  <2> QED BY <1>1, <2>1, <2>2, <2>3, <2>5
          DEF IInv, LoanIsAuthorized, NothingOutlivesApplication, FundedIsWhole, record
<1>2. CASE ~(events = <<>> /\ pointer = "none" /\ offer = NoOffer)
  <2>1. UNCHANGED <<rows, record, caller>> /\ abandon' = "idle"
    BY <1>2 DEF Delete, rows
  <2> QED BY <2>1, SameRowsInv
<1> QED BY <1>1, <1>2

-----------------------------------------------------------------------------
(* Whatever thread moves, what every other one counts on still holds.      *)
LEMMA StepInv ==
    ASSUME IInv, [Next]_vars
    PROVE  IInv'
<1>1. ASSUME NEW c \in Callers, CallerStep(c) PROVE IInv'
  <2>1. CASE Submit(c)
    BY <2>1, SubmitInv
  <2>2. CASE RunKyc(c)
    BY <2>2, RunKycInv
  <2>3. CASE Decide(c)
    BY <2>3, DecideInv
  <2>4. CASE Mint(c)
    BY <2>4, MintInv
  <2>5. CASE BoardLoan(c)
    BY <2>5, BoardLoanInv
  <2>6. CASE SeedBalance(c)
    BY <2>6, SeedBalanceInv
  <2>7. CASE Fund(c)
    BY <2>7, FundInv
  <2>8. CASE ~(\/ Submit(c) \/ RunKyc(c) \/ Decide(c) \/ Mint(c)
              \/ BoardLoan(c) \/ SeedBalance(c) \/ Fund(c))
    BY <1>1, <2>8, QuietStep DEF CallerStep
  <2> QED BY <2>1, <2>2, <2>3, <2>4, <2>5, <2>6, <2>7, <2>8
<1>2. CASE \E e \in DOMAIN events : Disclose(e)
  BY <1>2, DiscloseInv
<1>3. CASE CloseEdge
  BY <1>3, CloseEdgeInv
<1>4. CASE Deliver
  BY <1>4, DeliverInv
<1>5. CASE Expire
  BY <1>5, ExpireInv
<1>6. CASE ProbeInert
  BY <1>6, SameRowsInv DEF ProbeInert
<1>7. CASE Delete
  BY <1>7, DeleteInv
<1>8. CASE UNCHANGED vars
  BY <1>8, SameRowsInv DEF vars, rows, record, IInv, TypeOK
<1> QED BY <1>1, <1>2, <1>3, <1>4, <1>5, <1>6, <1>7, <1>8 DEF Next

(* The inductive invariant holds in every behaviour of the pipeline.       *)
THEOREM IInvHolds == Spec => []IInv
BY InitInv, StepInv, PTL DEF Spec

(* Every row and thread has its type, an edge or a citation an event that  *)
(* is there (the schema's foreign keys).                                   *)
THEOREM TypeCorrect == Spec => []TypeOK
<1>1. IInv => TypeOK
  BY DEF IInv
<1> QED BY <1>1, IInvHolds, PTL

(* A loan stands on a passed KYC, an offer and its delivered disclosure of *)
(* an approving decision, in every interleaving of any number of handlers  *)
(* (accept_offer).                                                         *)
THEOREM LoansAreAuthorized == Spec => []LoanIsAuthorized
<1>1. IInv => LoanIsAuthorized
  BY DEF IInv
<1> QED BY <1>1, IInvHolds, PTL

(* Whoever is answered 200 by an acceptance finds the loan whole.          *)
THEOREM AcceptedLoansAreWhole == Spec => []AcceptedIsWhole
<1>1. IInv => AcceptedIsWhole
  BY DEF IInv, CallerInv, Relies, AcceptedIsWhole, At
<1> QED BY <1>1, IInvHolds, PTL

(* The compensation leaves nothing behind and takes nothing decided.       *)
THEOREM NothingIsOrphaned == Spec => []NothingOutlivesApplication
<1>1. IInv => NothingOutlivesApplication
  BY DEF IInv
<1> QED BY <1>1, IInvHolds, PTL

(* No step but the closing of an open edge writes an offer that is there,  *)
(* and none writes a closed edge (make_offer's replay and                  *)
(* _close_provenance_edge's IS NULL).                                      *)
LEMMA ClosedEdgeStays ==
    ASSUME IInv, [Next]_vars, offer.edge # NoEdge
    PROVE  offer' = offer
<1>1. offer # NoOffer
  BY DEF NoOffer
<1>2. ASSUME NEW c \in Callers, CallerStep(c) PROVE offer' = offer
  BY <1>1, <1>2
     DEF CallerStep, Submit, Recheck, RunKyc, Start, Gate, Decide, DecideNothing, ReadPointer,
         ReadLatestEvent, Mint, Accept, ReadRow, LookForLoan, BoardLoan, SeedBalance, Fund,
         Leave, Crash, rows
<1>3. ASSUME NEW e \in DOMAIN events, Disclose(e) PROVE offer' = offer
  BY <1>3 DEF Disclose, IInv, TypeOK
<1>4. CASE CloseEdge \/ Deliver \/ Expire \/ ProbeInert \/ Delete \/ UNCHANGED vars
  BY <1>4 DEF CloseEdge, Deliver, Expire, ProbeInert, Delete, vars, rows
<1> QED BY <1>2, <1>3, <1>4 DEF Next

(* The decision that an offer was made on is never replaced.               *)
THEOREM OffersKeepTheirDecision == Spec => OfferKeepsItsDecision
<1>1. IInv /\ [Next]_vars => [offer.edge # NoEdge => offer' = offer]_vars
  BY ClosedEdgeStays
<1> QED BY <1>1, IInvHolds, PTL DEF Spec, OfferKeepsItsDecision

=============================================================================
