------------------------- MODULE DocumentsProofs --------------------------
(***************************************************************************)
(* The disclosure's life in its service, the pipeline in origination that  *)
(* asks for it, the search of the policy corpus and the harness it is      *)
(* calibrated with, for every number of threads, decisions, documents,     *)
(* files and runs.                                                         *)
(*                                                                         *)
(* What a thread of the service has read stays true enough for what it     *)
(* will write, because a row is never removed, a document never erased, a  *)
(* closed edge never moved, a delivered row never changed, and a loan      *)
(* boarded only over one. A stage of the pipeline relies on what those     *)
(* before it have found, while others decide, offer, generate and deliver. *)
(* A build of the index relies on the gate's judgement only of a text that *)
(* is still the one judged; so does a run of the harness, whose report     *)
(* counts each row of its gold set once.                                   *)
(***************************************************************************)
EXTENDS Disclosures, Coordinator, PolicyIndex, Evaluation, SequenceTheorems,
        FiniteSetTheorems, WellFoundedInduction, TLAPS

(* The disclosure-service.                                                 *)

(* What a creating thread may rely on.                                     *)
CreatorKnows(c) ==
    LET q == creator[c] IN
    /\ q.pc \in {"look", "insert", "replay"} =>
         IF q.edge = NoEvent
         THEN edge = NoEvent \/ (row.status # "absent" /\ edge = row.event)
         ELSE edge = q.edge
    /\ q.pc = "insert" => Authorizes(c)
    /\ q.pc \in {"lost", "replay"} => row.status # "absent"
    /\ q.pc = "replay" => q.event = row.event

(* What a reviewing thread may rely on.                                    *)
ReviewerKnows(o) ==
    LET q == reviewer[o] IN
    /\ q.pc # "idle" => q.target \in LEGAL_TRANSITIONS[q.seen]
    /\ q.pc \in {"chain", "loan"} => q.target = "delivered"
    /\ q.pc # "idle" /\ q.target = "delivered" =>
         row.status # "absent" /\ row.document # NoDocument
    /\ q.pc \in {"loan", "write"} /\ q.target = "delivered" => ChainWhole
    /\ q.pc = "write" /\ q.target = "delivered" /\ row.status # "delivered" =>
         loan = "none"

IInv ==
    /\ TypeOK
    /\ \A c \in Creators : CreatorKnows(c)
    /\ \A o \in Reviewers : ReviewerKnows(o)
    /\ \A a \in Acceptors : acceptor[a] \in {"look", "board"} => MayBoard

-----------------------------------------------------------------------------
(* The whitelist as an arrow from status to status (LEGAL_TRANSITIONS).    *)
LEMMA LegalTargets ==
    ASSUME NEW s \in Statuses \cup {"absent"}, NEW t
    PROVE  t \in LEGAL_TRANSITIONS[s] <=>
              \/ s = "draft" /\ t = "in_review"
              \/ s = "in_review" /\ t \in {"approved", "draft"}
              \/ s = "approved" /\ t \in {"delivered", "draft"}
BY DEF LEGAL_TRANSITIONS, Statuses

(* Init establishes the invariant: every thread is idle.                   *)
LEMMA InitIInv == Init => IInv
BY DisclosureAssumption
DEF Init, IInv, TypeOK, Row, Creator, Reviewer, Statuses, Absent, IdleCreator,
    IdleReviewer, CreatorKnows, ReviewerKnows

-----------------------------------------------------------------------------
(* What every step keeps, whoever takes it.                                *)
Keeps ==
    /\ edge # NoEvent => edge' = edge
    /\ edge' # edge => row'.status # "absent" /\ edge' = row'.event
    /\ row.status # "absent" =>
         /\ row'.status # "absent" /\ row'.event = row.event
         /\ row.document # NoDocument => row'.document # NoDocument
    /\ row.status = "absent" /\ row'.status # "absent" => edge' = row'.event
    /\ row.status = "delivered" => row' = row
    /\ loan' # loan => MayBoard

(* A creating thread's step keeps all that: its late writes name the row's *)
(* own event, and never reach a delivered row (Insert, Replay).            *)
LEMMA CreatorKeeps ==
    ASSUME IInv, NEW c \in Creators, CreatorStep(c)
    PROVE  Keeps
<1> USE DisclosureAssumption
    DEF IInv, TypeOK, Row, Creator, CreatorKnows, Statuses, Keeps, AnswerCreator, Goto,
        SetCreator, Absent
<1>1. ASSUME NEW e \in Events, NEW d \in Documents \cup {NoDocument}, ReadOffer(c, e, d)
      PROVE  Keeps
  BY <1>1 DEF ReadOffer
<1>2. CASE LookForMissing(c)
  BY <1>2 DEF LookForMissing
<1>3. CASE FindExisting(c)
  BY <1>3 DEF FindExisting
<1>4. CASE Insert(c)
  BY <1>4 DEF Insert, Closed, Authorizes
<1>5. CASE InsertConflict(c)
  BY <1>5 DEF InsertConflict
<1>6. CASE ReplayWinner(c)
  BY <1>6 DEF ReplayWinner, Closed
<1>7. CASE Replay(c)
  BY <1>7 DEF Replay, Closed, Repaired
<1>8. CASE ReplayFrozen(c)
  BY <1>8 DEF ReplayFrozen
<1>9. CASE CreatorDies(c)
  BY <1>9 DEF CreatorDies
<1> QED BY <1>1, <1>2, <1>3, <1>4, <1>5, <1>6, <1>7, <1>8, <1>9 DEF CreatorStep

(* A reviewing thread's step keeps it: it moves only the status, and not   *)
(* off "delivered" (Write).                                                *)
LEMMA ReviewerKeeps ==
    ASSUME IInv, NEW o \in Reviewers, ReviewerStep(o)
    PROVE  Keeps
<1>1. ASSUME row' = row, edge' = edge, loan' = loan PROVE Keeps
  BY <1>1 DEF Keeps
<1>2. ASSUME NEW t \in Statuses, ReadRow(o, t) PROVE Keeps
  BY <1>1, <1>2 DEF ReadRow
<1>3. CASE CheckChain(o) \/ CheckLoan(o) \/ ReviewerDies(o)
  BY <1>1, <1>3 DEF CheckChain, CheckLoan, ReviewerDies
<1>4. CASE Write(o)
  <2>1. reviewer[o] \in Reviewer /\ ReviewerKnows(o) /\ row \in Row
    BY DEF IInv, TypeOK
  <2>2. reviewer[o].target \in LEGAL_TRANSITIONS[reviewer[o].seen]
    BY <1>4, <2>1 DEF ReviewerKnows, Write
  <2>3. reviewer[o].target # "absent" /\ reviewer[o].seen \notin {"absent", "delivered"}
    BY <2>1, <2>2, LegalTargets DEF Reviewer, Statuses
  <2> QED BY <1>4, <2>1, <2>3 DEF Write, Keeps, Row
<1> QED BY <1>2, <1>3, <1>4 DEF ReviewerStep

(* An accepting thread's step keeps it: it boards over what MayBoard saw.  *)
LEMMA AcceptorKeeps ==
    ASSUME IInv, NEW a \in Acceptors, AcceptorStep(a)
    PROVE  Keeps
BY DEF IInv, AcceptorStep, ReadTerms, LookForLoan, Board, AcceptorDies, AcceptorGoto,
       Keeps

(* So every step keeps it (Next).                                          *)
LEMMA StepKeeps == IInv /\ [Next]_vars => Keeps
<1> SUFFICES ASSUME IInv, [Next]_vars PROVE Keeps
  OBVIOUS
<1>1. CASE UNCHANGED vars
  BY <1>1 DEF vars, Keeps
<1>2. CASE Next
  BY <1>2, CreatorKeeps, ReviewerKeeps, AcceptorKeeps DEF Next
<1> QED BY <1>1, <1>2

-----------------------------------------------------------------------------
(* A step that keeps all that leaves what an idle bystander knows true.    *)
LEMMA CreatorUnmoved ==
    ASSUME IInv, Keeps, NEW c \in Creators, creator'[c] = creator[c]
    PROVE  CreatorKnows(c)'
BY DEF IInv, CreatorKnows, Keeps, Authorizes

(* The same of a reviewing thread: what it checked stays so.                *)
LEMMA ReviewerUnmoved ==
    ASSUME IInv, Keeps, NEW o \in Reviewers, reviewer'[o] = reviewer[o]
    PROVE  ReviewerKnows(o)'
BY DisclosureAssumption DEF IInv, TypeOK, ReviewerKnows, Keeps, ChainWhole, MayBoard

(* The acceptor's licence to board is monotone: what its SELECT saw stays  *)
(* true (accept_offer's comment).                                          *)
LEMMA MayBoardIsStable == Keeps /\ MayBoard => MayBoard'
BY DEF Keeps, MayBoard

(* A creating thread's step leaves it knowing what it needs next.          *)
LEMMA CreatorMoved ==
    ASSUME IInv, NEW c \in Creators, CreatorStep(c)
    PROVE  creator'[c] \in Creator /\ CreatorKnows(c)'
<1> USE DEF IInv, TypeOK, AnswerCreator, Goto, SetCreator, IdleCreator, CreatorKnows,
            Creator, Statuses, Row
<1>1. ASSUME NEW e \in Events, NEW d \in Documents \cup {NoDocument}, ReadOffer(c, e, d)
      PROVE  creator'[c] \in Creator /\ CreatorKnows(c)'
  BY <1>1 DEF ReadOffer
<1>2. CASE LookForMissing(c)
  BY <1>2 DEF LookForMissing, Authorizes
<1>3. CASE FindExisting(c)
  BY <1>3 DEF FindExisting, Repair
<1>4. CASE Insert(c)
  BY <1>4 DEF Insert
<1>5. CASE InsertConflict(c)
  BY <1>5 DEF InsertConflict
<1>6. CASE ReplayWinner(c)
  BY <1>6 DEF ReplayWinner
<1>7. CASE Replay(c)
  BY <1>7 DEF Replay
<1>8. CASE ReplayFrozen(c)
  BY <1>8 DEF ReplayFrozen
<1>9. CASE CreatorDies(c)
  BY <1>9 DEF CreatorDies
<1> QED BY <1>1, <1>2, <1>3, <1>4, <1>5, <1>6, <1>7, <1>8, <1>9 DEF CreatorStep

(* So does a reviewing thread's step: each guard adds what it checked.     *)
LEMMA ReviewerMoved ==
    ASSUME IInv, NEW o \in Reviewers, ReviewerStep(o)
    PROVE  reviewer'[o] \in Reviewer /\ ReviewerKnows(o)'
<1>0. reviewer[o] \in Reviewer /\ ReviewerKnows(o) /\ row \in Row /\ reviewer = [p \in Reviewers |-> reviewer[p]]
  BY DEF IInv, TypeOK
<1>1. ASSUME reviewer'[o] = IdleReviewer
      PROVE  reviewer'[o] \in Reviewer /\ ReviewerKnows(o)'
  BY <1>1 DEF IdleReviewer, Reviewer, Statuses, ReviewerKnows
<1>2. ASSUME NEW t \in Statuses, ReadRow(o, t)
      PROVE  reviewer'[o] \in Reviewer /\ ReviewerKnows(o)'
  <2>1. row.status \in Statuses \cup {"absent"} /\ row' = row
    BY <1>0, <1>2 DEF Row, ReadRow
  <2>2. row.status \in Statuses /\ (t = "delivered" => row.status = "approved")
    BY <1>2, <2>1, LegalTargets DEF ReadRow, Statuses
  <2>3. reviewer'[o] = [pc |-> IF t = "delivered" THEN "chain" ELSE "write",
                        target |-> t, seen |-> row.status]
    BY <1>0, <1>2 DEF ReadRow, SetReviewer
  <2>4. t \in LEGAL_TRANSITIONS[row.status] /\ (t = "delivered" => row.document # NoDocument)
    BY <1>2 DEF ReadRow
  <2> QED BY <2>1, <2>2, <2>3, <2>4 DEF Reviewer, ReviewerKnows, Statuses
<1>3. CASE CheckChain(o)
  BY <1>0, <1>1, <1>3
  DEF CheckChain, Proceed, SetReviewer, Reviewer, ReviewerKnows, ChainWhole
<1>4. CASE CheckLoan(o)
  BY <1>0, <1>1, <1>4
  DEF CheckLoan, Proceed, SetReviewer, Reviewer, ReviewerKnows, ChainWhole
<1>5. CASE Write(o) \/ ReviewerDies(o)
  BY <1>0, <1>1, <1>5 DEF Write, ReviewerDies, SetReviewer
<1> QED BY <1>2, <1>3, <1>4, <1>5 DEF ReviewerStep

(* The offer, the record and the loan keep their types.                    *)
LEMMA DataTyped ==
    ASSUME IInv, [Next]_vars
    PROVE  edge' \in Events \cup {NoEvent} /\ row' \in Row /\ loan' \in {"none", "boarded"}
<1> USE DEF IInv, TypeOK
<1>1. CASE UNCHANGED vars
  BY <1>1 DEF vars
<1>2. ASSUME NEW c \in Creators, CreatorStep(c)
      PROVE  edge' \in Events \cup {NoEvent} /\ row' \in Row /\ loan' = loan
  <2> USE DEF Creator, Row, Statuses
  <2>1. CASE Insert(c)
    BY <2>1 DEF Insert, Closed
  <2>2. CASE Replay(c)
    BY <2>2 DEF Replay, Closed, Repaired
  <2>3. CASE ReplayWinner(c)
    BY <2>3 DEF ReplayWinner, Closed
  <2>4. CASE ~(Insert(c) \/ Replay(c) \/ ReplayWinner(c))
    BY <1>2, <2>4
    DEF CreatorStep, ReadOffer, LookForMissing, FindExisting, InsertConflict,
        ReplayFrozen, CreatorDies
  <2> QED BY <2>1, <2>2, <2>3, <2>4
<1>3. ASSUME NEW o \in Reviewers, ReviewerStep(o)
      PROVE  edge' = edge /\ row' \in Row /\ loan' = loan
  BY <1>3
  DEF ReviewerStep, ReadRow, CheckChain, CheckLoan, Write, ReviewerDies, Reviewer, Row
<1>4. ASSUME NEW a \in Acceptors, AcceptorStep(a)
      PROVE  edge' = edge /\ row' = row /\ loan' \in {"none", "boarded"}
  BY <1>4 DEF AcceptorStep, ReadTerms, LookForLoan, Board, AcceptorDies, AcceptorGoto
<1> QED BY <1>1, <1>2, <1>3, <1>4 DEF Next

(* A step moves one thread and no other (create_disclosure).               *)
LEMMA CreatorAlone ==
    ASSUME IInv, NEW c \in Creators, CreatorStep(c)
    PROVE  /\ creator' = [creator EXCEPT ![c] = creator'[c]]
           /\ UNCHANGED <<reviewer, acceptor>>
<1>1. UNCHANGED <<reviewer, acceptor>> /\ \E q : SetCreator(c, q)
  BY DEF CreatorStep, ReadOffer, LookForMissing, FindExisting, Insert, InsertConflict,
         ReplayWinner, Replay, ReplayFrozen, CreatorDies, AnswerCreator, Goto
<1> QED BY <1>1 DEF SetCreator, IInv, TypeOK

(* The same of a reviewing thread (transition_disclosure).                 *)
LEMMA ReviewerAlone ==
    ASSUME IInv, NEW o \in Reviewers, ReviewerStep(o)
    PROVE  /\ reviewer' = [reviewer EXCEPT ![o] = reviewer'[o]]
           /\ UNCHANGED <<creator, acceptor>>
<1>1. UNCHANGED <<creator, acceptor>> /\ \E q : SetReviewer(o, q)
  BY DEF ReviewerStep, ReadRow, CheckChain, CheckLoan, Write, ReviewerDies, Proceed
<1> QED BY <1>1 DEF SetReviewer, IInv, TypeOK

(* The same of an accepting one, which leaves its SELECT only if it may    *)
(* board (accept_offer).                                                   *)
LEMMA AcceptorAlone ==
    ASSUME IInv, NEW a \in Acceptors, AcceptorStep(a)
    PROVE  /\ UNCHANGED <<creator, reviewer>>
           /\ \E pc \in {"idle", "look", "board"} :
                /\ acceptor' = [acceptor EXCEPT ![a] = pc]
                /\ pc # "idle" => MayBoard
BY DEF AcceptorStep, ReadTerms, LookForLoan, Board, AcceptorDies, AcceptorGoto, IInv, TypeOK

(* The invariant is inductive.                                             *)
LEMMA NextIInv == IInv /\ [Next]_vars => IInv'
<1> SUFFICES ASSUME IInv, [Next]_vars PROVE IInv'
  OBVIOUS
<1>1. Keeps
  BY StepKeeps
<1>2. creator \in [Creators -> Creator] /\ reviewer \in [Reviewers -> Reviewer]
      /\ acceptor \in [Acceptors -> {"idle", "look", "board"}]
  BY DEF IInv, TypeOK
<1>3. CASE UNCHANGED vars
  <2>1. UNCHANGED <<creator, reviewer, acceptor>>
    BY <1>3 DEF vars
  <2> QED
    BY <1>1, <1>2, <2>1, CreatorUnmoved, ReviewerUnmoved, MayBoardIsStable, DataTyped
    DEF IInv, TypeOK
<1>4. ASSUME NEW c \in Creators, CreatorStep(c) PROVE IInv'
  <2>1. creator' = [creator EXCEPT ![c] = creator'[c]] /\ UNCHANGED <<reviewer, acceptor>>
    BY <1>4, CreatorAlone
  <2>2. creator'[c] \in Creator /\ CreatorKnows(c)'
    BY <1>4, CreatorMoved
  <2>3. \A d \in Creators : CreatorKnows(d)'
    BY <1>1, <1>2, <2>1, <2>2, CreatorUnmoved
  <2> QED
    BY <1>1, <1>2, <2>1, <2>2, <2>3, ReviewerUnmoved, MayBoardIsStable, DataTyped
    DEF IInv, TypeOK
<1>5. ASSUME NEW o \in Reviewers, ReviewerStep(o) PROVE IInv'
  <2>1. reviewer' = [reviewer EXCEPT ![o] = reviewer'[o]] /\ UNCHANGED <<creator, acceptor>>
    BY <1>5, ReviewerAlone
  <2>2. reviewer'[o] \in Reviewer /\ ReviewerKnows(o)'
    BY <1>5, ReviewerMoved
  <2>3. \A p \in Reviewers : ReviewerKnows(p)'
    BY <1>1, <1>2, <2>1, <2>2, ReviewerUnmoved
  <2> QED
    BY <1>1, <1>2, <2>1, <2>2, <2>3, CreatorUnmoved, MayBoardIsStable, DataTyped
    DEF IInv, TypeOK
<1>6. ASSUME NEW a \in Acceptors, AcceptorStep(a) PROVE IInv'
  <2>1. UNCHANGED <<creator, reviewer>>
    BY <1>6, AcceptorAlone
  <2>2. PICK pc \in {"idle", "look", "board"} :
           acceptor' = [acceptor EXCEPT ![a] = pc] /\ (pc # "idle" => MayBoard)
    BY <1>6, AcceptorAlone
  <2>3. \A b \in Acceptors : acceptor'[b] \in {"look", "board"} => MayBoard'
    BY <1>1, <1>2, <2>2, MayBoardIsStable DEF IInv
  <2> QED
    BY <1>1, <1>2, <2>1, <2>2, <2>3, CreatorUnmoved, ReviewerUnmoved, DataTyped
    DEF IInv, TypeOK
<1> QED BY <1>3, <1>4, <1>5, <1>6 DEF Next

(* So it holds of every behaviour.                                         *)
THEOREM IInvHolds == Spec => []IInv
<1>1. Init => IInv
  BY InitIInv
<1>2. IInv /\ [Next]_vars => IInv'
  BY NextIInv
<1> QED BY <1>1, <1>2, PTL DEF Spec

(* Every variable keeps its type (TypeOK).                                 *)
THEOREM TypeIsCorrect == Spec => []TypeOK
BY IInvHolds, PTL DEF IInv

-----------------------------------------------------------------------------
(* A step of review follows the whitelist and delivers only what its three *)
(* guards found, which still holds when the UPDATE runs (Write).           *)
LEMMA ReviewIsLegal ==
    ASSUME IInv, NEW o \in Reviewers, ReviewerStep(o)
    PROVE  LegalStep /\ WholeDelivery
<1>1. ASSUME row' = row PROVE LegalStep /\ WholeDelivery
  BY <1>1 DEF LegalStep, WholeDelivery
<1>2. CASE Write(o)
  <2>1. reviewer[o] \in Reviewer /\ ReviewerKnows(o) /\ row \in Row
    BY DEF IInv, TypeOK
  <2>2. SUFFICES ASSUME row.status = reviewer[o].seen,
                        row' = [row EXCEPT !.status = reviewer[o].target]
                 PROVE  LegalStep /\ WholeDelivery
    BY <1>1, <1>2, <2>1 DEF Write
  <2>3. row'.status \in LEGAL_TRANSITIONS[row.status] /\ UNCHANGED <<edge, loan>>
        /\ row'.status = reviewer[o].target /\ reviewer[o].pc = "write"
        /\ row'.document = row.document /\ row'.event = row.event
    BY <1>2, <2>1, <2>2 DEF Write, ReviewerKnows, Row
  <2>4. LegalStep
    BY <2>3 DEF LegalStep
  <2> QED BY <2>1, <2>3, <2>4 DEF WholeDelivery, ReviewerKnows, ChainWhole
<1>3. CASE ~Write(o)
  BY <1>1, <1>3 DEF ReviewerStep, ReadRow, CheckChain, CheckLoan, ReviewerDies
<1> QED BY <1>2, <1>3

(* A creation or a repair moves a status only back to draft (Replay).      *)
LEMMA CreationIsLegal ==
    ASSUME IInv, NEW c \in Creators, CreatorStep(c)
    PROVE  LegalStep /\ WholeDelivery
<1>1. ASSUME row' = row PROVE LegalStep /\ WholeDelivery
  BY <1>1 DEF LegalStep, WholeDelivery
<1>2. CASE Insert(c)
  BY <1>2 DEF Insert, LegalStep, WholeDelivery
<1>3. CASE Replay(c)
  <2>1. row \in Row
    BY DEF IInv, TypeOK
  <2>2. SUFFICES ASSUME row.status # "delivered", row' = Repaired(c)
                 PROVE  LegalStep /\ WholeDelivery
    BY <1>1, <1>3 DEF Replay
  <2>3. row'.status \in {row.status, "draft"}
    BY <2>1, <2>2 DEF Repaired, Row
  <2> QED
    BY <2>1, <2>2, <2>3, LegalTargets DEF LegalStep, WholeDelivery, Row, Statuses
<1>4. CASE ~(Insert(c) \/ Replay(c))
  BY <1>1, <1>4 DEF CreatorStep, ReadOffer, LookForMissing, FindExisting, InsertConflict,
                    ReplayWinner, ReplayFrozen, CreatorDies
<1> QED BY <1>2, <1>3, <1>4

(* So does every step (Next).                                              *)
LEMMA StepIsLegal == IInv /\ [Next]_vars => LegalStep /\ WholeDelivery
<1> SUFFICES ASSUME IInv, [Next]_vars PROVE LegalStep /\ WholeDelivery
  OBVIOUS
<1>1. ASSUME row' = row PROVE LegalStep /\ WholeDelivery
  BY <1>1 DEF LegalStep, WholeDelivery
<1>2. ASSUME NEW a \in Acceptors, AcceptorStep(a) PROVE row' = row
  BY <1>2 DEF AcceptorStep, ReadTerms, LookForLoan, Board, AcceptorDies, AcceptorGoto
<1> QED BY <1>1, <1>2, ReviewIsLegal, CreationIsLegal DEF Next, vars

(* No step, of however many officers and late repairs, skips review.       *)
THEOREM LifecycleHolds == Spec => LifecycleIsLegal
<1>1. IInv /\ [Next]_vars => [LegalStep]_vars
  BY StepIsLegal
<1> QED BY <1>1, IInvHolds, PTL DEF Spec, LifecycleIsLegal

(* Every delivery comes by way of review and has a document, one approving *)
(* decision and no loan yet, though its guards are read one by one         *)
(* (transition_disclosure).                                                *)
THEOREM DeliveryHolds == Spec => DeliveryIsWhole
<1>1. IInv /\ [Next]_vars => [LegalStep /\ WholeDelivery]_vars
  BY StepIsLegal
<1> QED BY <1>1, IInvHolds, PTL DEF Spec, DeliveryIsWhole

(* A delivered record never changes (trg_disclosures_freeze_delivered).    *)
THEOREM FreezeHolds == Spec => DeliveredIsFrozen
<1>1. IInv /\ [Next]_vars => [row.status = "delivered" => row' = row]_vars
  BY StepKeeps DEF Keeps
<1> QED BY <1>1, IInvHolds, PTL DEF Spec, DeliveredIsFrozen

(* The offer's decision is never replaced, and its record names it         *)
(* (_refuse_if_decision_event_invalid, _close_provenance_edge).            *)
THEOREM OneDecisionHolds == Spec => OneDecisionPerOffer
<1>1. IInv /\ [Next]_vars => [OneDecision]_vars
  BY StepKeeps DEF Keeps, OneDecision
<1> QED BY <1>1, IInvHolds, PTL DEF Spec, OneDecisionPerOffer

(* No loan is boarded without its delivered, readable and approved         *)
(* disclosure, for any number of acceptances racing reviews (accept_offer).*)
THEOREM BoardingHolds == Spec => BoardingIsDisclosed
<1>1. IInv /\ [Next]_vars => [DisclosedBoarding]_vars
  BY StepKeeps DEF Keeps, DisclosedBoarding, MayBoard
<1> QED BY <1>1, IInvHolds, PTL DEF Spec, BoardingIsDisclosed

-----------------------------------------------------------------------------
(* The coordinator (disclosure_coordinator.py).                            *)

(* What a stage may rely on of what the ones before it have found, while   *)
(* others decide, offer, generate and deliver.                             *)
FitToCite(e) ==
    \/ minted > 0 /\ e = minted
    \/ minted = 0 /\ Approves(e)
    \/ minted # Absence /\ recorded # NoRecord

IsWritten == recorded # NoRecord /\ minted > 0 /\ (recorded.document \/ recorded.delivered)

StageRelies(o) ==
    /\ run[o].stage = "compute" => Approves(run[o].event)
    /\ run[o].stage \in {"assemble", "verify", "narrate", "persist"} => FitToCite(run[o].event)
    /\ run[o].stage \in {"narrate", "persist"} => run[o].spells
    /\ run[o].stage \in {"compute", "assemble"} => run[o].attempts < MaxAttempts
    /\ run[o].stage = "chain" => IsWritten

AnswerHolds(o) ==
    /\ run[o].answer = "refused" => minted > 0 /\ ~Approves(minted)
    /\ run[o].answer = "ok" => IsWritten /\ ChainIsWhole
    /\ run[o].answer = "blocked_with_id" => recorded # NoRecord /\ minted > 0 /\ ~ChainIsWhole

(* An edge leads to an event, and a record belongs to an offer.            *)
EdgesExist ==
    /\ minted \in {Absence} \cup 0 .. Len(decided)
    /\ recorded # NoRecord => recorded.cites \in DOMAIN decided /\ minted # Absence

PipelineInv ==
    /\ CoordinatorTypeOK /\ EdgesExist
    /\ \A o \in Officers : StageRelies(o) /\ AnswerHolds(o)

(* The rows only move one way: events are added, an edge is closed once, a *)
(* record keeps the decision it cites and, once it has one, its document.  *)
RowsGrow ==
    /\ \A e \in DOMAIN decided : e \in DOMAIN decided' /\ decided'[e] = decided[e]
    /\ minted # Absence => minted' # Absence
    /\ minted > 0 => minted' = minted
    /\ minted = 0 => minted' = 0 \/ recorded' # NoRecord
    /\ recorded # NoRecord =>
          /\ recorded' # NoRecord /\ recorded'.cites = recorded.cites
          /\ recorded.document => recorded'.document
          /\ recorded.delivered => recorded'.delivered

(* So nothing that one request found is taken back by another.             *)
LEMMA FindingsLast ==
    ASSUME PipelineInv, EdgesExist', RowsGrow
    PROVE  /\ \A e : (Approves(e) => Approves(e)') /\ (FitToCite(e) => FitToCite(e)')
           /\ IsWritten => IsWritten'
           /\ minted > 0 => minted' = minted /\ (Approves(minted)' <=> Approves(minted))
           /\ recorded # NoRecord /\ minted > 0 =>
                 recorded' # NoRecord /\ (ChainIsWhole' <=> ChainIsWhole)
<1> USE DEF PipelineInv, CoordinatorTypeOK, EdgesExist, RowsGrow
<1>1. minted \in Int /\ minted' \in Int
  BY DEF Edges, Absence
<1>2. \A e \in DOMAIN decided : Approves(e)' <=> Approves(e)
  BY DEF Approves
<1>3. \A e : Approves(e) => Approves(e)'
  BY DEF Approves
<1>4. \A e : FitToCite(e) => FitToCite(e)'
  BY <1>1, <1>3 DEF FitToCite, Absence
<1>5. IsWritten => IsWritten'
  BY <1>1 DEF IsWritten
<1>6. minted > 0 => minted' = minted /\ (Approves(minted)' <=> Approves(minted))
  BY <1>1, <1>2 DEF Absence
<1>7. recorded # NoRecord /\ minted > 0 => recorded' # NoRecord /\ (ChainIsWhole' <=> ChainIsWhole)
  BY <1>1, <1>2 DEF ChainIsWhole
<1> QED BY <1>3, <1>4, <1>5, <1>6, <1>7

(* What an officer was told stays so while the record only grows.          *)
LEMMA AnswerStays ==
    ASSUME PipelineInv, EdgesExist', RowsGrow, NEW o \in Officers,
           run'[o].answer = run[o].answer
    PROVE  AnswerHolds(o)'
BY FindingsLast DEF PipelineInv, AnswerHolds, IsWritten

(* A run that does not move keeps what it relies on while the record only  *)
(* grows.                                                                  *)
LEMMA OthersKeep ==
    ASSUME PipelineInv, EdgesExist', RowsGrow, NEW o \in Officers, run'[o] = run[o]
    PROVE  StageRelies(o)' /\ AnswerHolds(o)'
BY FindingsLast, AnswerStays DEF PipelineInv, StageRelies

(* What a run may be, part by part.                                        *)
LEMMA EdgesCover == ASSUME NEW n \in 0 .. MaxDecisions PROVE {Absence} \cup 0 .. n \subseteq Edges
BY CoordinatorAssumption DEF Edges, Absence

(* A run that nobody has asked for is a run.                               *)
LEMMA UnaskedIsRun == Unasked \in Run
BY CoordinatorAssumption DEF Unasked, Run, Edges, Absence

(* A run that moves to its next stage is still a run.                      *)
LEMMA RunParts ==
    ASSUME NEW q \in Run
    PROVE  /\ \A answer \in {"none", "ok", "blocked", "blocked_with_id", "refused",
                             "llm_unavailable", "outage"} : [q EXCEPT !.answer = answer] \in Run
           /\ \A e \in Edges :
                 /\ [q EXCEPT !.stage = "compute", !.event = e] \in Run
                 /\ [q EXCEPT !.stage = "assemble", !.event = e] \in Run
           /\ \A b \in BOOLEAN, n \in 0 .. MaxAttempts :
                 [q EXCEPT !.stage = "verify", !.attempts = n, !.spells = b] \in Run
BY DEF Run

(* No run has begun and nothing is decided at first (CoordinatorInit).     *)
LEMMA PipelineStarts == CoordinatorInit => PipelineInv
<1> SUFFICES ASSUME CoordinatorInit PROVE PipelineInv
  OBVIOUS
<1> USE CoordinatorAssumption DEF CoordinatorInit
<1>1. decided \in Seq(BOOLEAN) /\ Len(decided) \in 0 .. MaxDecisions /\ DOMAIN decided = 1 .. Len(decided)
  <2>1. PICK n \in 0 .. MaxDecisions : decided \in [1 .. n -> BOOLEAN]
    OBVIOUS
  <2>2. decided \in Seq(BOOLEAN)
    BY <2>1, SeqDef
  <2>3. Len(decided) = n
    BY <2>1, <2>2, LenProperties
  <2> QED BY <2>2, <2>3, LenProperties
<1>2. minted \in Edges
  BY <1>1, EdgesCover
<1>3. NoRecord \in Record
  BY DEF NoRecord, Record, Edges, Absence
<1>4. CoordinatorTypeOK
  <2>1. recorded \in Record
    BY <1>3
  <2>2. run \in [Officers -> Run]
    BY UnaskedIsRun
  <2> HIDE DEF CoordinatorInit
  <2> QED BY <1>1, <1>2, <2>1, <2>2 DEF CoordinatorTypeOK
<1>5. EdgesExist
  BY <1>1 DEF EdgesExist
<1>6. \A o \in Officers : StageRelies(o) /\ AnswerHolds(o)
  BY DEF StageRelies, AnswerHolds, Unasked
<1> QED BY <1>4, <1>5, <1>6 DEF PipelineInv

-----------------------------------------------------------------------------
(* One request moves, the rows as they are or grown.                       *)
LEMMA OneMoves ==
    ASSUME PipelineInv, CoordinatorTypeOK', EdgesExist', RowsGrow, NEW o \in Officers,
           \A q \in Officers \ {o} : run'[q] = run[q],
           StageRelies(o)' /\ AnswerHolds(o)'
    PROVE  PipelineInv'
BY OthersKeep DEF PipelineInv

(* A request that only changes its own state.                              *)
LEMMA OneMovesAlone ==
    ASSUME PipelineInv, UNCHANGED <<decided, minted, recorded>>, NEW o \in Officers,
           NEW q \in Run, run' = [run EXCEPT ![o] = q],
           StageRelies(o)' /\ AnswerHolds(o)'
    PROVE  PipelineInv'
<1>1. CoordinatorTypeOK' /\ EdgesExist'
  BY DEF PipelineInv, CoordinatorTypeOK, EdgesExist
<1>2. \A p \in Officers \ {o} : run'[p] = run[p]
  BY DEF PipelineInv, CoordinatorTypeOK
<1>3. RowsGrow
  BY DEF RowsGrow
<1> QED BY <1>1, <1>2, <1>3, OneMoves

(* An error answer says nothing of the rows.                               *)
LEMMA AnswersKeep ==
    ASSUME PipelineInv, CoordinatorTypeOK', EdgesExist', RowsGrow, NEW o \in Officers,
           NEW answer \in {"blocked", "llm_unavailable", "outage"}, Answers(o, answer)
    PROVE  PipelineInv'
<1>1. /\ run'[o] = [Unasked EXCEPT !.answer = answer]
      /\ \A p \in Officers \ {o} : run'[p] = run[p]
  BY DEF PipelineInv, CoordinatorTypeOK, Answers
<1>2. StageRelies(o)' /\ AnswerHolds(o)'
  BY <1>1 DEF StageRelies, AnswerHolds, Unasked
<1> QED BY <1>1, <1>2, OneMoves

(* A run that ends with an answer is a run.                                *)
LEMMA AnswerTypes ==
    ASSUME NEW answer \in {"none", "ok", "blocked", "blocked_with_id", "refused",
                           "llm_unavailable", "outage"}
    PROVE  [Unasked EXCEPT !.answer = answer] \in Run
BY UnaskedIsRun, RunParts

(* An answer that tells nothing of the record keeps the invariant (route,  *)
(* assemble).                                                              *)
LEMMA AloneAnswersKeep ==
    ASSUME PipelineInv, UNCHANGED <<decided, minted, recorded>>, NEW o \in Officers,
           NEW answer \in {"blocked", "llm_unavailable", "outage"}, Answers(o, answer)
    PROVE  PipelineInv'
<1>1. CoordinatorTypeOK' /\ EdgesExist'
  BY AnswerTypes DEF PipelineInv, CoordinatorTypeOK, EdgesExist, Answers
<1>2. RowsGrow
  BY DEF RowsGrow
<1> QED BY <1>1, <1>2, AnswersKeep

(* route reads the newest decision, which the record has (Route).          *)
LEMMA RouteKeeps == ASSUME PipelineInv, NEW o \in Officers, Route(o) PROVE PipelineInv'
<1>1. CASE Approves(Len(decided))
  <2> DEFINE q == [Unasked EXCEPT !.stage = "compute", !.event = Len(decided)]
  <2>1. run' = [run EXCEPT ![o] = q] /\ UNCHANGED <<decided, minted, recorded>>
    BY <1>1 DEF Route
  <2>2. q \in Run
    <3>1. Len(decided) \in Edges
      BY EdgesCover DEF PipelineInv, CoordinatorTypeOK
    <3> QED BY <3>1, UnaskedIsRun, RunParts
  <2>3. run'[o] = q /\ Approves(Len(decided))'
    BY <1>1, <2>1 DEF PipelineInv, CoordinatorTypeOK, Approves
  <2>4. StageRelies(o)' /\ AnswerHolds(o)'
    BY <2>3, <2>1, CoordinatorAssumption DEF StageRelies, AnswerHolds, Unasked
  <2> QED BY <2>1, <2>2, <2>4, OneMovesAlone
<1>2. CASE ~Approves(Len(decided))
  BY <1>2, AloneAnswersKeep DEF Route
<1> QED BY <1>1, <1>2

(* assemble goes on with the event route read (Assemble).                  *)
LEMMA AssembleKeeps ==
    ASSUME PipelineInv, NEW o \in Officers, NEW spells \in BOOLEAN, Assemble(o, spells)
    PROVE  PipelineInv'
<1> DEFINE q == [run[o] EXCEPT !.stage = "verify", !.attempts = @ + 1, !.spells = spells]
<1>1. run' = [run EXCEPT ![o] = q] /\ UNCHANGED <<decided, minted, recorded>>
  BY DEF Assemble
<1>2. StageRelies(o) /\ run[o].stage = "assemble" /\ run[o] \in Run
  BY DEF Assemble, PipelineInv, CoordinatorTypeOK
<1>3. q \in Run
  <2>1. run[o].attempts + 1 \in 0 .. MaxAttempts
    BY <1>2, CoordinatorAssumption DEF StageRelies, Run
  <2> QED BY <1>2, <2>1, RunParts
<1>4. run'[o] = q
  BY <1>1 DEF PipelineInv, CoordinatorTypeOK
<1>5. FitToCite(q.event)'
  BY <1>1, <1>2 DEF StageRelies, FitToCite, Approves, Run
<1>6. q.stage = "verify" /\ q.answer = run[o].answer
  BY <1>2 DEF Run
<1>7. AnswerHolds(o)'
  BY <1>1, <1>4, <1>6 DEF PipelineInv, AnswerHolds, IsWritten, ChainIsWhole, Approves
<1>8. StageRelies(o)'
  BY <1>4, <1>5, <1>6 DEF StageRelies
<1> HIDE DEF q
<1> QED BY <1>1, <1>3, <1>7, <1>8, OneMovesAlone

(* A stage that goes on to the next one alone.                             *)
LEMMA ReachesKeeps ==
    ASSUME PipelineInv, UNCHANGED <<decided, minted, recorded>>, NEW o \in Officers,
           NEW stage \in {"assemble", "narrate", "persist"}, Reaches(o, stage),
           FitToCite(run[o].event), stage = "assemble" => run[o].attempts < MaxAttempts,
           stage # "assemble" => run[o].spells
    PROVE  PipelineInv'
<1> DEFINE q == [run[o] EXCEPT !.stage = stage]
<1>1. run' = [run EXCEPT ![o] = q] /\ run[o] \in Run
  BY DEF Reaches, PipelineInv, CoordinatorTypeOK
<1>2. run'[o] = q /\ q \in Run
  BY <1>1 DEF PipelineInv, CoordinatorTypeOK, Run
<1>3. /\ q.stage = stage /\ q.answer = run[o].answer /\ q.event = run[o].event
      /\ q.spells = run[o].spells /\ q.attempts = run[o].attempts
  BY <1>1 DEF Run
<1> HIDE DEF q
<1>4. StageRelies(o)'
  BY <1>2, <1>3 DEF StageRelies, FitToCite, Approves
<1>5. AnswerHolds(o)'
  BY <1>2, <1>3 DEF PipelineInv, AnswerHolds, IsWritten, ChainIsWhole, Approves
<1> QED BY <1>1, <1>2, <1>4, <1>5, OneMovesAlone

(* verify refuses reasons that its event does not have (Verify).           *)
LEMMA VerifyKeeps == ASSUME PipelineInv, NEW o \in Officers, Verify(o) PROVE PipelineInv'
<1>1. FitToCite(run[o].event) /\ UNCHANGED <<decided, minted, recorded>>
  BY DEF Verify, PipelineInv, StageRelies
<1> QED BY <1>1, ReachesKeeps, AloneAnswersKeep DEF Verify

(* narrate leaves the event as it was (Narrate).                           *)
LEMMA NarrateKeeps == ASSUME PipelineInv, NEW o \in Officers, Narrate(o) PROVE PipelineInv'
<1>1. FitToCite(run[o].event) /\ run[o].spells /\ UNCHANGED <<decided, minted, recorded>>
  BY DEF Narrate, PipelineInv, StageRelies
<1> QED BY <1>1, ReachesKeeps DEF Narrate

-----------------------------------------------------------------------------
(* POST /offers: an open or a missing edge is what it closes.              *)
LEMMA MintGrows ==
    ASSUME PipelineInv, NEW e \in 0 .. Len(decided), Mint(e), UNCHANGED <<decided, recorded>>
    PROVE  RowsGrow /\ EdgesExist' /\ minted' \in Edges /\ minted' # Absence
<1>1. minted' \in 0 .. Len(decided) /\ Len(decided) \in 0 .. MaxDecisions
  BY DEF Mint, PipelineInv, EdgesExist, CoordinatorTypeOK
<1>2. minted' \in Edges /\ minted' # Absence
  BY <1>1, EdgesCover DEF Absence
<1>3. RowsGrow
  BY DEF RowsGrow, Mint, Absence
<1>4. EdgesExist'
  BY <1>1, <1>2 DEF PipelineInv, EdgesExist
<1> QED BY <1>2, <1>3, <1>4

(* compute mints offer and disclosure for the run's event (Compute).       *)
LEMMA ComputeKeeps == ASSUME PipelineInv, NEW o \in Officers, Compute(o) PROVE PipelineInv'
<1> DEFINE e == run[o].event
<1>1. Approves(e) /\ e \in 0 .. Len(decided) /\ run[o] \in Run
  BY DEF Compute, PipelineInv, CoordinatorTypeOK, StageRelies, Approves
<1>2. Mint(e) /\ UNCHANGED <<decided, recorded>>
  BY DEF Compute
<1>3. RowsGrow /\ EdgesExist' /\ minted' \in Edges /\ minted' # Absence
  BY <1>1, <1>2, MintGrows
<1>4. PICK c \in Edges : c = Cites(o)
  BY <1>1, <1>3 DEF Cites, Run
<1> DEFINE q == [run[o] EXCEPT !.stage = "assemble", !.event = c]
<1>0. run' = [run EXCEPT ![o] = q]
  BY <1>4 DEF Compute
<1>5. q \in Run
  BY <1>1, <1>4, RunParts
<1>6. CoordinatorTypeOK'
  BY <1>0, <1>2, <1>3, <1>5 DEF PipelineInv, CoordinatorTypeOK
<1>7. /\ run'[o] = q /\ \A p \in Officers \ {o} : run'[p] = run[p]
      /\ q.stage = "assemble" /\ q.event = c
      /\ q.answer = run[o].answer /\ q.attempts = run[o].attempts
  BY <1>0, <1>1 DEF PipelineInv, CoordinatorTypeOK, Run
<1> HIDE DEF q
<1>8. FitToCite(c)'
  <2>1. CASE minted' > 0
    BY <1>4, <2>1 DEF Cites, FitToCite
  <2>2. CASE minted' = 0
    BY <1>1, <1>2, <1>4, <2>2 DEF Cites, FitToCite, Approves
  <2>3. minted' \in 0 .. Len(decided)
    BY <1>2, <1>3 DEF EdgesExist
  <2> QED BY <2>1, <2>2, <2>3 DEF PipelineInv, CoordinatorTypeOK
<1>9. StageRelies(o)'
  BY <1>7, <1>8 DEF Compute, PipelineInv, StageRelies, FitToCite, Approves
<1>10. AnswerHolds(o)'
  BY <1>3, <1>7, AnswerStays
<1> QED BY <1>3, <1>6, <1>7, <1>9, <1>10, OneMoves

(* An answer of the disclosure-service may be lost after it has minted     *)
(* (ComputeLost).                                                          *)
LEMMA ComputeLostKeeps == ASSUME PipelineInv, NEW o \in Officers, ComputeLost(o) PROVE PipelineInv'
<1> DEFINE e == run[o].event
<1>1. e \in 0 .. Len(decided)
  BY DEF ComputeLost, PipelineInv, CoordinatorTypeOK, StageRelies, Approves
<1>2. Answers(o, "outage") /\ UNCHANGED <<decided, recorded>>
  BY DEF ComputeLost
<1>3. CASE Mint(e)
  <2>1. RowsGrow /\ EdgesExist' /\ minted' \in Edges
    BY <1>1, <1>2, <1>3, MintGrows
  <2>2. CoordinatorTypeOK'
    BY <1>2, <2>1, AnswerTypes DEF PipelineInv, CoordinatorTypeOK, Answers
  <2> QED BY <1>2, <2>1, <2>2, AnswersKeep
<1>4. CASE UNCHANGED minted
  BY <1>2, <1>4, AloneAnswersKeep
<1> QED BY <1>3, <1>4 DEF ComputeLost

(* A model that fails ends the run with nothing minted (ModelFails).       *)
LEMMA ModelFailsKeeps == ASSUME PipelineInv, NEW o \in Officers, ModelFails(o) PROVE PipelineInv'
BY AloneAnswersKeep DEF ModelFails

-----------------------------------------------------------------------------
(* POST /disclosures: a new record cites an event that approves and is the *)
(* offer's; a record that is there keeps its own.                          *)
LEMMA StoresGrow ==
    ASSUME PipelineInv, NEW o \in Officers, run[o].stage = "persist", Accepts(o), Stores(o),
           UNCHANGED decided
    PROVE  /\ RowsGrow /\ EdgesExist' /\ minted' \in Edges /\ recorded' \in Record
           /\ IsWritten'
<1> DEFINE e == run[o].event
<1>1. FitToCite(e) /\ minted \in Edges /\ minted \in {Absence} \cup 0 .. Len(decided)
  BY DEF PipelineInv, CoordinatorTypeOK, StageRelies, EdgesExist
<1>2. CASE recorded = NoRecord
  <2>1. Approves(e) /\ minted \in {0, e}
    BY <1>2 DEF Accepts
  <2>2. e \in DOMAIN decided /\ DOMAIN decided = 1 .. Len(decided) /\ Len(decided) \in 0 .. MaxDecisions
    BY <2>1 DEF Approves, PipelineInv, CoordinatorTypeOK
  <2>3. e \in Edges /\ e > 0 /\ e # Absence
    BY <2>2, EdgesCover DEF Absence
  <2>4. recorded' = [cites |-> e, document |-> TRUE, delivered |-> FALSE] /\ minted' = e
    BY <1>2, <2>1 DEF Stores
  <2>5. recorded' \in Record /\ recorded' # NoRecord
    BY <2>3, <2>4 DEF Record, NoRecord
  <2>6. EdgesExist'
    BY <2>2, <2>3, <2>4, <2>5 DEF EdgesExist
  <2>7. RowsGrow
    BY <1>2, <2>1, <2>3, <2>4, <2>5 DEF RowsGrow
  <2>8. IsWritten'
    BY <2>3, <2>4, <2>5 DEF IsWritten
  <2> QED BY <2>3, <2>4, <2>5, <2>6, <2>7, <2>8
<1>3. CASE recorded # NoRecord
  <2>1. /\ recorded \in Record /\ recorded.cites \in DOMAIN decided /\ minted # Absence
        /\ DOMAIN decided = 1 .. Len(decided) /\ Len(decided) \in 0 .. MaxDecisions
    BY <1>3 DEF PipelineInv, CoordinatorTypeOK, EdgesExist
  <2>2. /\ recorded' = [recorded EXCEPT !.document = @ \/ ~recorded.delivered]
        /\ minted' = IF minted = 0 THEN recorded'.cites ELSE minted
    BY <1>3 DEF Stores
  <2>3. recorded' \in Record
    BY <2>1, <2>2 DEF Record
  <2>4. /\ recorded'.cites = recorded.cites /\ recorded'.delivered = recorded.delivered
        /\ recorded.document => recorded'.document
        /\ recorded'.document \/ recorded'.delivered
    BY <2>1, <2>2 DEF Record
  <2>5. recorded' # NoRecord
    BY <2>1, <2>4 DEF NoRecord, Absence
  <2>6. minted' \in 1 .. Len(decided) /\ (minted # 0 => minted' = minted)
    BY <1>1, <2>1, <2>2, <2>4 DEF Absence
  <2>7. minted' \in Edges /\ minted' > 0 /\ minted' # Absence
    BY <2>1, <2>6, EdgesCover DEF Absence
  <2>8. EdgesExist'
    BY <2>1, <2>4, <2>6, <2>7 DEF EdgesExist
  <2>9. RowsGrow
    BY <1>3, <2>4, <2>5, <2>6, <2>7 DEF RowsGrow
  <2>10. IsWritten'
    BY <2>4, <2>5, <2>7 DEF IsWritten
  <2> QED BY <2>3, <2>7, <2>8, <2>9, <2>10
<1> QED BY <1>2, <1>3

(* persist records the delivery of what compute minted (Persist).          *)
LEMMA PersistKeeps == ASSUME PipelineInv, NEW o \in Officers, Persist(o) PROVE PipelineInv'
<1>1. run[o].stage = "persist" /\ run[o] \in Run /\ run[o].spells /\ FitToCite(run[o].event)
  BY DEF Persist, PipelineInv, CoordinatorTypeOK, StageRelies
<1>2. CASE Accepts(o)
  <2> DEFINE q == [run[o] EXCEPT !.stage = "chain"]
  <2>1. Stores(o) /\ run' = [run EXCEPT ![o] = q] /\ UNCHANGED decided
    BY <1>2 DEF Persist, Reaches
  <2>2. /\ RowsGrow /\ EdgesExist' /\ minted' \in Edges /\ recorded' \in Record
        /\ IsWritten'
    BY <1>1, <1>2, <2>1, StoresGrow
  <2>3. q \in Run /\ q.stage = "chain" /\ q.answer = run[o].answer
    BY <1>1 DEF Run
  <2>4. CoordinatorTypeOK'
    BY <2>1, <2>2, <2>3 DEF PipelineInv, CoordinatorTypeOK
  <2>5. run'[o] = q /\ \A p \in Officers \ {o} : run'[p] = run[p]
    BY <2>1 DEF PipelineInv, CoordinatorTypeOK
  <2> HIDE DEF q
  <2>6. AnswerHolds(o)'
    BY <2>2, <2>3, <2>5, AnswerStays
  <2>7. StageRelies(o)'
    BY <2>2, <2>3, <2>5 DEF StageRelies
  <2> QED BY <2>2, <2>4, <2>5, <2>6, <2>7, OneMoves
<1>3. CASE ~Accepts(o)
  <2> DEFINE q == [Unasked EXCEPT !.answer = "refused"]
  <2>1. run' = [run EXCEPT ![o] = q] /\ UNCHANGED <<decided, minted, recorded>>
    BY <1>3 DEF Persist, Answers
  <2>2. q \in Run /\ q.stage = "answered" /\ q.answer = "refused"
    BY AnswerTypes DEF Unasked
  <2>3. run'[o] = q
    BY <2>1 DEF PipelineInv, CoordinatorTypeOK
  <2> HIDE DEF q
  <2>4. minted > 0 /\ ~Approves(minted)
    BY <1>1, <1>3 DEF Accepts, FitToCite
  <2>5. AnswerHolds(o)' /\ StageRelies(o)'
    BY <2>1, <2>2, <2>3, <2>4 DEF AnswerHolds, StageRelies, Approves
  <2> QED BY <2>1, <2>2, <2>5, OneMovesAlone
<1> QED BY <1>2, <1>3

(* And its answer may be lost after it was recorded (PersistLost).         *)
LEMMA PersistLostKeeps == ASSUME PipelineInv, NEW o \in Officers, PersistLost(o) PROVE PipelineInv'
<1>1. run[o].stage = "persist" /\ Answers(o, "outage") /\ UNCHANGED decided
  BY DEF PersistLost
<1>2. CASE Accepts(o) /\ Stores(o)
  <2>1. RowsGrow /\ EdgesExist' /\ minted' \in Edges /\ recorded' \in Record
    BY <1>1, <1>2, StoresGrow
  <2>2. CoordinatorTypeOK'
    BY <1>1, <2>1, AnswerTypes DEF PipelineInv, CoordinatorTypeOK, Answers
  <2> QED BY <1>1, <2>1, <2>2, AnswersKeep
<1>3. CASE UNCHANGED <<minted, recorded>>
  BY <1>1, <1>3, AloneAnswersKeep
<1> QED BY <1>2, <1>3 DEF PersistLost

(* The answer is what the edge read back says (ReadsChain).                *)
LEMMA ReadsChainKeeps == ASSUME PipelineInv, NEW o \in Officers, ReadsChain(o) PROVE PipelineInv'
<1> DEFINE told == IF ChainIsWhole THEN "ok" ELSE "blocked_with_id"
           q == [Unasked EXCEPT !.answer = told]
<1>1. IsWritten
  BY DEF ReadsChain, PipelineInv, StageRelies
<1>2. run' = [run EXCEPT ![o] = q] /\ UNCHANGED <<decided, minted, recorded>>
  BY DEF ReadsChain, Answers
<1>3. q \in Run /\ q.stage = "answered" /\ q.answer = told
  BY AnswerTypes DEF Unasked
<1>4. run'[o] = q
  BY <1>2 DEF PipelineInv, CoordinatorTypeOK
<1> HIDE DEF q
<1>5. AnswerHolds(o)' /\ StageRelies(o)'
  BY <1>1, <1>2, <1>3, <1>4 DEF AnswerHolds, StageRelies, IsWritten, ChainIsWhole, Approves
<1> QED BY <1>2, <1>3, <1>5, OneMovesAlone

(* Or an outage, when it cannot be read (ChainLost).                       *)
LEMMA ChainLostKeeps == ASSUME PipelineInv, NEW o \in Officers, ChainLost(o) PROVE PipelineInv'
BY AloneAnswersKeep DEF ChainLost

-----------------------------------------------------------------------------
(* What others do leaves every run where it is.                            *)
LEMMA EnvironmentKeeps ==
    ASSUME PipelineInv, CoordinatorTypeOK', EdgesExist', RowsGrow, run' = run
    PROVE  PipelineInv'
BY OthersKeep DEF PipelineInv

(* A new decision leaves the older ones and their edges (Decides).         *)
LEMMA DecidesKeeps == ASSUME PipelineInv, NEW approves \in BOOLEAN, Decides(approves) PROVE PipelineInv'
<1>1. /\ decided \in Seq(BOOLEAN) /\ Len(decided) < MaxDecisions
      /\ decided' = Append(decided, approves) /\ UNCHANGED <<minted, recorded, run>>
  BY DEF Decides, PipelineInv, CoordinatorTypeOK
<1>2. /\ decided' \in Seq(BOOLEAN) /\ Len(decided') = Len(decided) + 1
      /\ DOMAIN decided = 1 .. Len(decided) /\ DOMAIN decided' = 1 .. Len(decided')
      /\ \A e \in 1 .. Len(decided) : decided'[e] = decided[e]
  BY <1>1
<1>3. Len(decided) \in Nat /\ MaxDecisions \in Nat
  BY <1>1, CoordinatorAssumption
<1>4. CoordinatorTypeOK'
  BY <1>1, <1>2, <1>3 DEF PipelineInv, CoordinatorTypeOK
<1>5. EdgesExist'
  BY <1>1, <1>2, <1>3 DEF PipelineInv, EdgesExist
<1>6. RowsGrow
  BY <1>1, <1>2, <1>3 DEF RowsGrow
<1> QED BY <1>1, <1>4, <1>5, <1>6, EnvironmentKeeps

(* An offer minted by another caller only adds to what is there            *)
(* (OffersElsewhere).                                                      *)
LEMMA OffersElsewhereKeeps == ASSUME PipelineInv, OffersElsewhere PROVE PipelineInv'
<1>1. Mint(Len(decided)) /\ UNCHANGED <<decided, recorded, run>> /\ Len(decided) \in 0 .. Len(decided)
  BY DEF OffersElsewhere, PipelineInv, CoordinatorTypeOK
<1>2. RowsGrow /\ EdgesExist' /\ minted' \in Edges
  BY <1>1, MintGrows
<1>3. CoordinatorTypeOK'
  BY <1>1, <1>2 DEF PipelineInv, CoordinatorTypeOK
<1> QED BY <1>1, <1>2, <1>3, EnvironmentKeeps

(* A delivery by another caller only closes an edge (Delivers).            *)
LEMMA DeliversKeeps == ASSUME PipelineInv, Delivers PROVE PipelineInv'
<1>1. /\ recorded \in Record /\ recorded.document
      /\ recorded' = [recorded EXCEPT !.delivered = TRUE] /\ UNCHANGED <<decided, minted, run>>
  BY DEF Delivers, PipelineInv, CoordinatorTypeOK
<1>2. /\ recorded' \in Record /\ recorded'.cites = recorded.cites
      /\ recorded'.document = recorded.document /\ recorded'.delivered
  BY <1>1 DEF Record
<1>3. recorded # NoRecord /\ recorded' # NoRecord
  BY <1>1, <1>2 DEF NoRecord
<1>4. CoordinatorTypeOK' /\ EdgesExist' /\ RowsGrow
  BY <1>1, <1>2, <1>3 DEF PipelineInv, CoordinatorTypeOK, EdgesExist, RowsGrow
<1> QED BY <1>1, <1>4, EnvironmentKeeps

(* Each step of any run, and of those beside it, keeps the invariant       *)
(* (CoordinatorNext).                                                      *)
LEMMA PipelineStepKeeps == PipelineInv /\ [CoordinatorNext]_coordinatorVars => PipelineInv'
<1> SUFFICES ASSUME PipelineInv, [CoordinatorNext]_coordinatorVars PROVE PipelineInv'
  OBVIOUS
<1>1. ASSUME NEW o \in Officers, CoordinatorStep(o) PROVE PipelineInv'
  BY <1>1, RouteKeeps, ComputeKeeps, ComputeLostKeeps, AssembleKeeps, VerifyKeeps, NarrateKeeps,
     ModelFailsKeeps, PersistKeeps, PersistLostKeeps, ReadsChainKeeps, ChainLostKeeps
     DEF CoordinatorStep
<1>2. CASE UNCHANGED coordinatorVars
  <2>1. UNCHANGED <<decided, minted, recorded, run>>
    BY <1>2 DEF coordinatorVars
  <2> QED BY <2>1, EnvironmentKeeps DEF PipelineInv, CoordinatorTypeOK, EdgesExist, RowsGrow
<1> QED BY <1>1, <1>2, DecidesKeeps, OffersElsewhereKeeps, DeliversKeeps DEF CoordinatorNext

(* So the invariant of the runs holds in every state.                      *)
LEMMA PipelineInvHolds == CoordinatorSpec => []PipelineInv
BY PipelineStarts, PipelineStepKeeps, PTL DEF CoordinatorSpec

(* The rows and the runs of the pipeline keep their types (the columns     *)
(* decision_event_id, decided, document; the graph's state).               *)
THEOREM PipelineTypeHolds == CoordinatorSpec => []CoordinatorTypeOK
<1>1. PipelineInv => CoordinatorTypeOK
  BY DEF PipelineInv
<1> QED BY <1>1, PipelineInvHolds, PTL

(* However re-decisions, offers and other officers' disclosures interleave *)
(* with a run: it is refused only for an offer made on a denial (_compute, *)
(* create_disclosure's guards).                                            *)
THEOREM RefusalsAreDenials == CoordinatorSpec => []RefusedOnlyIfDenied
<1>1. PipelineInv => RefusedOnlyIfDenied
  BY DEF PipelineInv, AnswerHolds, RefusedOnlyIfDenied
<1> QED BY <1>1, PipelineInvHolds, PTL

(* What an officer is told of the record is so, and stays so, where the    *)
(* answer is ok or blocks with an id; of an outage, beside which there may *)
(* be a draft, nothing is said (_persist's read-back of                    *)
(* v_disclosure_provenance).                                               *)
THEOREM AnswersTellTheRecord == CoordinatorSpec => []AnswerTellsTheRecord
<1>1. PipelineInv => AnswerTellsTheRecord
  BY DEF PipelineInv, AnswerHolds, IsWritten, AnswerTellsTheRecord
<1> QED BY <1>1, PipelineInvHolds, PTL

-----------------------------------------------------------------------------
(* The policy search (policy_retrieval.py).                                *)

(* A chunk names nobody unless its file was changed between the gate and   *)
(* the knife, and is cited by its own text unless it was changed between   *)
(* the digest and the knife.                                               *)
OwnName(text, path) == {<<"doc", text>>, <<"stem", path.stem>>}

Vouched(c) ==
    /\ c.asVetted => ~NamesSomeone(c.text.spans)
    /\ c.asNamed => c.id[1] \in OwnName(c.text, c.path)

Current(passages, time) == \A c \in passages : Vouched(c) /\ WasThere(c, time)

Clocks ==
    /\ clock \in Nat /\ builtAt \in Nat /\ builtAt <= clock
    /\ began \in [Searches -> Nat] /\ \A s \in Searches : began[s] <= clock
    /\ \A l \in gone : l.at \in Nat

SearchesKeepForm ==
    /\ DOMAIN search = Searches /\ DOMAIN found = Searches
    /\ DOMAIN build = {"manifest", "todo", "admitted", "vetted", "chunks"}
    /\ \A p \in DOMAIN disk : disk[p] \in Texts

BuilderHasTheLock == \A s \in Searches : search[s] \in {"load", "walk"} => holder = s

(* What a build may rely on of the file it has judged and of those cut.    *)
NamedByDigest(f) == DocId(f.path, build.manifest) \in OwnName(f.named, f.path)

BuildIsFit ==
    \A s \in Searches : search[s] = "walk" =>
        /\ \A p \in build.todo : p.suffix = ".md"
        /\ \A f \in build.admitted : f.path.suffix = ".md" /\ NamedByDigest(f)
        /\ \A v \in build.vetted : ~NamesSomeone(v.text.spans) /\ NamedByDigest(v)
        /\ Current(build.chunks, began[s])

IndexIsFit == ~IdsCollide(index) /\ Current(index, builtAt)

FoundIsFit ==
    \A s \in Searches :
        /\ search[s] = "answer" =>
              ~IdsCollide(found[s]) /\ Current(found[s], began[s] - IndexTTL)
        /\ search[s] = "hit" =>
              \A h \in found[s] :
                  /\ h.shown = h.best
                  /\ Vouched(h.shown) /\ WasThere(h.shown, began[s] - IndexTTL)

PolicyIndexInv ==
    /\ Clocks /\ SearchesKeepForm /\ BuilderHasTheLock
    /\ BuildIsFit /\ IndexIsFit /\ FoundIsFit

-----------------------------------------------------------------------------
(* What the gate finds nothing in names nobody: a match it leaves out has  *)
(* been found by another pattern.                                          *)
LEMMA ScanFindsSomeone ==
  ASSUME NEW spans, \A s \in spans : s.shape \in Shapes, ScanText(spans) = {}
  PROVE  ~NamesSomeone(spans)
<1> DEFINE Of(shape) == {s \in spans : s.shape = shape}
           cards  == {s \in Of("pan") \cup Of("labelled-pan") : s.luhn}
           ssns   == Of("ssn")
                    \cup {s \in Of("labelled-ssn") : \A t \in Of("ssn") : ~Inside(t, s)}
           eins   == {s \in Of("ein") : \A t \in ssns : ~Inside(s, t)}
           bare   == {s \in Of("phone") : \A t \in ssns : <<s.from, s.to>> # <<t.from, t.to>>}
           phones == bare \cup {s \in Of("labelled-phone") : \A t \in bare : ~Overlaps(s, t)}
           banks  == Of("bank")
                    \cup {s \in Of("iban") : \A t \in Of("bank") : ~Inside(s, t)}
           lone   == {s \in spans : s.shape \in LoneShapes}
<1>1. cards \cup ssns \cup eins \cup phones \cup banks \cup lone = {}
  BY DEF ScanText
<1>2. cards = {} /\ ssns = {} /\ eins = {} /\ phones = {} /\ bare = {} /\ banks = {} /\ lone = {}
  <2> HIDE DEF cards, ssns, eins, banks, lone
  <2>1. phones = {} /\ cards = {} /\ ssns = {} /\ eins = {} /\ banks = {} /\ lone = {}
    <3> HIDE DEF phones
    <3> QED BY <1>1
  <2> QED BY <2>1
<1>3. Of("ssn") = {} /\ Of("bank") = {}
  BY <1>2
<1>4. Of("labelled-ssn") = {} /\ Of("ein") = {} /\ Of("phone") = {} /\ Of("iban") = {}
  <2>1. Of("labelled-ssn") = {} /\ Of("iban") = {}
    BY <1>2, <1>3
  <2>2. Of("ein") = {} /\ Of("phone") = {}
    <3> HIDE DEF ssns
    <3> QED BY <1>2
  <2> QED BY <2>1, <2>2
<1>5. Of("labelled-phone") = {}
  <2> HIDE DEF bare
  <2> QED BY <1>2
<1>6. ASSUME NEW s \in spans, s.luhn \/ s.shape \notin {"pan", "labelled-pan"}
      PROVE  FALSE
  <2>1. s.shape \in {"pan", "labelled-pan"}
    BY <1>2, <1>3, <1>4, <1>5 DEF Shapes
  <2> QED BY <1>2, <1>6, <2>1
<1> QED BY <1>6 DEF NamesSomeone

(* A markdown file that passes the gate names nobody (scan_file).          *)
LEMMA PassedNamesNobody ==
  ASSUME NEW p, NEW t, WellRead(t), Passes(p, t), p.suffix = ".md"
  PROVE  ~NamesSomeone(t.spans)
<1>1. CASE t.kind = "empty"
  BY <1>1 DEF WellRead, Passes, NamesSomeone
<1>2. CASE t.kind # "empty"
  <2>1. ScanText(t.spans) = {} /\ \A s \in t.spans : s.shape \in Shapes
    BY <1>2 DEF Passes, WellRead
  <2> QED BY <2>1, ScanFindsSomeone
<1> QED BY <1>1, <1>2

(* What the path's digest or name lets through is named as it reads.       *)
LEMMA SafePathIsOwnName ==
  ASSUME NEW p, NEW manifest, PathReason(p, disk, manifest) = "safe"
  PROVE  DocId(p, manifest) \in OwnName(Held(disk, p), p)
<1>1. CASE manifest.given
  <2>1. Held(disk, p) = manifest.of[p]
    BY <1>1 DEF PathReason, Held
  <2> QED BY <1>1, <2>1 DEF DocId, OwnName
<1>2. CASE ~manifest.given
  BY <1>2 DEF DocId, OwnName
<1> QED BY <1>1, <1>2

-----------------------------------------------------------------------------
(* There is no index and no search at first (PolicyIndexInit).             *)
LEMMA PolicyIndexStarts == PolicyIndexInit => PolicyIndexInv
<1> SUFFICES ASSUME PolicyIndexInit PROVE PolicyIndexInv
  OBVIOUS
<1>1. /\ DOMAIN disk \subseteq Paths /\ \A p \in DOMAIN disk : disk[p] \in Texts
      /\ clock = 0 /\ builtAt = 0 /\ index = {} /\ gone = {}
      /\ search = [s \in Searches |-> "idle"] /\ began = [s \in Searches |-> 0]
      /\ found = [s \in Searches |-> NoIndex] /\ build = NoBuild
  BY DEF PolicyIndexInit, NoIndex
<1> QED BY <1>1 DEF PolicyIndexInv, Clocks, SearchesKeepForm, BuilderHasTheLock, BuildIsFit,
     IndexIsFit, IdsCollide, Current, FoundIsFit, NoBuild

(* A search may abstain before it looks at anything (Decline).             *)
LEMMA DeclineStep ==
  ASSUME PolicyIndexInv, NEW s \in Searches, Decline(s) PROVE PolicyIndexInv'
BY DEF Decline, Go, PolicyIndexInv, Clocks, SearchesKeepForm, BuilderHasTheLock,
   BuildIsFit, NamedByDigest, IndexIsFit, IdsCollide, Current, WasThere, FoundIsFit

(* The clock is read before the lock is waited for (ReadClock).            *)
LEMMA ReadClockStep ==
  ASSUME PolicyIndexInv, NEW s \in Searches, ReadClock(s) PROVE PolicyIndexInv'
BY DEF ReadClock, Go, PolicyIndexInv, Clocks, SearchesKeepForm, BuilderHasTheLock,
   BuildIsFit, NamedByDigest, IndexIsFit, IdsCollide, Current, WasThere, FoundIsFit

(* What was there at one time was there as far back as any before it.      *)
LEMMA WasThereLonger ==
  ASSUME PolicyIndexInv, NEW c, NEW early \in Int, NEW late \in Int, early <= late,
         WasThere(c, late)
  PROVE  WasThere(c, early)
BY DEF PolicyIndexInv, Clocks, WasThere

(* An index that may be served was true of the corpus within its age, for  *)
(* the search that serves it (Serves).                                     *)
LEMMA ServingIndexIsCurrent ==
  ASSUME PolicyIndexInv, NEW s \in Searches, Serves(s)
  PROVE  ~IdsCollide(index) /\ Current(index, began[s] - IndexTTL)
<1>1. builtAt \in Int /\ began[s] - IndexTTL \in Int /\ began[s] - IndexTTL <= builtAt
  <2>1. builtAt \in Nat /\ began[s] \in Nat /\ IndexTTL \in Nat
    BY PolicyIndexAssumption DEF PolicyIndexInv, Clocks
  <2>2. began[s] - builtAt <= IndexTTL
    BY DEF Serves
  <2> QED BY <2>1, <2>2
<1>2. ~IdsCollide(index) /\ Current(index, builtAt)
  BY DEF PolicyIndexInv, IndexIsFit
<1>3. ASSUME NEW c \in index PROVE Vouched(c) /\ WasThere(c, began[s] - IndexTTL)
  <2>1. Vouched(c) /\ WasThere(c, builtAt)
    BY <1>2 DEF Current
  <2> QED BY <1>1, <2>1, WasThereLonger
<1> QED BY <1>2, <1>3 DEF Current

(* A search goes to the index or on to build one (Look).                   *)
LEMMA LookStep ==
  ASSUME PolicyIndexInv, NEW s \in Searches, Look(s) PROVE PolicyIndexInv'
<1>1. Serves(s) => ~IdsCollide(index) /\ Current(index, began[s] - IndexTTL)
  BY ServingIndexIsCurrent
<1> QED BY <1>1 DEF Look, Go, PolicyIndexInv, Clocks, SearchesKeepForm, BuilderHasTheLock,
   BuildIsFit, NamedByDigest, IndexIsFit, IdsCollide, Current, WasThere, FoundIsFit

(* A builder starts from the manifest it finds (Enter).                    *)
LEMMA EnterStep ==
  ASSUME PolicyIndexInv, NEW s \in Searches, Enter(s) PROVE PolicyIndexInv'
<1>1. Serves(s) => ~IdsCollide(index) /\ Current(index, began[s] - IndexTTL)
  BY ServingIndexIsCurrent
<1>2. \A t \in Searches : search[t] \notin {"load", "walk"}
  BY PolicyIndexAssumption DEF Enter, PolicyIndexInv, BuilderHasTheLock
<1>3. (Clocks /\ SearchesKeepForm /\ IndexIsFit)'
  BY DEF Enter, Go, PolicyIndexInv, Clocks, SearchesKeepForm, IndexIsFit, IdsCollide, Current, WasThere
<1>4. BuilderHasTheLock' /\ \A t \in Searches : search'[t] # "walk"
  BY <1>2 DEF Enter, Go, PolicyIndexInv, SearchesKeepForm, BuilderHasTheLock
<1>5. BuildIsFit'
  BY <1>4 DEF BuildIsFit
<1>6. FoundIsFit'
  BY <1>1 DEF Enter, Go, PolicyIndexInv, SearchesKeepForm, FoundIsFit, IdsCollide, Current, WasThere
<1> QED BY <1>3, <1>4, <1>5, <1>6 DEF PolicyIndexInv

(* It lists the files there are, or has no index (Load).                   *)
LEMMA LoadStep ==
  ASSUME PolicyIndexInv, NEW s \in Searches, Load(s) PROVE PolicyIndexInv'
<1>1. PICK manifest, todo :
         /\ \A p \in todo : p.suffix = ".md"
         /\ build' = [NoBuild EXCEPT !.manifest = manifest, !.todo = todo]
  <2>1. PICK manifest, nothing :
           build' = [NoBuild EXCEPT !.manifest = manifest,
                                    !.todo = IF nothing THEN {} ELSE Walked(manifest)]
    BY Zenon DEF Load
  <2>2. PICK todo : todo = IF nothing THEN {} ELSE Walked(manifest)
    OBVIOUS
  <2>3. \A p \in todo : p.suffix = ".md"
    BY <2>2 DEF Walked
  <2> QED BY <2>1, <2>2, <2>3, Zenon
<1>2. /\ DOMAIN build' = {"manifest", "todo", "admitted", "vetted", "chunks"}
      /\ build'.todo = todo /\ build'.admitted = {} /\ build'.vetted = {} /\ build'.chunks = {}
  BY <1>1 DEF NoBuild
<1> QED BY <1>1, <1>2
   DEF Load, PolicyIndexInv, Clocks, SearchesKeepForm, BuilderHasTheLock,
   BuildIsFit, NamedByDigest, IndexIsFit, IdsCollide, Current, WasThere, FoundIsFit

(* A path is admitted by the digest of what it holds then (Admit).         *)
LEMMA AdmitStep ==
  ASSUME PolicyIndexInv, NEW s \in Searches, Admit(s) PROVE PolicyIndexInv'
<1>1. PICK p \in build.todo :
         build' = [build EXCEPT !.todo = @ \ {p},
                                !.admitted = IF PathReason(p, disk, build.manifest) = "safe"
                                             THEN {[path |-> p, named |-> Held(disk, p)]} ELSE {}]
  BY DEF Admit
<1>2. search[s] = "walk" /\ p.suffix = ".md" /\ \A t \in Searches : search[t] = "walk" => t = s
  BY DEF Admit, PolicyIndexInv, BuildIsFit, BuilderHasTheLock
<1>3. PICK A : A = IF PathReason(p, disk, build.manifest) = "safe"
                   THEN {[path |-> p, named |-> Held(disk, p)]} ELSE {}
  OBVIOUS
<1>4. ASSUME NEW f \in A
      PROVE  f.path.suffix = ".md" /\ DocId(f.path, build.manifest) \in OwnName(f.named, f.path)
  <2>1. PathReason(p, disk, build.manifest) = "safe" /\ f = [path |-> p, named |-> Held(disk, p)]
    BY <1>3
  <2>2. f.path = p /\ f.named = Held(disk, p)
    BY <2>1
  <2> QED BY <1>2, <2>1, <2>2, SafePathIsOwnName
<1>5. /\ DOMAIN build' = {"manifest", "todo", "admitted", "vetted", "chunks"}
      /\ build'.manifest = build.manifest /\ build'.chunks = build.chunks
      /\ build'.todo = build.todo \ {p} /\ build'.admitted = A /\ build'.vetted = build.vetted
  BY <1>1, <1>3 DEF PolicyIndexInv, SearchesKeepForm
<1>6. BuildIsFit'
  BY <1>4, <1>5 DEF Admit, PolicyIndexInv, BuildIsFit, NamedByDigest, Current, WasThere
<1> QED BY <1>5, <1>6 DEF Admit, PolicyIndexInv, Clocks, SearchesKeepForm, BuilderHasTheLock,
   IndexIsFit, IdsCollide, Current, WasThere, FoundIsFit

(* The gate lets a file through only for what it holds then (Vet).         *)
LEMMA VetStep ==
  ASSUME PolicyIndexInv, NEW s \in Searches, Vet(s) PROVE PolicyIndexInv'
<1>1. PICK f \in build.admitted :
         build' = [build EXCEPT !.admitted = {}, !.vetted = Passed(f)]
  BY DEF Vet
<1>2. search[s] = "walk" /\ \A t \in Searches : search[t] = "walk" => t = s
  BY DEF Vet, PolicyIndexInv, BuilderHasTheLock
<1>3. f.path.suffix = ".md" /\ NamedByDigest(f)
  BY <1>2 DEF PolicyIndexInv, BuildIsFit
<1>4. PICK V : V = Passed(f)
  OBVIOUS
<1>5. ASSUME NEW v \in V
      PROVE  ~NamesSomeone(v.text.spans) /\ DocId(v.path, build.manifest) \in OwnName(v.named, v.path)
  <2> DEFINE text == Held(disk, f.path)
  <2>1. Passes(f.path, text) /\ v = [path |-> f.path, named |-> f.named, text |-> text]
    BY <1>4 DEF Passed
  <2>2. v.path = f.path /\ v.named = f.named /\ v.text = text
    BY <2>1
  <2>3. f.path \in DOMAIN disk /\ text = disk[f.path]
    BY <2>1 DEF Passes, Held
  <2>4. WellRead(text)
    BY <2>3, PolicyIndexAssumption DEF PolicyIndexInv, SearchesKeepForm
  <2> HIDE DEF text
  <2>5. ~NamesSomeone(text.spans)
    BY <1>3, <2>1, <2>4, PassedNamesNobody
  <2> QED BY <1>3, <2>2, <2>5 DEF NamedByDigest
<1>6. /\ DOMAIN build' = {"manifest", "todo", "admitted", "vetted", "chunks"}
      /\ build'.manifest = build.manifest /\ build'.chunks = build.chunks
      /\ build'.todo = build.todo /\ build'.admitted = {} /\ build'.vetted = V
  BY <1>1, <1>4 DEF PolicyIndexInv, SearchesKeepForm
<1>7. BuildIsFit'
  BY <1>5, <1>6 DEF Vet, PolicyIndexInv, BuildIsFit, NamedByDigest, Current, WasThere
<1> QED BY <1>6, <1>7 DEF Vet, PolicyIndexInv, Clocks, SearchesKeepForm, BuilderHasTheLock,
   IndexIsFit, IdsCollide, Current, WasThere, FoundIsFit

(* And what is cut is cut of the file as it is after that (CutFile).       *)
LEMMA CutFileStep ==
  ASSUME PolicyIndexInv, NEW s \in Searches, CutFile(s) PROVE PolicyIndexInv'
<1>1. PICK v \in build.vetted :
         build' = [build EXCEPT !.vetted = {}, !.chunks = @ \cup Sections(v)]
  BY DEF CutFile
<1>2. search[s] = "walk" /\ \A t \in Searches : search[t] = "walk" => t = s
  BY DEF CutFile, PolicyIndexInv, BuilderHasTheLock
<1>3. ~NamesSomeone(v.text.spans) /\ DocId(v.path, build.manifest) \in OwnName(v.named, v.path)
  BY <1>2 DEF PolicyIndexInv, BuildIsFit, NamedByDigest
<1>4. PICK X : X = Sections(v)
  OBVIOUS
<1>5. ASSUME NEW c \in X PROVE Vouched(c) /\ WasThere(c, began[s])
  <2>1. v.path \in DOMAIN disk /\ c \in Cut(v.path, DocId(v.path, build.manifest), disk[v.path], v.named, v.text)
    BY <1>4, <1>5 DEF Sections
  <2>2. /\ c.id[1] = DocId(v.path, build.manifest) /\ c.path = v.path /\ c.text = disk[v.path]
        /\ (c.asVetted => disk[v.path] = v.text) /\ (c.asNamed => disk[v.path] = v.named)
    <3>1. PICK slug : c = [id |-> <<DocId(v.path, build.manifest), slug>>, path |-> v.path,
                           slug |-> slug, text |-> disk[v.path],
                           asNamed |-> disk[v.path] = v.named,
                           asVetted |-> disk[v.path] = v.text]
      BY <2>1, Zenon DEF Cut
    <3>2. c.id = <<DocId(v.path, build.manifest), slug>> /\ c.path = v.path /\ c.text = disk[v.path]
      BY <3>1
    <3>3. c.asVetted => disk[v.path] = v.text
      BY <3>1, Zenon
    <3>4. c.asNamed => disk[v.path] = v.named
      BY <3>1, Zenon
    <3> QED BY <3>2, <3>3, <3>4
  <2> QED BY <1>3, <2>1, <2>2 DEF Vouched, WasThere
<1>6. /\ DOMAIN build' = {"manifest", "todo", "admitted", "vetted", "chunks"}
      /\ build'.manifest = build.manifest /\ build'.chunks = build.chunks \cup X
      /\ build'.todo = build.todo /\ build'.admitted = build.admitted /\ build'.vetted = {}
  BY <1>1, <1>4 DEF PolicyIndexInv, SearchesKeepForm
<1>7. BuildIsFit'
  <2>2. \A c \in build.chunks : Vouched(c) /\ WasThere(c, began[s])
    BY <1>2 DEF PolicyIndexInv, BuildIsFit, Current
  <2> QED BY <1>2, <1>5, <1>6, <2>2
      DEF CutFile, PolicyIndexInv, BuildIsFit, NamedByDigest, Current, WasThere
<1> QED BY <1>6, <1>7 DEF CutFile, PolicyIndexInv, Clocks, SearchesKeepForm, BuilderHasTheLock,
   IndexIsFit, IdsCollide, Current, WasThere, FoundIsFit

(* An index is dated by the reading its builder began with (Store).        *)
LEMMA StoreStep ==
  ASSUME PolicyIndexInv, NEW s \in Searches, Store(s) PROVE PolicyIndexInv'
<1>1. search[s] = "walk" /\ \A t \in Searches : search[t] \in {"load", "walk"} => t = s
  BY DEF Store, Go, PolicyIndexInv, BuilderHasTheLock
<1>2. ~IdsCollide(index') /\ Current(index', began[s])
  <2>1. Current(build.chunks, began[s])
    BY <1>1 DEF PolicyIndexInv, BuildIsFit
  <2>2. ~IdsCollide(NoIndex) /\ Current(NoIndex, began[s])
    BY DEF NoIndex, IdsCollide, Current
  <2> QED BY <2>1, <2>2 DEF Store
<1>3. began[s] \in Nat /\ began[s] <= clock /\ IndexTTL \in Nat
  BY PolicyIndexAssumption DEF PolicyIndexInv, Clocks
<1>4. Current(index', began[s] - IndexTTL)
  <2> SUFFICES ASSUME NEW c \in index' PROVE Vouched(c) /\ WasThere(c, began[s] - IndexTTL)
    BY DEF Current
  <2>1. Vouched(c) /\ WasThere(c, began[s])
    BY <1>2 DEF Current
  <2>2. began[s] \in Int /\ began[s] - IndexTTL \in Int /\ began[s] - IndexTTL <= began[s]
    BY <1>3
  <2> QED BY <2>1, <2>2, WasThereLonger
<1>5. /\ builtAt' = began[s] /\ found' = [found EXCEPT ![s] = index']
      /\ search' = [search EXCEPT ![s] = "answer"] /\ holder' = NoSearch
      /\ build' = NoBuild /\ UNCHANGED <<disk, declared, clock, began, gone, edits>>
  BY DEF Store, Go
<1>6. (Clocks /\ SearchesKeepForm)'
  BY <1>3, <1>5 DEF PolicyIndexInv, Clocks, SearchesKeepForm, NoBuild
<1>7. (BuilderHasTheLock /\ BuildIsFit)'
  BY <1>1, <1>5 DEF PolicyIndexInv, SearchesKeepForm, BuilderHasTheLock, BuildIsFit
<1>8. IndexIsFit'
  BY <1>2, <1>5 DEF IndexIsFit, Current, WasThere, IdsCollide
<1>9. FoundIsFit'
  BY <1>2, <1>4, <1>5 DEF PolicyIndexInv, SearchesKeepForm, FoundIsFit, Current, WasThere, IdsCollide
<1> QED BY <1>6, <1>7, <1>8, <1>9 DEF PolicyIndexInv

(* What is shown is of the index it was found in (Hit).                    *)
LEMMA HitStep ==
  ASSUME PolicyIndexInv, NEW s \in Searches, Hit(s) PROVE PolicyIndexInv'
<1>1. PICK c \in found[s], d \in found[s] :
         c.id = d.id /\ found' = [found EXCEPT ![s] = {[best |-> c, shown |-> d]}]
  BY DEF Hit
<1>2. c = d /\ Vouched(d) /\ WasThere(d, began[s] - IndexTTL)
  BY <1>1 DEF Hit, Go, PolicyIndexInv, FoundIsFit, IdsCollide, Current
<1>3. FoundIsFit'
  BY <1>1, <1>2 DEF Hit, Go, PolicyIndexInv, SearchesKeepForm, FoundIsFit, IdsCollide, Current, WasThere
<1> QED BY <1>1, <1>3 DEF Hit, Go, PolicyIndexInv, Clocks, SearchesKeepForm, BuilderHasTheLock,
   BuildIsFit, NamedByDigest, IndexIsFit, IdsCollide, Current, WasThere

(* An abstention shows nothing (Abstain).                                  *)
LEMMA AbstainStep ==
  ASSUME PolicyIndexInv, NEW s \in Searches, Abstain(s) \/ Again(s) PROVE PolicyIndexInv'
<1>1. CASE Abstain(s)
  BY <1>1 DEF Abstain, Go, PolicyIndexInv, Clocks, SearchesKeepForm, BuilderHasTheLock,
   BuildIsFit, NamedByDigest, IndexIsFit, IdsCollide, Current, WasThere, FoundIsFit
<1>2. CASE Again(s)
  BY <1>2 DEF Again, PolicyIndexInv, Clocks, SearchesKeepForm, BuilderHasTheLock,
   BuildIsFit, NamedByDigest, IndexIsFit, IdsCollide, Current, WasThere, FoundIsFit
<1> QED BY <1>1, <1>2

(* An edit makes no past reading untrue (Edit).                            *)
LEMMA EditStep == ASSUME PolicyIndexInv, Edit PROVE PolicyIndexInv'
<1>1. ASSUME NEW c, NEW time \in Int, time <= clock, WasThere(c, time)
      PROVE  \/ c.path \in DOMAIN disk' /\ disk'[c.path] = c.text
             \/ \E l \in gone' : l.path = c.path /\ l.text = c.text /\ l.at >= time
  <2>1. CASE c.path \in DOMAIN disk /\ disk[c.path] = c.text
    <3>1. PICK p \in Paths :
             /\ \/ \E t \in Texts :
                      disk' = [q \in DOMAIN disk \cup {p} |-> IF q = p THEN t ELSE disk[q]]
                \/ p \in DOMAIN disk /\ disk' = [q \in DOMAIN disk \ {p} |-> disk[q]]
             /\ gone' = gone \cup IF p \in DOMAIN disk
                                  THEN {[path |-> p, text |-> disk[p], at |-> clock]} ELSE {}
      BY DEF Edit
    <3>2. CASE p = c.path
      <4>1. [path |-> p, text |-> disk[p], at |-> clock] \in gone'
        BY <2>1, <3>1, <3>2
      <4> QED BY <1>1, <2>1, <3>2, <4>1
    <3>3. CASE p # c.path
      BY <2>1, <3>1, <3>3
    <3> QED BY <3>2, <3>3
  <2>2. CASE \E l \in gone : l.path = c.path /\ l.text = c.text /\ l.at >= time
    <3>1. gone \subseteq gone'
      BY DEF Edit
    <3> QED BY <2>2, <3>1
  <2> QED BY <1>1, <2>1, <2>2 DEF WasThere
<1>2. \A c : \A time \in Int : time <= clock /\ WasThere(c, time) =>
         \/ c.path \in DOMAIN disk' /\ disk'[c.path] = c.text
         \/ \E l \in gone' : l.path = c.path /\ l.text = c.text /\ l.at >= time
  BY <1>1
<1>3. UNCHANGED <<declared, clock, index, builtAt, search, began, found, holder, build>>
  BY DEF Edit
<1>4. /\ \A p \in DOMAIN disk' : disk'[p] \in Texts
      /\ \A l \in gone' : l.at \in Nat
  BY DEF Edit, PolicyIndexInv, Clocks, SearchesKeepForm
<1>5. /\ builtAt \in Int /\ builtAt <= clock
      /\ \A s \in Searches : began[s] \in Int /\ began[s] <= clock
                            /\ began[s] - IndexTTL \in Int /\ began[s] - IndexTTL <= clock
  <2>1. builtAt \in Nat /\ builtAt <= clock /\ clock \in Nat /\ IndexTTL \in Nat
    BY PolicyIndexAssumption DEF PolicyIndexInv, Clocks
  <2>2. ASSUME NEW s \in Searches PROVE began[s] \in Nat /\ began[s] <= clock
    BY DEF PolicyIndexInv, Clocks
  <2> QED BY <2>1, <2>2
<1>6. (Clocks /\ SearchesKeepForm /\ BuilderHasTheLock)'
  BY <1>3, <1>4 DEF PolicyIndexInv, Clocks, SearchesKeepForm, BuilderHasTheLock
<1>7. BuildIsFit'
  <2> SUFFICES ASSUME NEW s \in Searches, search[s] = "walk"
               PROVE Current(build.chunks, began[s])'
    BY <1>3 DEF BuildIsFit, NamedByDigest, PolicyIndexInv
  <2> QED BY <1>2, <1>3, <1>5 DEF PolicyIndexInv, BuildIsFit, Current, WasThere
<1>8. IndexIsFit'
  BY <1>2, <1>3, <1>5 DEF PolicyIndexInv, IndexIsFit, Current, WasThere, IdsCollide
<1>9. FoundIsFit'
  BY <1>2, <1>3, <1>5 DEF PolicyIndexInv, FoundIsFit, Current, WasThere, IdsCollide
<1> QED BY <1>6, <1>7, <1>8, <1>9 DEF PolicyIndexInv

(* So the invariant of the index holds in every state.                     *)
LEMMA PolicyIndexInvHolds == PolicyIndexSpec => []PolicyIndexInv
<1>1. PolicyIndexInv /\ [PolicyIndexNext]_policyIndexVars => PolicyIndexInv'
  <2> SUFFICES ASSUME PolicyIndexInv, [PolicyIndexNext]_policyIndexVars PROVE PolicyIndexInv'
    OBVIOUS
  <2>1. CASE Tick
    BY <2>1 DEF Tick, PolicyIndexInv, Clocks, SearchesKeepForm, BuilderHasTheLock,
      BuildIsFit, NamedByDigest, IndexIsFit, IdsCollide, Current, WasThere, FoundIsFit
  <2>2. CASE UNCHANGED policyIndexVars
    BY <2>2 DEF policyIndexVars, PolicyIndexInv, Clocks, SearchesKeepForm, BuilderHasTheLock,
      BuildIsFit, NamedByDigest, IndexIsFit, IdsCollide, Current, WasThere, FoundIsFit
  <2> QED BY <2>1, <2>2, DeclineStep, ReadClockStep, LookStep, EnterStep, LoadStep, AdmitStep, VetStep,
        CutFileStep, StoreStep, HitStep, AbstainStep, EditStep DEF PolicyIndexNext
<1> QED BY <1>1, PolicyIndexStarts, PTL DEF PolicyIndexSpec

(* Whatever an operator edits while however many searches read, wait and   *)
(* build: the passage an officer is shown is the one that was scored; it   *)
(* names nobody unless its file was changed between the gate's reading and *)
(* the chunker's, and is cited by its own text unless it was changed       *)
(* between the digest's and the chunker's; and it was in the corpus no     *)
(* longer ago than the TTL (policy_retrieval.py _build_index, _index).     *)
THEOREM HitsAreVouchedFor == PolicyIndexSpec => []HitIsVouchedFor
<1>1. PolicyIndexInv => HitIsVouchedFor
  BY DEF PolicyIndexInv, FoundIsFit, HitIsVouchedFor, Vouched, OwnName
<1> QED BY <1>1, PolicyIndexInvHolds, PTL

-----------------------------------------------------------------------------
(* The retrieval harness (rag_eval/).                                      *)

(* The phases in which the gold set has been judged, and those in which    *)
(* the corpus has been embedded and the cache is not being written.        *)
GoldIsJudged ==
    {"prepare", "embed", "save", "rank", "grade", "report", "write", "exit"}
CacheIsSettled == {"rank", "grade", "report", "write", "exit"}

NamesNobody(c) == c.asVetted => ~NamesSomeone(c.text.spans)

(* What a text that was sent may be relied on to leave out.                *)
TellsOfNobody(t) ==
    /\ t.of # "summary" /\ (t.of = "passage" => t.asVetted) => ~NamesSomeone(t.spans)
    /\ t.of = "question" => ~t.named

RunKeepsForm ==
    /\ \A p \in DOMAIN tree : p \in Files /\ tree[p] \in Contents[p]
    /\ phase # "idle" => setup \in Setups /\ ending = "none"

ChunksNameNobody ==
    /\ \A c \in chunks \cup stored : NamesNobody(c)
    /\ \A t \in sent : TellsOfNobody(t)
    /\ phase = "cut" => \A f \in listed : Indexable(f) => ~NamesSomeone(f.text.spans)

(* What is graded is a row of the gold set.                                 *)
RowsAreOfGold == \A i \in DOMAIN evals : \E j \in DOMAIN Gold : evals[i].row = Gold[j]

RowsAreJudged ==
    /\ phase \notin GoldIsJudged => sent = {}
    /\ phase \in GoldIsJudged =>
          \A i \in DOMAIN Gold : ~NamesSomeone(Gold[i].spans) /\ "question" \notin Gold[i].nameLike
    /\ phase = "grade" => RowsAreOfGold

(* A vector of the cache is of a chunk of the corpus last embedded.        *)
VectorsAreOf(vectors) ==
    \A v \in vectors : \E c \in stored : c.text = v.text /\ c.slug = v.slug

CacheIsOfItsCorpus ==
    /\ phase \in {"embed"} \cup CacheIsSettled /\ Provider => cache = NoCache
    /\ phase = "save" => ~Provider
    /\ phase \in {"save"} \cup CacheIsSettled => stored = chunks
    /\ phase \in CacheIsSettled => VectorsAreOf(cache.vectors)
    /\ ending \in {"reported", "reported-refused"} => VectorsAreOf(cache.vectors)
    /\ ending \in {"nothing-indexed", "embedding-failed"} => cache = NoCache

EvaluationInv ==
    RunKeepsForm /\ ChunksNameNobody /\ RowsAreJudged /\ CacheIsOfItsCorpus

-----------------------------------------------------------------------------
(* No run has begun at first (EvaluationInit).                             *)
LEMMA EvaluationStarts == EvaluationInit => EvaluationInv
<1> SUFFICES ASSUME EvaluationInit PROVE EvaluationInv
  OBVIOUS
<1>1. \A p \in DOMAIN tree : p \in Files /\ tree[p] \in Contents[p]
  BY DEF EvaluationInit
<1>2. /\ phase = "idle" /\ chunks = {} /\ sent = {} /\ stored = {} /\ ending = "none"
  BY DEF EvaluationInit
<1> QED BY <1>1, <1>2 DEF EvaluationInv, RunKeepsForm, ChunksNameNobody, RowsAreJudged,
      CacheIsOfItsCorpus, GoldIsJudged, CacheIsSettled

(* A run that ends leaves what it last stored as the invariant has it; the *)
(* ways in which the cache is touched at the end are the cases.            *)
LEMMA EndKeeps ==
  ASSUME EvaluationInv, NEW how, End(how), tree' = tree,
         \A c \in stored' : NamesNobody(c),
         how \in {"reported", "reported-refused"} =>
             \A v \in cache'.vectors : \E c \in stored' : c.text = v.text /\ c.slug = v.slug,
         how \in {"nothing-indexed", "embedding-failed"} => cache' = NoCache
  PROVE  EvaluationInv'
<1>1. phase' = "idle" /\ ending' = how /\ chunks' = {} /\ sent' = {}
  BY DEF End
<1> QED BY <1>1 DEF EvaluationInv, RunKeepsForm, ChunksNameNobody, RowsAreJudged,
      CacheIsOfItsCorpus, VectorsAreOf, GoldIsJudged, CacheIsSettled

(* A run that raises or is killed leaves the cache as it is, or cut off    *)
(* while it is written (Raise, Kill).                                      *)
LEMMA StopsKeep ==
  ASSUME EvaluationInv, Raise \/ Kill PROVE EvaluationInv'
<1>1. PICK how \in {"raised", "killed"} : End(how) /\ tree' = tree /\ stored' = stored
  BY DEF Raise, Kill, kept
<1>2. \A c \in stored : NamesNobody(c)
  BY DEF EvaluationInv, ChunksNameNobody
<1> QED BY <1>1, <1>2, EndKeeps

(* A run starts with nothing read (Start).                                 *)
LEMMA StartStep ==
  ASSUME EvaluationInv, NEW s \in Setups, Start(s) PROVE EvaluationInv'
<1>1. /\ phase = "idle" /\ sent = {}
      /\ UNCHANGED <<tree, cache, listed, chunks, sent, stored>>
      /\ \/ phase' = "list" /\ setup' = s /\ ending' = "none"
         \/ phase' = "idle" /\ ending' = "raised"
  BY DEF Start, EvaluationInv, RowsAreJudged, GoldIsJudged
<1> QED BY <1>1 DEF EvaluationInv, RunKeepsForm, ChunksNameNobody, RowsAreJudged,
      CacheIsOfItsCorpus, VectorsAreOf, GoldIsJudged, CacheIsSettled

(* It lists its files and judges their paths (List, JudgePaths).           *)
LEMMA JudgeFilesStep ==
  ASSUME EvaluationInv, List \/ JudgePaths PROVE EvaluationInv'
<1>1. CASE Raise
  BY <1>1, StopsKeep
<1>2. CASE /\ phase \in {"list", "paths"} /\ phase' \in {"paths", "scan"}
           /\ UNCHANGED <<tree, ending, setup, chunks, sent, cache, stored>>
  BY <1>2 DEF EvaluationInv, RunKeepsForm, ChunksNameNobody, RowsAreJudged,
      CacheIsOfItsCorpus, VectorsAreOf, GoldIsJudged, CacheIsSettled
<1> QED BY <1>1, <1>2 DEF List, JudgePaths, To, locals, kept

(* It scans each file (Scan).                                              *)
LEMMA ScanStep == ASSUME EvaluationInv, Scan PROVE EvaluationInv'
<1>1. CASE Raise
  BY <1>1, StopsKeep
<1>2. CASE ~Raise
  <2>1. /\ phase = "scan" /\ phase' = "cut"
        /\ UNCHANGED <<tree, ending, setup, chunks, sent, cache, stored>>
        /\ listed' = {[path |-> f.path, named |-> f.named, text |-> Read(f.path),
                           passed |-> Passes(f.path, Read(f.path))] : f \in listed}
    BY <1>2 DEF Scan, To, kept
  <2>2. ASSUME NEW f \in listed', Indexable(f) PROVE ~NamesSomeone(f.text.spans)
    <3>1. PICK g \in listed :
             f = [path |-> g.path, named |-> g.named, text |-> Read(g.path),
                  passed |-> Passes(g.path, Read(g.path))]
      BY <2>1, Zenon
    <3>2. f.path = g.path /\ f.text = Read(g.path) /\ (f.passed => Passes(g.path, Read(g.path)))
      BY <3>1, Zenon
    <3>3. Passes(g.path, f.text) /\ g.path.suffix = ".md"
      BY <2>2, <3>2 DEF Indexable
    <3>4. WellRead(f.text)
      BY <3>2, EvaluationAssumption
      DEF Read, Held, WellRead, EvaluationInv, RunKeepsForm
    <3> QED BY <3>3, <3>4, PassedNamesNobody
  <2> QED BY <2>1, <2>2 DEF EvaluationInv, RunKeepsForm, ChunksNameNobody, RowsAreJudged,
      CacheIsOfItsCorpus, VectorsAreOf, GoldIsJudged, CacheIsSettled
<1> QED BY <1>1, <1>2

(* It cuts those that passed, as they are then (CutFiles).                 *)
LEMMA CutFilesStep == ASSUME EvaluationInv, CutFiles PROVE EvaluationInv'
<1> DEFINE in == {f \in listed : Indexable(f)}
           cut == UNION {Cut(f.path, DocOf(f.path), tree[f.path], f.named, f.text) : f \in in}
<1>1. CASE Raise
  BY <1>1, StopsKeep
<1>2. CASE End("nothing-indexed") /\ cache' = NoCache /\ UNCHANGED <<tree, stored>>
  <2>1. \A c \in stored : NamesNobody(c)
    BY DEF EvaluationInv, ChunksNameNobody
  <2> QED BY <1>2, <2>1, EndKeeps
<1>3. CASE /\ phase = "cut" /\ phase' = "gold" /\ chunks' = cut
           /\ UNCHANGED <<tree, ending, setup, sent, cache, stored>>
  <2>1. ASSUME NEW c \in cut PROVE NamesNobody(c)
    <3>1. PICK f \in in : c \in Cut(f.path, DocOf(f.path), tree[f.path], f.named, f.text)
      BY <2>1
    <3>2. ~NamesSomeone(f.text.spans)
      BY <1>3, <3>1 DEF EvaluationInv, ChunksNameNobody
    <3>3. PICK i : c = [id |-> <<DocOf(f.path), tree[f.path].sections[i].slug>>, path |-> f.path,
                       slug |-> tree[f.path].sections[i].slug, text |-> tree[f.path],
                       asNamed |-> tree[f.path] = f.named,
                       asVetted |-> tree[f.path] = f.text]
      BY <3>1, Zenon DEF Cut
    <3>4. c.text = tree[f.path] /\ (c.asVetted => tree[f.path] = f.text)
      BY <3>3, Zenon
    <3> QED BY <3>2, <3>4, Zenon DEF NamesNobody
  <2> HIDE DEF cut
  <2> QED BY <1>3, <2>1 DEF EvaluationInv, RunKeepsForm, ChunksNameNobody, RowsAreJudged,
      CacheIsOfItsCorpus, VectorsAreOf, GoldIsJudged, CacheIsSettled
<1> QED BY <1>1, <1>2, <1>3 DEF CutFiles, To, kept

(* It reads the gold rows, which put nothing in the cache (ReadGold).      *)
LEMMA ReadGoldStep == ASSUME EvaluationInv, ReadGold PROVE EvaluationInv'
<1>1. CASE Raise
  BY <1>1, StopsKeep
<1>2. CASE ~Raise
  <2>1. /\ phase = "gold" /\ phase' = "prepare" /\ RowsNameNobody
        /\ UNCHANGED <<tree, ending, setup, listed, chunks, sent, cache, stored>>
    BY <1>2 DEF ReadGold, To, locals, kept
  <2>2. ASSUME NEW i \in DOMAIN Gold
        PROVE  ~NamesSomeone(Gold[i].spans) /\ "question" \notin Gold[i].nameLike
    <3>1. setup \in Setups
      BY <2>1 DEF EvaluationInv, RunKeepsForm
    <3>2. ScanText(Gold[i].spans) = {} /\ "question" \notin Gold[i].nameLike
      BY <2>1 DEF RowsNameNobody
    <3>3. \A m \in Gold[i].spans : m.shape \in Shapes
      BY <3>1, EvaluationAssumption DEF Gold
    <3> QED BY <3>2, <3>3, ScanFindsSomeone
  <2>3. sent = {}
    BY <2>1 DEF EvaluationInv, RowsAreJudged, GoldIsJudged
  <2> QED BY <2>1, <2>2, <2>3 DEF EvaluationInv, RunKeepsForm, ChunksNameNobody, RowsAreJudged, Gold,
      CacheIsOfItsCorpus, VectorsAreOf, GoldIsJudged, CacheIsSettled
<1> QED BY <1>1, <1>2

(* It reads the cache that an earlier run left (Prepare).                  *)
LEMMA PrepareStep == ASSUME EvaluationInv, Prepare PROVE EvaluationInv'
<1>1. CASE Raise
  BY <1>1, StopsKeep
<1>2. CASE ~Raise
  <2>1. /\ phase = "prepare" /\ phase' = "embed"
        /\ cache' = IF Provider THEN NoCache ELSE cache
        /\ UNCHANGED <<tree, ending, setup, chunks, sent, stored>>
    BY <1>2 DEF Prepare, To
  <2> QED BY <2>1 DEF EvaluationInv, RunKeepsForm, ChunksNameNobody, RowsAreJudged, Gold, Provider,
      CacheIsOfItsCorpus, VectorsAreOf, GoldIsJudged, CacheIsSettled
<1> QED BY <1>1, <1>2

(* A passage tells of nobody if the chunk does not.                        *)
LEMMA PassagesTellOfNobody ==
  ASSUME EvaluationInv, NEW c \in chunks PROVE TellsOfNobody(Passage(c))
<1>1. NamesNobody(c)
  BY DEF EvaluationInv, ChunksNameNobody
<1>2. /\ Passage(c).of = "passage" /\ Passage(c).spans = c.text.spans
      /\ Passage(c).asVetted = c.asVetted
  BY DEF Passage
<1> QED BY <1>1, <1>2 DEF NamesNobody, TellsOfNobody

(* Nor does the wording of a row that has been judged.                     *)
LEMMA WordingTellsOfNobody ==
  ASSUME EvaluationInv, phase \in GoldIsJudged, NEW i \in DOMAIN Gold,
         NEW what \in {"question", "conclusions"}
  PROVE  TellsOfNobody(Wording(Gold[i], what))
<1>1. ~NamesSomeone(Gold[i].spans) /\ "question" \notin Gold[i].nameLike
  BY DEF EvaluationInv, RowsAreJudged
<1>2. PICK b : b = (what \in Gold[i].nameLike)
  OBVIOUS
<1>3. Wording(Gold[i], what) = [of |-> what, spans |-> Gold[i].spans, named |-> b]
  BY <1>2 DEF Wording
<1>4. /\ Wording(Gold[i], what).of = what /\ Wording(Gold[i], what).spans = Gold[i].spans
      /\ Wording(Gold[i], what).named = b
  BY <1>3
<1> QED BY <1>1, <1>2, <1>4 DEF TellsOfNobody

(* A displayed summary is what no one vouches for.                         *)
LEMMA SummariesAreExempt ==
  ASSUME NEW gold, NEW t \in Displayed(gold) PROVE TellsOfNobody(t)
<1>1. t.of = "summary"
  BY DEF Displayed
<1> QED BY <1>1 DEF TellsOfNobody

(* It embeds its sections (Embed).                                         *)
LEMMA EmbedStep == ASSUME EvaluationInv, Embed PROVE EvaluationInv'
<1>1. /\ phase = "embed" /\ UNCHANGED <<tree, ending, setup, chunks>> /\ stored' = chunks
      /\ sent' \subseteq {Passage(c) : c \in chunks}
  BY DEF Embed, To
<1>2. (RunKeepsForm /\ ChunksNameNobody /\ RowsAreJudged)'
  <2>1. phase' \in {"rank", "save"}
    BY DEF Embed, To
  <2>2. \A t \in sent' : TellsOfNobody(t)
    BY <1>1, PassagesTellOfNobody
  <2> QED BY <1>1, <2>1, <2>2 DEF EvaluationInv, RunKeepsForm, ChunksNameNobody, RowsAreJudged, Gold, GoldIsJudged
<1>3. CASE Provider
  <2>1. phase' = "rank" /\ cache' = NoCache /\ ending = "none"
    BY <1>1, <1>3 DEF Embed, To, EvaluationInv, RunKeepsForm, CacheIsOfItsCorpus
  <2> QED BY <1>1, <1>2, <2>1
      DEF EvaluationInv, CacheIsOfItsCorpus, VectorsAreOf, CacheIsSettled, NoCache
<1>4. CASE ~Provider
  <2>1. phase' = "save" /\ ending = "none"
    BY <1>1, <1>4 DEF Embed, To, EvaluationInv, RunKeepsForm
  <2> QED BY <1>1, <1>2, <1>4, <2>1
      DEF EvaluationInv, CacheIsOfItsCorpus, Provider, CacheIsSettled
<1> QED BY <1>3, <1>4

(* And keeps the vectors of those alone (Save).                            *)
LEMMA SaveStep == ASSUME EvaluationInv, Save PROVE EvaluationInv'
<1>1. /\ phase = "save" /\ phase' = "rank" /\ UNCHANGED <<tree, ending, setup, chunks, sent, stored>>
      /\ cache' = [state |-> "whole", vectors |-> held \cap {VectorOf(c) : c \in chunks}]
  BY DEF Save, To, locals
<1>2. ~Provider /\ stored = chunks /\ ending = "none"
  BY <1>1 DEF EvaluationInv, RunKeepsForm, CacheIsOfItsCorpus
<1>3. \A v \in cache'.vectors : \E c \in stored' : c.text = v.text /\ c.slug = v.slug
  <2>1. ASSUME NEW v \in cache'.vectors PROVE \E c \in chunks : c.text = v.text /\ c.slug = v.slug
    <3>1. PICK c \in chunks : v = VectorOf(c)
      BY <1>1
    <3> QED BY <3>1 DEF VectorOf
  <2> QED BY <1>1, <1>2, <2>1
<1> QED BY <1>1, <1>2, <1>3
    DEF EvaluationInv, RunKeepsForm, ChunksNameNobody, RowsAreJudged, Gold, Provider,
      CacheIsOfItsCorpus, VectorsAreOf, GoldIsJudged, CacheIsSettled

(* If that fails the cache is removed (EmbedFails).                        *)
LEMMA EmbedFailsStep == ASSUME EvaluationInv, EmbedFails PROVE EvaluationInv'
<1>1. End("embedding-failed") /\ cache' = NoCache /\ stored' = chunks /\ tree' = tree
  BY DEF EmbedFails
<1>2. \A c \in chunks : NamesNobody(c)
  BY DEF EvaluationInv, ChunksNameNobody
<1> QED BY <1>1, <1>2, EndKeeps

(* From the ranking to the report the corpus is read no more.              *)
LEMMA ReportSteps ==
  ASSUME EvaluationInv, RankRows \/ Grade \/ OpenReport \/ WriteReport PROVE EvaluationInv'
<1>1. CASE Raise
  BY <1>1, StopsKeep
<1>2. CASE /\ phase \in CacheIsSettled /\ phase' \in CacheIsSettled
           /\ UNCHANGED <<tree, ending, setup, chunks, cache, stored>>
           /\ \A t \in sent' : TellsOfNobody(t)
           /\ phase' = "grade" => RowsAreOfGold'
  BY <1>2 DEF EvaluationInv, RunKeepsForm, ChunksNameNobody, RowsAreJudged, Gold, Provider,
      CacheIsOfItsCorpus, VectorsAreOf, GoldIsJudged, CacheIsSettled
<1>3. \A t \in sent : TellsOfNobody(t)
  BY DEF EvaluationInv, ChunksNameNobody
<1>4. CASE RankRows
  <2>1. /\ phase = "rank" /\ phase' = "grade" /\ UNCHANGED <<tree, ending, setup, chunks, cache, stored>>
        /\ sent' \subseteq sent \cup {Wording(Gold[i], "question") : i \in DOMAIN Gold}
    BY <1>4 DEF RankRows, To, kept
  <2>4. RowsAreOfGold'
    <3>1. PICK of : evals' = [i \in DOMAIN Gold |->
              LET q == of[LastOf(Gold[i].id)]
              IN  [row |-> Gold[i], expected |-> Expected(Gold[i]), ids |-> q.ids, top |-> q.top,
                   own |-> q = of[i]]]
      BY <1>4, Zenon DEF RankRows
    <3>2. DOMAIN evals' = DOMAIN Gold /\ \A i \in DOMAIN Gold : evals'[i].row = Gold[i]
      BY <3>1
    <3> QED BY <2>1, <3>2 DEF RowsAreOfGold, Gold
  <2>2. phase \in GoldIsJudged
    BY <2>1 DEF GoldIsJudged
  <2>3. \A i \in DOMAIN Gold : TellsOfNobody(Wording(Gold[i], "question"))
    BY <2>2, WordingTellsOfNobody
  <2> QED BY <1>2, <1>3, <2>1, <2>3, <2>4 DEF CacheIsSettled
<1>5. CASE Grade /\ ~Raise
  <2>1. /\ phase = "grade" /\ phase' = "report" /\ UNCHANGED <<tree, ending, setup, chunks, cache, stored>>
        /\ sent' = sent \cup UNION {Prompt(evals[i]) : i \in {j \in DOMAIN evals : Judged(evals[j].row)}}
    BY <1>5 DEF Grade, To, kept
  <2>2. RowsAreOfGold /\ phase \in GoldIsJudged
    BY <2>1 DEF EvaluationInv, RowsAreJudged, GoldIsJudged
  <2>3. ASSUME NEW i \in DOMAIN evals, NEW t \in Prompt(evals[i]) PROVE TellsOfNobody(t)
    <3>1. PICK j \in DOMAIN Gold : evals[i].row = Gold[j]
      BY <2>2 DEF RowsAreOfGold
    <3>2. \/ \E c \in TopChunks(evals[i]) : t = Passage(c)
          \/ t \in Displayed(evals[i].row)
          \/ t \in {Wording(Gold[j], "question"), Wording(Gold[j], "conclusions")}
      BY <3>1 DEF Prompt
    <3>3. TopChunks(evals[i]) \subseteq chunks
      BY DEF TopChunks
    <3> QED BY <2>2, <3>2, <3>3, PassagesTellOfNobody, WordingTellsOfNobody, SummariesAreExempt
  <2> QED BY <1>2, <1>3, <2>1, <2>3 DEF CacheIsSettled
<1>6. CASE OpenReport
  BY <1>2, <1>3, <1>6 DEF OpenReport, To, locals, CacheIsSettled
<1>7. CASE WriteReport
  BY <1>2, <1>3, <1>7 DEF WriteReport, To, CacheIsSettled
<1> QED BY <1>1, <1>4, <1>5, <1>6, <1>7

(* A run that ends leaves the cache it saved (Exit).                       *)
LEMMA ExitStep == ASSUME EvaluationInv, Exit PROVE EvaluationInv'
<1>1. PICK how \in {"reported", "reported-refused"} : End(how)
  BY DEF Exit
<1>2. phase = "exit" /\ UNCHANGED <<tree, cache, stored>>
  BY DEF Exit, kept
<1>3. (\A c \in stored : NamesNobody(c)) /\ VectorsAreOf(cache.vectors)
  BY <1>2 DEF EvaluationInv, ChunksNameNobody, CacheIsOfItsCorpus, CacheIsSettled
<1> QED BY <1>1, <1>2, <1>3, EndKeeps DEF VectorsAreOf

(* A change of the corpus touches no cache (Change).                       *)
LEMMA ChangeStep == ASSUME EvaluationInv, Change PROVE EvaluationInv'
<1>1. \A p \in DOMAIN tree' : p \in Files /\ tree'[p] \in Contents[p]
  BY DEF Change, EvaluationInv, RunKeepsForm
<1>2. UNCHANGED <<phase, ending, setup, listed, chunks, evals, sent, cache, stored>>
  BY DEF Change, locals
<1> QED BY <1>1, <1>2 DEF EvaluationInv, RunKeepsForm, ChunksNameNobody, RowsAreJudged, RowsAreOfGold, Gold, Provider,
      CacheIsOfItsCorpus, VectorsAreOf, GoldIsJudged, CacheIsSettled

(* So the invariant of the harness holds in every state.                   *)
LEMMA EvaluationInvHolds == EvaluationSpec => []EvaluationInv
<1>1. EvaluationInv /\ [EvaluationNext]_evaluationVars => EvaluationInv'
  <2> SUFFICES ASSUME EvaluationInv, [EvaluationNext]_evaluationVars PROVE EvaluationInv'
    OBVIOUS
  <2>1. CASE UNCHANGED evaluationVars
    BY <2>1 DEF evaluationVars, EvaluationInv, RunKeepsForm, ChunksNameNobody, RowsAreJudged, RowsAreOfGold, Gold,
      Provider, CacheIsOfItsCorpus, VectorsAreOf, GoldIsJudged, CacheIsSettled
  <2>2. CASE RankFails \/ GradeFails
    BY <2>2, StopsKeep DEF RankFails, GradeFails
  <2> QED BY <2>1, <2>2, StartStep, JudgeFilesStep, ScanStep, CutFilesStep, ReadGoldStep, PrepareStep,
        EmbedStep, SaveStep, EmbedFailsStep, ReportSteps, ExitStep, ChangeStep, StopsKeep
      DEF EvaluationNext
<1> QED BY <1>1, EvaluationStarts, PTL DEF EvaluationSpec

(* Whatever is in the corpus and however it changes under a run: no        *)
(* passage that names someone leaves for a provider or is embedded, unless *)
(* its file was changed between the gate's reading and the chunker's, and  *)
(* no question or conclusion that a pattern can tell does, nor a question  *)
(* with a name in it.  Displayed summaries are exempt, and names in a      *)
(* conclusion.  When a run has reported, or found nothing to index, or     *)
(* failed to embed, the cache holds vectors of its corpus alone, or none;  *)
(* of a run that raised or was killed nothing is said (run.py, cache.py).  *)
THEOREM NothingUnvettedEverStays == EvaluationSpec => []NothingUnvettedStays
<1>1. EvaluationInv => NothingUnvettedStays
  <2> SUFFICES ASSUME EvaluationInv PROVE NothingUnvettedStays
    OBVIOUS
  <2>1. /\ \A t \in sent : TellsOfNobody(t)
        /\ \A c \in stored : c.asVetted => ~NamesSomeone(c.text.spans)
    BY DEF EvaluationInv, ChunksNameNobody, NamesNobody
  <2>3. ending \in {"reported", "reported-refused"} =>
          \A v \in cache.vectors : \E c \in stored : Known(c) = [text |-> v.text, slug |-> v.slug]
    BY DEF EvaluationInv, CacheIsOfItsCorpus, VectorsAreOf, Known
  <2>4. ending \in {"nothing-indexed", "embedding-failed"} => cache = NoCache
    BY DEF EvaluationInv, CacheIsOfItsCorpus
  <2> QED BY <2>1, <2>3, <2>4 DEF NothingUnvettedStays, TellsOfNobody
<1> QED BY <1>1, EvaluationInvHolds, PTL

-----------------------------------------------------------------------------
(* The threshold (Scoring): the least errors of any cutoff.                *)

(* The order of the natural numbers goes down to an end.                   *)
LEMMA LessIsWellFounded == IsWellFoundedOn({ss \in Nat \X Nat : ss[1] < ss[2]}, Nat)
BY NatLessThanWellFounded DEF OpToRel

(* A set of natural numbers has a least element.                           *)
LEMMA Least ==
  ASSUME NEW T \in SUBSET Nat, T # {}
  PROVE \E x \in T : \A y \in T : x <= y
<1> DEFINE R == {ss \in Nat \X Nat : ss[1] < ss[2]}
<1>1. IsWellFoundedOn(R, Nat)
  BY LessIsWellFounded
<1>2. PICK x \in T : \A y \in T : ~ (<<y, x>> \in R)
  <2> HIDE DEF R
  <2> QED BY <1>1, WFMin
<1>3. ASSUME NEW y \in T PROVE x <= y
  <2>1. ~ (<<y, x>> \in R)
    BY <1>2
  <2>2. <<y, x>> \in Nat \X Nat
    OBVIOUS
  <2>3. ~ (y < x)
    BY <2>1, <2>2
  <2> QED BY <2>3
<1> QED BY <1>3

(* And one of numbers below a bound has a greatest.                        *)
LEMMA Greatest ==
  ASSUME NEW n \in Nat, NEW T \in SUBSET (0 .. n), T # {}
  PROVE \E x \in T : \A y \in T : y <= x
<1> DEFINE U == {m \in Nat : \E x \in T : m = n - x}
<1>1. U \in SUBSET Nat
  OBVIOUS
<1>2. U # {}
  <2>1. PICK x \in T : TRUE
    OBVIOUS
  <2>2. n - x \in Nat
    OBVIOUS
  <2>3. n - x \in U
    BY <2>2
  <2> QED BY <2>3
<1>3. PICK u \in U : \A v \in U : u <= v
  <2> HIDE DEF U
  <2> QED BY <1>1, <1>2, Least
<1>4. PICK x \in T : u = n - x
  OBVIOUS
<1>5. ASSUME NEW y \in T PROVE y <= x
  <2>1. n - y \in Nat
    OBVIOUS
  <2>2. n - y \in U
    BY <2>1
  <2>3. u <= n - y
    BY <1>3, <2>2
  <2> QED BY <1>4, <2>3
<1> QED BY <1>5

(* The library's minimum is the least.                                     *)
LEMMA MinIs ==
  ASSUME NEW T \in SUBSET Nat, T # {}
  PROVE Min(T) \in T /\ \A y \in T : Min(T) <= y
BY Least DEF Min

(* And its maximum the greatest.                                           *)
LEMMA MaxIs ==
  ASSUME NEW n \in Nat, NEW T \in SUBSET (0 .. n), T # {}
  PROVE Max(T) \in T /\ \A y \in T : y <= Max(T)
<1>1. \E x \in T : \A y \in T : x >= y
  BY Greatest
<1> QED BY <1>1 DEF Max

(* Rows that have been ranked, with scores as the harness has them.        *)
Ranked(rows, bound) ==
    /\ IsFiniteSet(DOMAIN rows)
    /\ \A i \in DOMAIN rows : rows[i].top \in 0 .. bound /\ rows[i].top % 2 = 0

(* The errors at a cutoff are a number.                                    *)
LEMMA ErrorsAreCounted ==
  ASSUME NEW rows, NEW bound \in Nat, Ranked(rows, bound), NEW cut
  PROVE /\ WrongAbstain(rows, cut) \in Nat
        /\ FalseConfident(rows, cut) \in Nat
        /\ Errors(rows, cut) \in Nat
<1>1. {i \in Answerable(rows) : rows[i].top < cut} \in SUBSET DOMAIN rows
  BY DEF Answerable
<1>2. {i \in Unanswerable(rows) : rows[i].top >= cut} \in SUBSET DOMAIN rows
  BY DEF Unanswerable
<1>3. IsFiniteSet(DOMAIN rows)
  BY DEF Ranked
<1>4. WrongAbstain(rows, cut) \in Nat
  BY <1>1, <1>3, FS_Subset, FS_CardinalityType DEF WrongAbstain
<1>5. FalseConfident(rows, cut) \in Nat
  BY <1>2, <1>3, FS_Subset, FS_CardinalityType DEF FalseConfident
<1> QED BY <1>4, <1>5 DEF Errors

(* Two cutoffs with the same scores below them make the same errors.       *)
LEMMA SameRegion ==
  ASSUME NEW rows, NEW bound \in Nat, Ranked(rows, bound), NEW c \in Int, NEW d \in Int,
         \A t \in Tops(rows) : t < c <=> t < d
  PROVE Errors(rows, c) = Errors(rows, d)
<1>1. \A i \in Answerable(rows) \cup Unanswerable(rows) :
          rows[i].top \in Int /\ (rows[i].top < c <=> rows[i].top < d)
  BY DEF Tops, Ranked, Answerable, Unanswerable
<1>2. {i \in Answerable(rows) : rows[i].top < c} = {i \in Answerable(rows) : rows[i].top < d}
  BY <1>1
<1>3. {i \in Unanswerable(rows) : rows[i].top >= c} = {i \in Unanswerable(rows) : rows[i].top >= d}
  BY <1>1
<1> QED BY <1>2, <1>3 DEF Errors, WrongAbstain, FalseConfident

(* The scores of the rows that count are even numbers below the bound.     *)
LEMMA TopsAre ==
  ASSUME NEW rows, NEW bound \in Nat, Ranked(rows, bound)
  PROVE /\ Tops(rows) \in SUBSET (0 .. bound) /\ \A t \in Tops(rows) : t % 2 = 0
        /\ IsFiniteSet(Tops(rows))
<1>1. Tops(rows) \in SUBSET (0 .. bound) /\ \A t \in Tops(rows) : t % 2 = 0
  BY DEF Tops, Ranked, Answerable, Unanswerable
<1>2. IsFiniteSet(0 .. bound)
  BY FS_Interval
<1> QED BY <1>1, <1>2, FS_Subset

(* The candidates are numbers, and their gaps bounded.                     *)
LEMMA CandidatesAre ==
  ASSUME NEW bound \in Nat, NEW points \in SUBSET (0 .. bound), points # {}
  PROVE \A c \in Candidates(points) : c.cut \in Nat /\ c.gap \in 0 .. bound
<1>1. Min(points) \in points /\ Max(points) \in points
  <2>1. points \in SUBSET Nat
    OBVIOUS
  <2> QED BY <2>1, MinIs, MaxIs
<1>2. ASSUME NEW c \in Middles(points) PROVE c.cut \in Nat /\ c.gap \in 0 .. bound
  <2>1. PICK p \in Neighbours(points) : c = [cut |-> (p[1] + p[2]) \div 2, gap |-> p[2] - p[1]]
    BY DEF Middles
  <2>2. p[1] \in 0 .. bound /\ p[2] \in 0 .. bound /\ p[1] < p[2]
    BY DEF Neighbours
  <2> QED BY <2>1, <2>2
<1>3. Min(points) \in Nat /\ Max(points) + 1 \in Nat
  <2>1. Min(points) \in 0 .. bound /\ Max(points) \in 0 .. bound
    BY <1>1
  <2> QED BY <2>1
<1> QED BY <1>2, <1>3 DEF Candidates

(* One candidate per region: every cutoff makes the errors of one of them. *)
LEMMA CandidatesSuffice ==
  ASSUME NEW rows, NEW bound \in Nat, Ranked(rows, bound), Tops(rows) # {}, NEW cut \in Int
  PROVE \E c \in Candidates(Tops(rows)) : Errors(rows, c.cut) = Errors(rows, cut)
<1> DEFINE points == Tops(rows)
<1>0. points \in SUBSET (0 .. bound) /\ points # {} /\ \A t \in points : t % 2 = 0
  BY TopsAre
<1>1. Min(points) \in points /\ \A y \in points : Min(points) <= y
  <2>1. points \in SUBSET Nat
    BY <1>0
  <2> HIDE DEF points
  <2> QED BY <1>0, <2>1, MinIs
<1>2. Max(points) \in points /\ \A y \in points : y <= Max(points)
  <2> HIDE DEF points
  <2> QED BY <1>0, MaxIs
<1>3. CASE cut <= Min(points)
  <2>1. \A t \in points : t < cut <=> t < Min(points)
    BY <1>0, <1>1, <1>3
  <2>2. Errors(rows, Min(points)) = Errors(rows, cut)
    BY <2>1, <1>0, <1>1, SameRegion
  <2>3. [cut |-> Min(points), gap |-> 0] \in Candidates(points)
    BY DEF Candidates
  <2> QED BY <2>2, <2>3
<1>4. CASE cut > Max(points)
  <2>1. \A t \in points : t < cut <=> t < Max(points) + 1
    BY <1>0, <1>2, <1>4
  <2>2. Errors(rows, Max(points) + 1) = Errors(rows, cut)
    BY <2>1, <1>0, <1>2, SameRegion
  <2>3. [cut |-> Max(points) + 1, gap |-> 0] \in Candidates(points)
    BY DEF Candidates
  <2> QED BY <2>2, <2>3
<1>5. CASE Min(points) < cut /\ cut <= Max(points)
  <2> DEFINE below == {t \in points : t < cut}
             above == {t \in points : cut <= t}
  <2>1. PICK p \in below : \A t \in below : t <= p
    <3>1. below \in SUBSET (0 .. bound) /\ below # {}
      BY <1>0, <1>1, <1>5
    <3> HIDE DEF below
    <3> QED BY <3>1, Greatest
  <2>2. PICK q \in above : \A t \in above : q <= t
    <3>1. above \in SUBSET Nat /\ above # {}
      BY <1>0, <1>2, <1>5
    <3> HIDE DEF above
    <3> QED BY <3>1, Least
  <2> DEFINE middle == (p + q) \div 2
  <2>3. p \in 0 .. bound /\ q \in 0 .. bound /\ p < cut /\ cut <= q /\ p % 2 = 0 /\ q % 2 = 0
    BY <1>0
  <2>4. middle \in Int /\ p < middle /\ middle < q
    BY <2>3
  <2>5. ASSUME NEW t \in points PROVE t < cut <=> t < middle
    <3>1. CASE t < cut
      <4>1. t <= p
        BY <3>1, <2>1
      <4> QED BY <4>1, <3>1, <2>3, <2>4, <1>0
    <3>2. CASE cut <= t
      <4>1. q <= t
        BY <3>2, <2>2
      <4> QED BY <4>1, <3>2, <2>3, <2>4, <1>0
    <3> QED BY <3>1, <3>2, <1>0
  <2>6. Errors(rows, middle) = Errors(rows, cut)
    BY <2>5, <2>4, SameRegion
  <2>7. <<p, q>> \in Neighbours(points)
    <3>1. \A t \in points : ~(p < t /\ t < q)
      BY <2>1, <2>2, <2>3, <1>0
    <3> QED BY <3>1, <2>3 DEF Neighbours
  <2>8. [cut |-> middle, gap |-> q - p] \in Candidates(points)
    BY <2>7 DEF Candidates, Middles
  <2> HIDE DEF middle
  <2> QED BY <2>6, <2>8
<1> QED BY <1>0, <1>1, <1>2, <1>3, <1>4, <1>5

(* Between two scores or more a candidate is taken that no other beats     *)
(* (calibrate_threshold).                                                  *)
LEMMA BestIsTaken ==
  ASSUME NEW rows, NEW bound \in Nat, Ranked(rows, bound), Cardinality(Tops(rows)) >= 2
  PROVE /\ Calibrated(rows) \in Nat
        /\ \A d \in Candidates(Tops(rows)) : Errors(rows, d.cut) >= Errors(rows, Calibrated(rows))
<1> DEFINE points == Tops(rows)
           C == Candidates(points)
           Better(c, d) ==
              \/ Errors(rows, c.cut) < Errors(rows, d.cut)
              \/ Errors(rows, c.cut) = Errors(rows, d.cut) /\ c.gap > d.gap
           best == {c \in C : \A d \in C : ~Better(d, c)}
           cuts == {c.cut : c \in best}
<1>1. points \in SUBSET (0 .. bound) /\ points # {}
  BY TopsAre, FS_EmptySet
<1>2. \A c \in C : c.cut \in Nat /\ c.gap \in 0 .. bound
  <2> HIDE DEF points
  <2> QED BY <1>1, CandidatesAre
<1>3. \A c \in C : Errors(rows, c.cut) \in Nat
  BY ErrorsAreCounted
<1>4. C # {}
  BY DEF Candidates
<1>5. best # {}
  <2> HIDE DEF C
  <2> DEFINE counts == {Errors(rows, c.cut) : c \in C}
  <2>1. PICK n \in counts : \A m \in counts : n <= m
    <3>1. counts \in SUBSET Nat /\ counts # {}
      BY <1>3, <1>4
    <3> HIDE DEF counts
    <3> QED BY <3>1, Least
  <2> DEFINE gaps == {c.gap : c \in {d \in C : Errors(rows, d.cut) = n}}
  <2>2. PICK g \in gaps : \A h \in gaps : h <= g
    <3>1. gaps \in SUBSET (0 .. bound) /\ gaps # {}
      BY <1>2
    <3> HIDE DEF gaps
    <3> QED BY <3>1, Greatest
  <2>3. PICK c \in C : Errors(rows, c.cut) = n /\ c.gap = g
    OBVIOUS
  <2>4. ASSUME NEW d \in C PROVE ~Better(d, c)
    <3>1. n <= Errors(rows, d.cut)
      BY <2>1
    <3>2. Errors(rows, d.cut) = n => d.gap <= g
      BY <2>2
    <3> QED BY <3>1, <3>2, <2>3, <1>2, <1>3
  <2> QED BY <2>3, <2>4
<1>6. Calibrated(rows) = Min(cuts)
  <2>1. ~(Cardinality(points) < 2)
    <3>1. Cardinality(points) \in Nat
      BY TopsAre, FS_CardinalityType
    <3> QED BY <3>1
  <2> QED BY <2>1, Zenon DEF Calibrated
<1>7. PICK c \in best : Calibrated(rows) = c.cut
  <2>1. cuts \in SUBSET Nat /\ cuts # {}
    BY <1>2, <1>5
  <2> HIDE DEF cuts
  <2>2. Min(cuts) \in cuts
    BY <2>1, MinIs
  <2> QED BY <1>6, <2>2 DEF cuts
<1>8. c \in C /\ \A d \in C : ~Better(d, c)
  OBVIOUS
<1> HIDE DEF C
<1>9. Calibrated(rows) \in Nat /\ \A d \in C : Errors(rows, d.cut) >= Errors(rows, Calibrated(rows))
  BY <1>2, <1>3, <1>7, <1>8
<1> QED BY <1>9 DEF C

(* No cutoff leaves fewer errors than the one calibrated.                  *)
LEMMA CalibratedIsBest ==
  ASSUME NEW rows, NEW bound \in Nat, Ranked(rows, bound), Cardinality(Tops(rows)) >= 2,
         NEW cut \in Int
  PROVE Errors(rows, cut) >= Errors(rows, Calibrated(rows))
<1>1. Tops(rows) # {}
  BY FS_EmptySet
<1>2. PICK c \in Candidates(Tops(rows)) : Errors(rows, c.cut) = Errors(rows, cut)
  BY <1>1, CandidatesSuffice
<1> QED BY <1>2, BestIsTaken

(* Whatever is calibrated is a number.                                     *)
LEMMA CalibratedIsNumber ==
  ASSUME NEW rows, NEW bound \in Nat, Ranked(rows, bound) PROVE Calibrated(rows) \in Int
<1>1. Cardinality(Tops(rows)) \in Nat
  BY TopsAre, FS_CardinalityType
<1>2. CASE Cardinality(Tops(rows)) < 2
  BY <1>2 DEF Calibrated
<1>3. CASE Cardinality(Tops(rows)) >= 2
  BY <1>3, BestIsTaken
<1> QED BY <1>1, <1>2, <1>3

-----------------------------------------------------------------------------
(* What a report counts adds up (Scoring).                                 *)

(* The rows of a class.                                                    *)
OfClass(rows, c) == {i \in DOMAIN rows : ClassOf(rows[i].row) = c}

(* Of the rows that should abstain those that do and those that do not are *)
(* all (aggregate).                                                        *)
LEMMA AbstentionsAddUp ==
  ASSUME NEW rows, IsFiniteSet(DOMAIN rows), NEW threshold \in Int,
         \A i \in DOMAIN rows : rows[i].ids # <<>> /\ rows[i].top \in Int
  PROVE  Cardinality(Unanswerable(rows))
            - Cardinality(Unanswerable(rows) \cap {i \in DOMAIN rows : Correct(rows[i], threshold)})
         = FalseConfident(rows, threshold)
<1> DEFINE U == Unanswerable(rows)
           A == U \cap {i \in DOMAIN rows : Correct(rows[i], threshold)}
           F == {i \in U : rows[i].top >= threshold}
<1>1. F = U \ A /\ A = U \cap A
  <2>1. \A i \in U : Correct(rows[i], threshold) <=> rows[i].top < threshold
    BY DEF Unanswerable, Correct
  <2>2. \A i \in U : i \in DOMAIN rows
    BY DEF Unanswerable
  <2> QED BY <2>1, <2>2
<1>2. IsFiniteSet(U)
  BY FS_Subset DEF Unanswerable
<1>3. Cardinality(U \ A) = Cardinality(U) - Cardinality(U \cap A)
  BY <1>2, FS_Difference
<1>4. Cardinality(U) \in Nat /\ Cardinality(A) \in Nat
  BY <1>1, <1>2, FS_Subset, FS_CardinalityType
<1> QED BY <1>1, <1>3, <1>4 DEF FalseConfident

(* Each row that counts is of one of the classes that do.                  *)
LEMMA ClassesAddUp ==
  ASSUME NEW rows, IsFiniteSet(DOMAIN rows),
         \A i \in DOMAIN rows : rows[i].row.class \in Classes \cup {"none"}
  PROVE  /\ Cardinality(OfClass(rows, "answer")) \in Nat
         /\ Cardinality(OfClass(rows, "manager_escalation")) \in Nat
         /\ Cardinality(OfClass(rows, "no_match")) \in Nat
         /\ Cardinality(OfClass(rows, "answer")) + Cardinality(OfClass(rows, "manager_escalation"))
               + Cardinality(OfClass(rows, "no_match"))
            = Cardinality(DOMAIN rows) - Cardinality({i \in DOMAIN rows : ~Scorable(rows[i].row)})
<1> DEFINE D == DOMAIN rows
           A == OfClass(rows, "answer")
           M == OfClass(rows, "manager_escalation")
           N == OfClass(rows, "no_match")
           X == {i \in D : ~Scorable(rows[i].row)}
<1>1. \A i \in D : ClassOf(rows[i].row) \in Classes
  BY DEF ClassOf, Classes
<1>2. D = ((A \cup M) \cup N) \cup X
  BY <1>1 DEF Classes, OfClass, Scorable, Unscorable
<1>3. A \cap M = {} /\ (A \cup M) \cap N = {} /\ ((A \cup M) \cup N) \cap X = {}
  BY DEF OfClass, Scorable, Unscorable
<1>4. IsFiniteSet(A) /\ IsFiniteSet(M) /\ IsFiniteSet(N) /\ IsFiniteSet(X)
  <2>1. A \in SUBSET D /\ M \in SUBSET D /\ N \in SUBSET D /\ X \in SUBSET D
    BY DEF OfClass
  <2> HIDE DEF A, M, N, X
  <2> QED BY <2>1, FS_Subset
<1> HIDE DEF A, M, N, X
<1>5. /\ IsFiniteSet(A \cup M)
      /\ Cardinality(A \cup M) = Cardinality(A) + Cardinality(M) - Cardinality(A \cap M)
  BY <1>4, FS_Union
<1>6. /\ IsFiniteSet((A \cup M) \cup N)
      /\ Cardinality((A \cup M) \cup N)
            = Cardinality(A \cup M) + Cardinality(N) - Cardinality((A \cup M) \cap N)
  BY <1>4, <1>5, FS_Union
<1>7. Cardinality(((A \cup M) \cup N) \cup X)
            = Cardinality((A \cup M) \cup N) + Cardinality(X) - Cardinality(((A \cup M) \cup N) \cap X)
  BY <1>4, <1>6, FS_Union
<1>8. /\ Cardinality(A) \in Nat /\ Cardinality(M) \in Nat /\ Cardinality(N) \in Nat
      /\ Cardinality(X) \in Nat /\ Cardinality({}) = 0
  BY <1>4, FS_CardinalityType, FS_EmptySet
<1>9. Cardinality(A) + Cardinality(M) + Cardinality(N) = Cardinality(D) - Cardinality(X)
  <2>0. /\ Cardinality(A \cap M) = 0 /\ Cardinality((A \cup M) \cap N) = 0
        /\ Cardinality(((A \cup M) \cup N) \cap X) = 0
    BY <1>3, <1>8, Zenon
  <2>1. Cardinality(A \cup M) = Cardinality(A) + Cardinality(M)
    BY <2>0, <1>5, <1>8
  <2>2. Cardinality((A \cup M) \cup N) = Cardinality(A) + Cardinality(M) + Cardinality(N)
    BY <2>0, <2>1, <1>6, <1>8
  <2>3. Cardinality(D) = Cardinality(((A \cup M) \cup N) \cup X)
    BY <1>2
  <2>4. Cardinality(((A \cup M) \cup N) \cup X)
            = Cardinality(A) + Cardinality(M) + Cardinality(N) + Cardinality(X)
    BY <2>0, <2>2, <1>7, <1>8
  <2> HIDE DEF D
  <2> QED BY <2>3, <2>4, <1>8
<1> QED BY <1>8, <1>9 DEF A, M, N, X

(* g is the library's sum of the n's of F on the sets of D.                *)
IsCount(g, F, D) ==
    g = [s \in D |-> IF s = {} THEN 0 ELSE F[CHOOSE x \in s : TRUE].n + g[s \ {CHOOSE x \in s : TRUE}]]

(* The sum over three classes is of three numbers, in whatever order the   *)
(* library takes them.                                                     *)
LEMMA SumOfThree ==
  ASSUME NEW F, NEW a, NEW b, NEW c, a # b, a # c, b # c,
         DOMAIN F = {a, b, c}, F[a].n \in Nat, F[b].n \in Nat, F[c].n \in Nat
  PROVE  InClasses(F) = F[a].n + F[b].n + F[c].n
<1> DEFINE S == {a, b, c}
           D == SUBSET S
           p == F[a].n
           q == F[b].n
           r == F[c].n
           First(s) == CHOOSE x \in s : TRUE
<1>1. InClasses(F) = (CHOOSE g : IsCount(g, F, D))[S]
  BY DEF InClasses, MapThenSumSet, MapThenFoldSet, IsCount
<1> HIDE DEF p, q, r
<1>2. p \in Nat /\ q \in Nat /\ r \in Nat
  BY DEF p, q, r
<1>3. \A s \in D : s # {} => First(s) \in s
  OBVIOUS
<1>4. \E g : IsCount(g, F, D)
  <2> DEFINE g == [s \in D |-> (IF a \in s THEN p ELSE 0) + (IF b \in s THEN q ELSE 0)
                                  + (IF c \in s THEN r ELSE 0)]
             h == [s \in D |-> IF s = {} THEN 0 ELSE F[First(s)].n + g[s \ {First(s)}]]
  <2>1. ASSUME NEW s \in D PROVE g[s] = h[s]
    <3>1. CASE s = {}
      BY <3>1, <1>2
    <3>2. CASE s # {}
      <4> DEFINE x == First(s)
      <4>1. x \in s /\ s \ {x} \in D /\ x \in S
        BY <3>2, <1>3
      <4>2. h[s] = F[x].n + g[s \ {x}]
        BY <3>2
      <4> HIDE DEF x, h
      <4>3. g[s \ {x}] = (IF a \in s \ {x} THEN p ELSE 0) + (IF b \in s \ {x} THEN q ELSE 0)
                                  + (IF c \in s \ {x} THEN r ELSE 0)
        BY <4>1
      <4>4. g[s] = (IF a \in s THEN p ELSE 0) + (IF b \in s THEN q ELSE 0)
                                  + (IF c \in s THEN r ELSE 0)
        OBVIOUS
      <4> HIDE DEF g
      <4>5. CASE x = a
        BY <4>1, <4>2, <4>3, <4>4, <4>5, <1>2 DEF p
      <4>6. CASE x = b
        BY <4>1, <4>2, <4>3, <4>4, <4>6, <1>2 DEF q
      <4>7. CASE x = c
        BY <4>1, <4>2, <4>3, <4>4, <4>7, <1>2 DEF r
      <4> QED BY <4>1, <4>5, <4>6, <4>7
    <3> QED BY <3>1, <3>2
  <2>2. g = h
    BY <2>1
  <2> HIDE DEF g
  <2> QED BY <2>2 DEF IsCount
<1>5. PICK g : g = CHOOSE h : IsCount(h, F, D)
  OBVIOUS
<1>6. IsCount(g, F, D)
  BY <1>4, <1>5
<1>7. \A s \in D : g[s] = IF s = {} THEN 0 ELSE F[First(s)].n + g[s \ {First(s)}]
  BY <1>6, Zenon DEF IsCount
<1>8. g[{}] = 0
  BY <1>7
<1>9. g[{a}] = p /\ g[{b}] = q /\ g[{c}] = r
  <2>1. ASSUME NEW x \in S PROVE g[{x}] = F[x].n + g[{}]
    <3>1. First({x}) = x /\ {x} \ {x} = {} /\ {x} \in D
      OBVIOUS
    <3> QED BY <3>1, <1>7
  <2> QED BY <2>1, <1>8, <1>2 DEF p, q, r
<1>10. g[{a, b}] = p + q /\ g[{a, c}] = p + r /\ g[{b, c}] = q + r
  <2>1. ASSUME NEW x \in S, NEW y \in S, x # y
        PROVE g[{x, y}] = F[x].n + g[{y}] \/ g[{x, y}] = F[y].n + g[{x}]
    <3>1. {x, y} \in D /\ {x, y} # {} /\ {x, y} \ {x} = {y} /\ {x, y} \ {y} = {x}
      BY <2>1
    <3>2. First({x, y}) = x \/ First({x, y}) = y
      BY <3>1, <1>3
    <3>3. g[{x, y}] = F[First({x, y})].n + g[{x, y} \ {First({x, y})}]
      BY <3>1, <1>7
    <3> QED BY <3>1, <3>2, <3>3
  <2>2. g[{a, b}] = p + g[{b}] \/ g[{a, b}] = q + g[{a}]
    BY <2>1 DEF p, q
  <2>3. g[{a, c}] = p + g[{c}] \/ g[{a, c}] = r + g[{a}]
    BY <2>1 DEF p, r
  <2>4. g[{b, c}] = q + g[{c}] \/ g[{b, c}] = r + g[{b}]
    BY <2>1 DEF q, r
  <2> QED BY <2>2, <2>3, <2>4, <1>9, <1>2
<1>11. g[S] = p + q + r
  <2>1. S \in D /\ S # {} /\ S \ {a} = {b, c} /\ S \ {b} = {a, c} /\ S \ {c} = {a, b}
    OBVIOUS
  <2>2. First(S) \in S
    BY <2>1, <1>3
  <2>3. g[S] = F[First(S)].n + g[S \ {First(S)}]
    BY <2>1, <1>7
  <2>4. \/ g[S] = p + g[{b, c}] \/ g[S] = q + g[{a, c}] \/ g[S] = r + g[{a, b}]
    BY <2>1, <2>2, <2>3 DEF p, q, r
  <2> QED BY <2>4, <1>10, <1>2
<1> QED BY <1>1, <1>5, <1>11 DEF p, q, r

-----------------------------------------------------------------------------
(* The figures of a run.                                                   *)

CorpusIsCut == {"gold"} \cup GoldIsJudged
RowsAreRanked == {"grade", "report", "write", "exit"}

(* A row of the run is a gold row with a ranking of the corpus, and is     *)
(* its own question's if no other has its id.                              *)
EvalsAreOfGold ==
    /\ DOMAIN evals = 1 .. Len(Gold) /\ Len(evals) = Len(Gold)
    /\ \A i \in DOMAIN evals :
          /\ evals[i].row = Gold[i]
          /\ evals[i].ids # <<>> /\ evals[i].top \in TopScores
          /\ (\A j \in DOMAIN Gold : Gold[j].id = Gold[i].id => i = j) => evals[i].own

(* What WriteReport puts in a report.                                      *)
Reported(threshold) ==
    [totals |-> Figures(evals, threshold),
     threshold |-> threshold,
     wrongAbstain |-> WrongAbstain(evals, threshold),
     falseConfident |-> FalseConfident(evals, threshold),
     saysNoneBetter |-> SaysNoneBetter(evals, threshold)]

(* What the report will be made of, phase by phase.                        *)
FiguresInv ==
    /\ phase \in {"paths", "scan", "cut"} => IsFiniteSet(listed)
    /\ phase \in CorpusIsCut => IsFiniteSet(chunks) /\ chunks # {}
    /\ phase \in GoldIsJudged => \A i \in DOMAIN Gold : Gold[i].wellFormed
    /\ phase \in RowsAreRanked => EvalsAreOfGold
    /\ phase = "exit" => figures = Reported(Calibrated(evals))

(* A run that is over has no figures to agree (Raise, Kill, Exit).         *)
LEMMA EndedAgrees == ASSUME NEW how, End(how) PROVE FiguresInv'
BY DEF End, FiguresInv, CorpusIsCut, GoldIsJudged, RowsAreRanked

(* The image of a finite set is finite.                                    *)
LEMMA FiniteRange ==
  ASSUME NEW S, IsFiniteSet(S), NEW f, DOMAIN f = S
  PROVE  IsFiniteSet({f[x] : x \in S})
<1> DEFINE T == {f[x] : x \in S}
           g == [x \in S |-> f[x]]
<1>1. g \in Surjection(S, T)
  BY DEF Surjection
<1> QED BY <1>1, FS_Surjection

(* There are finitely many candidates (List).                              *)
LEMMA ListAgrees == ASSUME EvaluationInv, FiguresInv, List PROVE FiguresInv'
<1>1. CASE Raise
  BY <1>1, EndedAgrees DEF Raise
<1>2. CASE /\ phase' = "paths"
           /\ listed' = {[path |-> p] : p \in {q \in DOMAIN tree : q.suffix # ".gitkeep"}}
  <2> DEFINE Q == {q \in DOMAIN tree : q.suffix # ".gitkeep"}
             f == [p \in Q |-> [path |-> p]]
  <2>1. IsFiniteSet(Q)
    <3>1. Q \in SUBSET Files
      BY DEF EvaluationInv, RunKeepsForm
    <3> QED BY <3>1, FS_Subset, EvaluationAssumption
  <2>2. listed' = {f[p] : p \in Q} /\ DOMAIN f = Q
    BY <1>2
  <2> HIDE DEF Q, f
  <2>3. IsFiniteSet(listed')
    BY <2>1, <2>2, FiniteRange
  <2> QED BY <1>2, <2>3 DEF FiguresInv, CorpusIsCut, GoldIsJudged, RowsAreRanked
<1> QED BY <1>1, <1>2 DEF List, To

(* And as many that have been read (JudgePaths, Scan).                     *)
LEMMA ScanAgrees == ASSUME FiguresInv, JudgePaths \/ Scan PROVE FiguresInv'
<1>1. CASE Raise
  BY <1>1, EndedAgrees DEF Raise
<1>2. CASE /\ phase = "paths" /\ phase' = "scan"
           /\ listed' = {[path |-> f.path, named |-> Read(f.path)] : f \in listed}
  <2> DEFINE g == [f \in listed |-> [path |-> f.path, named |-> Read(f.path)]]
  <2>1. listed' = {g[f] : f \in listed} /\ DOMAIN g = listed
    BY <1>2
  <2>2. IsFiniteSet(listed)
    BY <1>2 DEF FiguresInv
  <2> HIDE DEF g
  <2>3. IsFiniteSet(listed')
    BY <2>1, <2>2, FiniteRange
  <2> QED BY <1>2, <2>3 DEF FiguresInv, CorpusIsCut, GoldIsJudged, RowsAreRanked
<1>3. CASE /\ phase = "scan" /\ phase' = "cut"
           /\ listed' = {[path |-> f.path, named |-> f.named, text |-> Read(f.path),
                           passed |-> Passes(f.path, Read(f.path))] : f \in listed}
  <2> DEFINE g == [f \in listed |-> [path |-> f.path, named |-> f.named, text |-> Read(f.path),
                           passed |-> Passes(f.path, Read(f.path))]]
  <2>1. listed' = {g[f] : f \in listed} /\ DOMAIN g = listed
    BY <1>3
  <2>2. IsFiniteSet(listed)
    BY <1>3 DEF FiguresInv
  <2> HIDE DEF g
  <2>3. IsFiniteSet(listed')
    BY <2>1, <2>2, FiniteRange
  <2> QED BY <1>3, <2>3 DEF FiguresInv, CorpusIsCut, GoldIsJudged, RowsAreRanked
<1> QED BY <1>1, <1>2, <1>3 DEF JudgePaths, Scan, To, locals

(* What is cut is some chunks, and finitely many (CutFiles).               *)
LEMMA CutAgrees == ASSUME EvaluationInv, FiguresInv, CutFiles PROVE FiguresInv'
<1> DEFINE in == {f \in listed : Indexable(f)}
           Of(f) == Cut(f.path, DocOf(f.path), tree[f.path], f.named, f.text)
           cut == UNION {Of(f) : f \in in}
<1>1. CASE Raise \/ End("nothing-indexed")
  BY <1>1, EndedAgrees DEF Raise
<1>2. CASE /\ phase = "cut" /\ phase' = "gold" /\ cut # {} /\ chunks' = cut
           /\ \A f \in in : f.path \in DOMAIN tree /\ Cuttable(tree[f.path])
  <2>1. IsFiniteSet(in)
    BY <1>2, FS_Subset DEF FiguresInv
  <2>2. ASSUME NEW f \in in PROVE IsFiniteSet(Of(f))
    <3> DEFINE text == tree[f.path]
               g == [i \in Filled(text) |->
                        [id |-> <<DocOf(f.path), text.sections[i].slug>>, path |-> f.path,
                         slug |-> text.sections[i].slug, text |-> text, asNamed |-> text = f.named,
                         asVetted |-> text = f.text]]
    <3>1. IsFiniteSet(DOMAIN text.sections)
      BY <1>2, EvaluationAssumption DEF EvaluationInv, RunKeepsForm
    <3>2. IsFiniteSet(Filled(text))
      BY <3>1, FS_Subset DEF Filled
    <3>3. Of(f) = {g[i] : i \in Filled(text)} /\ DOMAIN g = Filled(text)
      BY DEF Cut
    <3> HIDE DEF g, text
    <3> QED BY <3>2, <3>3, FiniteRange
  <2>3. IsFiniteSet({Of(f) : f \in in})
    <3> DEFINE g == [f \in in |-> Of(f)]
    <3>1. {Of(f) : f \in in} = {g[f] : f \in in} /\ DOMAIN g = in
      OBVIOUS
    <3> HIDE DEF g, in
    <3> QED BY <2>1, <3>1, FiniteRange
  <2>4. IsFiniteSet(cut)
    <3> HIDE DEF Of, in
    <3> QED BY <2>2, <2>3, FS_UNION
  <2> HIDE DEF cut
  <2> QED BY <1>2, <2>4 DEF FiguresInv, CorpusIsCut, GoldIsJudged, RowsAreRanked
<1> HIDE DEF Of
<1> QED BY <1>1, <1>2 DEF CutFiles, To, Of

(* Every row of a gold set that is read is well formed (ReadGold).         *)
LEMMA GoldAgrees == ASSUME FiguresInv, ReadGold PROVE FiguresInv'
<1>1. CASE Raise
  BY <1>1, EndedAgrees DEF Raise
<1>2. CASE ~Raise
  <2>1. /\ phase = "gold" /\ phase' = "prepare" /\ UNCHANGED <<chunks, setup>>
        /\ \A i \in DOMAIN Gold : Gold[i].wellFormed
    BY <1>2 DEF ReadGold, To, locals
  <2> QED BY <2>1 DEF FiguresInv, CorpusIsCut, GoldIsJudged, RowsAreRanked, Gold
<1> QED BY <1>1, <1>2

(* Embedding changes neither rows nor chunks (Prepare, Embed, Save).       *)
LEMMA EmbedAgrees == ASSUME FiguresInv, Prepare \/ Embed \/ Save PROVE FiguresInv'
<1>1. CASE Raise
  BY <1>1, EndedAgrees DEF Raise
<1>2. CASE /\ phase \in {"prepare", "embed", "save"} /\ phase' \in {"embed", "save", "rank"}
           /\ UNCHANGED <<chunks, setup>>
  BY <1>2 DEF FiguresInv, CorpusIsCut, GoldIsJudged, RowsAreRanked, Gold
<1> QED BY <1>1, <1>2 DEF Prepare, Embed, Save, To, locals

(* A function of the gold rows' places is a sequence as long as they are.  *)
LEMMA AsLong ==
  ASSUME NEW n \in Nat, NEW f, f = [i \in 1 .. n |-> f[i]]
  PROVE  Len(f) = n
<1>1. f \in [1 .. n -> {f[i] : i \in 1 .. n}]
  OBVIOUS
<1>2. f \in Seq({f[i] : i \in 1 .. n})
  BY <1>1, SeqDef
<1> QED BY <1>1, <1>2, LenProperties

(* The gold set is a sequence of the set-ups' rows.                        *)
LEMMA GoldHasLength ==
  ASSUME EvaluationInv, phase # "idle" PROVE Len(Gold) \in Nat /\ DOMAIN Gold = 1 .. Len(Gold)
BY EvaluationAssumption DEF EvaluationInv, RunKeepsForm, Gold

(* Each row gets a ranking of all chunks, of which there are some          *)
(* (RankRows).                                                             *)
LEMMA RankAgrees == ASSUME EvaluationInv, FiguresInv, RankRows PROVE FiguresInv'
<1>1. /\ phase = "rank" /\ phase' = "grade" /\ UNCHANGED <<chunks, setup>>
      /\ IsFiniteSet(chunks) /\ chunks # {}
      /\ Len(Gold) \in Nat /\ DOMAIN Gold = 1 .. Len(Gold)
      /\ \A i \in DOMAIN Gold : Gold[i].wellFormed
  BY GoldHasLength DEF RankRows, To, FiguresInv, CorpusIsCut, GoldIsJudged
<1>2. PICK of \in [DOMAIN Gold -> Rankings] :
        evals' = [i \in DOMAIN Gold |->
            LET r == of[LastOf(Gold[i].id)]
            IN  [row |-> Gold[i], expected |-> Expected(Gold[i]), ids |-> r.ids, top |-> r.top,
                 own |-> r = of[i]]]
  BY DEF RankRows
<1>3. \A r \in Rankings : r.ids # <<>> /\ r.top \in TopScores
  <2>1. Cardinality(chunks) \in Nat /\ Cardinality(chunks) # 0
    BY <1>1, FS_CardinalityType, FS_EmptySet
  <2>2. ASSUME NEW r \in Rankings PROVE DOMAIN r.ids = 1 .. Cardinality(chunks) /\ r.top \in TopScores
    BY DEF Rankings
  <2>3. 1 \in 1 .. Cardinality(chunks)
    BY <2>1
  <2>4. DOMAIN << >> = {}
    BY EmptySeq, LenProperties
  <2> QED BY <2>2, <2>3, <2>4
<1>4. ASSUME NEW i \in DOMAIN Gold
      PROVE  /\ LastOf(Gold[i].id) \in DOMAIN Gold
             /\ (\A j \in DOMAIN Gold : Gold[j].id = Gold[i].id => i = j) => LastOf(Gold[i].id) = i
  <2> DEFINE T == {j \in DOMAIN Gold : Gold[j].id = Gold[i].id}
  <2>1. T \in SUBSET (0 .. Len(Gold)) /\ i \in T
    BY <1>1
  <2>2. LastOf(Gold[i].id) = Max(T)
    BY DEF LastOf
  <2>3. PICK m \in T : m = Max(T)
    <3> HIDE DEF T
    <3> QED BY <2>1, <1>1, MaxIs
  <2>4. m = LastOf(Gold[i].id) /\ m \in DOMAIN Gold /\ Gold[m].id = Gold[i].id
    BY <2>2, <2>3
  <2> QED BY <2>4
<1>5. /\ DOMAIN evals' = DOMAIN Gold
      /\ \A i \in DOMAIN Gold :
            /\ evals'[i].row = Gold[i]
            /\ evals'[i].ids = of[LastOf(Gold[i].id)].ids /\ evals'[i].top = of[LastOf(Gold[i].id)].top
            /\ evals'[i].own <=> of[LastOf(Gold[i].id)] = of[i]
  BY <1>2
<1>6. Len(evals') = Len(Gold)
  <2>1. evals' = [i \in 1 .. Len(Gold) |-> evals'[i]]
    BY <1>1, <1>2
  <2> QED BY <1>1, <2>1, AsLong
<1>7. \A i \in DOMAIN Gold : of[LastOf(Gold[i].id)] \in Rankings
  BY <1>2, <1>4
<1>8. \A i \in DOMAIN Gold :
          (\A j \in DOMAIN Gold : Gold[j].id = Gold[i].id => i = j) => evals'[i].own
  BY <1>4, <1>5
<1>9. Gold' = Gold
  BY <1>1 DEF Gold
<1>10. EvalsAreOfGold'
  BY <1>1, <1>3, <1>5, <1>6, <1>7, <1>8, <1>9 DEF EvalsAreOfGold
<1> QED BY <1>1, <1>9, <1>10 DEF FiguresInv, CorpusIsCut, GoldIsJudged, RowsAreRanked

(* Grading adds verdicts to the rows (Grade).                              *)
LEMMA GradeAgrees == ASSUME EvaluationInv, FiguresInv, Grade PROVE FiguresInv'
<1>1. CASE Raise
  BY <1>1, EndedAgrees DEF Raise
<1>2. CASE ~Raise
  <2>1. /\ phase = "grade" /\ phase' = "report" /\ UNCHANGED <<chunks, setup>>
        /\ EvalsAreOfGold /\ Len(Gold) \in Nat /\ Gold' = Gold
    BY <1>2, GoldHasLength DEF Grade, To, FiguresInv, RowsAreRanked, Gold
  <2>2. PICK told \in [DOMAIN evals -> Replies] :
            evals' = [i \in DOMAIN evals |-> Graded(evals[i], told[i])]
    BY <1>2 DEF Grade
  <2>3. ASSUME NEW e, NEW reply
        PROVE  /\ Graded(e, reply).row = e.row /\ Graded(e, reply).ids = e.ids
               /\ Graded(e, reply).top = e.top /\ Graded(e, reply).own = e.own
    BY DEF Graded
  <2>4. /\ DOMAIN evals' = DOMAIN evals
        /\ \A i \in DOMAIN evals : /\ evals'[i].row = evals[i].row /\ evals'[i].ids = evals[i].ids
                                   /\ evals'[i].top = evals[i].top /\ evals'[i].own = evals[i].own
    BY <2>2, <2>3
  <2>5. Len(evals') = Len(Gold)
    <3>1. evals' = [i \in 1 .. Len(Gold) |-> evals'[i]]
      BY <2>1, <2>2 DEF EvalsAreOfGold
    <3> QED BY <2>1, <3>1, AsLong
  <2>6. EvalsAreOfGold'
    BY <2>1, <2>4, <2>5 DEF EvalsAreOfGold
  <2> QED BY <2>1, <2>6 DEF FiguresInv, CorpusIsCut, GoldIsJudged, RowsAreRanked
<1> QED BY <1>1, <1>2

(* The report is written of the rows as they are (OpenReport, WriteReport). *)
LEMMA ReportAgrees == ASSUME FiguresInv, OpenReport \/ WriteReport PROVE FiguresInv'
<1>1. /\ UNCHANGED <<chunks, setup, evals>> /\ Gold' = Gold
      /\ phase \in {"report", "write"} /\ phase' \in {"write", "exit"}
  BY DEF OpenReport, WriteReport, To, locals, Gold
<1>2. phase' = "exit" => figures' = Reported(Calibrated(evals))
  BY DEF OpenReport, WriteReport, To, Reported
<1>3. EvalsAreOfGold' /\ Reported(Calibrated(evals))' = Reported(Calibrated(evals))
  BY <1>1 DEF FiguresInv, RowsAreRanked, EvalsAreOfGold, Reported, SaysNoneBetter
<1> QED BY <1>1, <1>2, <1>3 DEF FiguresInv, CorpusIsCut, GoldIsJudged, RowsAreRanked

(* So what the report is made of holds in every state.                     *)
LEMMA FiguresInvHolds == EvaluationSpec => []FiguresInv
<1>1. EvaluationInit => FiguresInv
  BY DEF EvaluationInit, FiguresInv, CorpusIsCut, GoldIsJudged, RowsAreRanked
<1>2. EvaluationInv /\ FiguresInv /\ [EvaluationNext]_evaluationVars => FiguresInv'
  <2> SUFFICES ASSUME EvaluationInv, FiguresInv, [EvaluationNext]_evaluationVars PROVE FiguresInv'
    OBVIOUS
  <2>1. CASE UNCHANGED <<phase, setup, listed, chunks, evals, figures>>
    <3>1. Gold' = Gold /\ EvalsAreOfGold' = EvalsAreOfGold
      BY <2>1 DEF Gold, EvalsAreOfGold
    <3>2. Reported(Calibrated(evals))' = Reported(Calibrated(evals))
      BY <2>1 DEF Reported, SaysNoneBetter
    <3> QED BY <2>1, <3>1, <3>2 DEF FiguresInv
  <2>2. ASSUME NEW s \in Setups, Start(s) PROVE FiguresInv'
    <3>1. phase' \in {"list", "idle"}
      BY <2>2 DEF Start
    <3> QED BY <3>1 DEF FiguresInv, CorpusIsCut, GoldIsJudged, RowsAreRanked
  <2>3. CASE RankFails \/ GradeFails \/ Kill \/ EmbedFails \/ Exit
    BY <2>3, EndedAgrees DEF RankFails, GradeFails, Raise, Kill, EmbedFails, Exit
  <2>4. CASE Change
    BY <2>1, <2>4 DEF Change, locals
  <2>5. CASE UNCHANGED evaluationVars
    BY <2>1, <2>5 DEF evaluationVars
  <2> QED BY <2>2, <2>3, <2>4, <2>5, ListAgrees, ScanAgrees, CutAgrees, GoldAgrees, EmbedAgrees,
        RankAgrees, GradeAgrees, ReportAgrees DEF EvaluationNext
<1> QED BY <1>1, <1>2, EvaluationInvHolds, PTL DEF EvaluationSpec

(* Whatever the corpus, the gold set and the scores: the figures of every  *)
(* report agree with each other, and no cutoff leaves fewer errors than    *)
(* the threshold that says so (calibrate_threshold, aggregate, run).       *)
THEOREM FiguresAlwaysAgree == EvaluationSpec => []FiguresAgree
<1>1. EvaluationInv /\ FiguresInv => FiguresAgree
  <2> SUFFICES ASSUME EvaluationInv, FiguresInv, phase = "exit" PROVE FiguresAgree
    BY DEF FiguresAgree
  <2> DEFINE threshold == Calibrated(evals)
             D == DOMAIN evals
             bound == Max(TopScores)
  <2>1. /\ EvalsAreOfGold /\ figures = Reported(threshold)
        /\ Len(Gold) \in Nat /\ DOMAIN Gold = 1 .. Len(Gold)
        /\ \A i \in DOMAIN Gold : Gold[i].wellFormed
    BY GoldHasLength DEF FiguresInv, RowsAreRanked, GoldIsJudged
  <2>2. D = 1 .. Len(Gold) /\ IsFiniteSet(D) /\ Cardinality(D) = Len(evals)
    <3>1. IsFiniteSet(1 .. Len(Gold)) /\ Cardinality(1 .. Len(Gold)) = Len(Gold)
      BY <2>1, FS_Interval
    <3> QED BY <2>1, <3>1 DEF EvalsAreOfGold
  <2>3. bound \in Nat /\ Ranked(evals, bound)
    BY <2>1, <2>2, EvaluationAssumption DEF EvalsAreOfGold, Ranked
  <2>4. /\ figures.wrongAbstain = WrongAbstain(evals, threshold)
        /\ figures.falseConfident = FalseConfident(evals, threshold)
        /\ figures.totals = Figures(evals, threshold)
    BY <2>1 DEF Reported
  <2>5. ASSUME Cardinality(Tops(evals)) >= 2, NEW cut \in 0 .. Max(TopScores) + 1
        PROVE  Errors(evals, cut) >= figures.wrongAbstain + figures.falseConfident
    <3>1. Errors(evals, cut) >= Errors(evals, threshold)
      BY <2>3, <2>5, CalibratedIsBest
    <3> QED BY <2>4, <3>1 DEF Errors
  <2>6. figures.totals.unanswerable - figures.totals.abstained = figures.falseConfident
    <3>1. \A i \in D : evals[i].ids # <<>> /\ evals[i].top \in Int
      BY <2>1, <2>3 DEF EvalsAreOfGold, Ranked
    <3>2. threshold \in Int
      BY <2>3, CalibratedIsNumber
    <3>3. /\ figures.totals.unanswerable = Cardinality(Unanswerable(evals))
          /\ figures.totals.abstained
                = Cardinality(Unanswerable(evals) \cap {i \in D : Correct(evals[i], threshold)})
      BY <2>4 DEF Figures
    <3> QED BY <2>2, <2>4, <3>1, <3>2, <3>3, AbstentionsAddUp
  <2>7. InClasses(figures.totals.byClass) = Len(evals) - figures.totals.unscorable
    <3> DEFINE F == figures.totals.byClass
    <3>1. /\ DOMAIN F = {"answer", "manager_escalation", "no_match"}
          /\ F["answer"].n = Cardinality(OfClass(evals, "answer"))
          /\ F["manager_escalation"].n = Cardinality(OfClass(evals, "manager_escalation"))
          /\ F["no_match"].n = Cardinality(OfClass(evals, "no_match"))
          /\ figures.totals.unscorable = Cardinality({i \in D : ~Scorable(evals[i].row)})
      BY <2>4 DEF Figures, Classes, Unscorable, CountOf, OfClass
    <3>2. \A i \in D : evals[i].row.class \in Classes \cup {"none"}
      BY <2>1, <2>2, EvaluationAssumption DEF EvalsAreOfGold, EvaluationInv, RunKeepsForm, Gold
    <3>3. /\ F["answer"].n \in Nat /\ F["manager_escalation"].n \in Nat /\ F["no_match"].n \in Nat
          /\ F["answer"].n + F["manager_escalation"].n + F["no_match"].n
                = Len(evals) - figures.totals.unscorable
      BY <2>2, <3>1, <3>2, ClassesAddUp
    <3> HIDE DEF F
    <3>4. InClasses(F) = F["answer"].n + F["manager_escalation"].n + F["no_match"].n
      <4> DEFINE a == "answer"
                 m == "manager_escalation"
                 n == "no_match"
      <4>1. /\ a # m /\ a # n /\ m # n /\ DOMAIN F = {a, m, n}
            /\ F[a].n \in Nat /\ F[m].n \in Nat /\ F[n].n \in Nat
        BY <3>1, <3>3
      <4> HIDE DEF a, m, n
      <4>2. InClasses(F) = F[a].n + F[m].n + F[n].n
        BY <4>1, SumOfThree
      <4> QED BY <4>2 DEF a, m, n
    <3> QED BY <3>3, <3>4 DEF F
  <2>8. ASSUME NEW i \in D, \A j \in D : evals[j].row.id = evals[i].row.id => i = j
        PROVE  evals[i].own
    BY <2>1, <2>2, <2>8 DEF EvalsAreOfGold
  <2> QED BY <2>5, <2>6, <2>7, <2>8 DEF FiguresAgree
<1> QED BY <1>1, EvaluationInvHolds, FiguresInvHolds, PTL
=============================================================================
