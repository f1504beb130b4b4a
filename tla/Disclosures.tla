---------------------------- MODULE Disclosures ----------------------------
(***************************************************************************)
(* The TILA disclosure of one offer: POST /disclosures (with its replay    *)
(* and repair paths), the lifecycle POST /disclosures/{id}/transition, and *)
(* the guard origination's accept_offer puts before boarding the loan.     *)
(*                                                                         *)
(* A creating handler is one transaction at READ COMMITTED: its reads see  *)
(* what is committed when they run, its ORM writes are UPDATEs by primary  *)
(* key issued at the commit.  A reviewing handler guards its UPDATE with   *)
(* the status it read.  An accepting handler autocommits each statement.   *)
(*                                                                         *)
(* uq_offers_app and uq_disclosures_offer make offers independent of each  *)
(* other, so one offer is enough.  The figures are left out: every request *)
(* modelled recomputes to the offer's, and its document spells them so.    *)
(***************************************************************************)

CONSTANTS
    Creators,    \* threads serving POST /disclosures
    Reviewers,   \* threads serving POST /disclosures/{id}/transition
    Acceptors,   \* threads serving POST /applications/{id}/accept
    Events,      \* decision_events of the offer's application
    Approving,   \* those whose outcome is approve
    Documents,   \* documents that agree with the figures
    NoEvent, NoDocument

ASSUME DisclosureAssumption ==
    /\ Approving \subseteq Events
    /\ NoEvent \notin Events
    /\ NoDocument \notin Documents

VARIABLES
    edge,      \* offers.decision_event_id
    row,       \* the disclosures row: status, document_body, decision_event_id
    loan,      \* whether a loans row exists for the offer's application
    creator, reviewer, acceptor

vars == <<edge, row, loan, creator, reviewer, acceptor>>

Statuses == {"draft", "in_review", "approved", "delivered"}

Row == [status : Statuses \cup {"absent"}, document : Documents \cup {NoDocument},
        event : Events \cup {NoEvent}]

(* What a creating thread holds: the request's event and document, the edge*)
(* of the offer it read, and in "replay" the status of the row it read,    *)
(* with the document it is to repair that row with, if any.                *)
Creator == [pc : {"idle", "look", "insert", "lost", "replay"},
            event : Events \cup {NoEvent}, document : Documents \cup {NoDocument},
            edge : Events \cup {NoEvent}, seen : Statuses]

Reviewer == [pc : {"idle", "chain", "loan", "write"}, target : Statuses, seen : Statuses]

TypeOK ==
    /\ edge \in Events \cup {NoEvent}
    /\ row \in Row
    /\ loan \in {"none", "boarded"}
    /\ creator \in [Creators -> Creator]
    /\ reviewer \in [Reviewers -> Reviewer]
    /\ acceptor \in [Acceptors -> {"idle", "look", "board"}]

Absent == [status |-> "absent", document |-> NoDocument, event |-> NoEvent]

(* A thread that has answered serves another request.                      *)
IdleCreator == [pc |-> "idle", event |-> NoEvent, document |-> NoDocument,
                edge |-> NoEvent, seen |-> "draft"]

IdleReviewer == [pc |-> "idle", target |-> "draft", seen |-> "draft"]

(* A volume that ran the migrations one by one may hold a row without a    *)
(* document, an offer without an edge or with another one than its row, a  *)
(* row citing a denial, or a loan boarded before the timing hold.          *)
Init ==
    /\ edge \in Events \cup {NoEvent}
    /\ row \in {Absent} \cup {w \in Row : w.status # "absent" /\ w.event # NoEvent}
    /\ loan \in {"none", "boarded"}
    /\ creator = [c \in Creators |-> IdleCreator]
    /\ reviewer = [o \in Reviewers |-> IdleReviewer]
    /\ acceptor = [a \in Acceptors |-> "idle"]

-----------------------------------------------------------------------------
(* create_disclosure *)

SetCreator(c, q) == creator' = [creator EXCEPT ![c] = q]

Goto(c, pc) == SetCreator(c, [creator[c] EXCEPT !.pc = pc])

AnswerCreator(c) == SetCreator(c, IdleCreator)

(* session.get(Offer)                                                      *)
ReadOffer(c, e, d) ==
    /\ creator[c].pc = "idle"
    /\ SetCreator(c, [pc |-> "look", event |-> e, document |-> d, edge |-> edge,
                      seen |-> "draft"])
    /\ UNCHANGED <<edge, row, loan, reviewer, acceptor>>

(* Slip: any approving event of the application will do.                   *)
AuthorizesOfApplication(c) == creator[c].event \in Approving

(* _refuse_if_decision_event_invalid                                       *)
Authorizes(c) ==
    /\ creator[c].event \in Approving
    /\ creator[c].edge \in {NoEvent, creator[c].event}

LookForMissing(c) ==
    /\ creator[c].pc = "look"
    /\ row.status = "absent"
    /\ IF Authorizes(c) THEN Goto(c, "insert") ELSE AnswerCreator(c)
    /\ UNCHANGED <<edge, row, loan, reviewer, acceptor>>

(* _repair_missing_document, deciding from the row the handler read.       *)
Repair(document) == IF row.document = NoDocument /\ row.status # "delivered"
                    THEN document ELSE NoDocument

FindExisting(c) ==
    /\ creator[c].pc = "look"
    /\ row.status # "absent"
    /\ SetCreator(c, [creator[c] EXCEPT !.pc = "replay", !.event = row.event,
                                        !.document = Repair(@), !.seen = row.status])
    /\ UNCHANGED <<edge, row, loan, reviewer, acceptor>>

(* _close_provenance_edge: what the edge becomes, closed with event e by a *)
(* thread that read it as it was in `read`.                                *)
Closed(read, e) == IF read = NoEvent THEN e ELSE edge

(* The insert and the offer's edge commit together, or uq_disclosures_offer*)
(* takes both back.                                                        *)
Insert(c) ==
    /\ creator[c].pc = "insert"
    /\ row.status = "absent"
    /\ row' = [status |-> "draft", document |-> creator[c].document,
               event |-> creator[c].event]
    /\ edge' = Closed(creator[c].edge, creator[c].event)
    /\ AnswerCreator(c)
    /\ UNCHANGED <<loan, reviewer, acceptor>>

InsertConflict(c) ==
    /\ creator[c].pc = "insert"
    /\ row.status # "absent"
    /\ Goto(c, "lost")
    /\ UNCHANGED <<edge, row, loan, reviewer, acceptor>>

(* The loser of the insert closes the edge from the winner's record, after *)
(* a rollback that expired the offer it had read.                          *)
ReplayWinner(c) ==
    /\ creator[c].pc = "lost"
    /\ edge' = Closed(edge, row.event)
    /\ AnswerCreator(c)
    /\ UNCHANGED <<row, loan, reviewer, acceptor>>

Repaired(c) ==
    [row EXCEPT !.document = creator[c].document,
                !.status = IF creator[c].seen = "draft" THEN @ ELSE "draft"]

(* The replay's commit: the document, a status reset if the row read was   *)
(* past draft, and the edge.                                               *)
Replay(c) ==
    /\ creator[c].pc = "replay"
    /\ creator[c].document = NoDocument \/ row.status # "delivered"
    /\ edge' = Closed(creator[c].edge, creator[c].event)
    /\ row' = IF creator[c].document = NoDocument THEN row ELSE Repaired(c)
    /\ AnswerCreator(c)
    /\ UNCHANGED <<loan, reviewer, acceptor>>

(* trg_disclosures_freeze_delivered fails the whole commit of a repair that*)
(* the delivery overtook.                                                  *)
ReplayFrozen(c) ==
    /\ creator[c].pc = "replay"
    /\ creator[c].document # NoDocument /\ row.status = "delivered"
    /\ AnswerCreator(c)
    /\ UNCHANGED <<edge, row, loan, reviewer, acceptor>>

-----------------------------------------------------------------------------
(* transition_disclosure *)

LEGAL_TRANSITIONS == [draft |-> {"in_review"}, in_review |-> {"approved", "draft"},
                      approved |-> {"delivered", "draft"}, delivered |-> {}, absent |-> {}]

SetReviewer(o, q) == reviewer' = [reviewer EXCEPT ![o] = q]

Proceed(o, pc, ok) ==
    SetReviewer(o, IF ok THEN [reviewer[o] EXCEPT !.pc = pc] ELSE IdleReviewer)

(* The row is read and the target checked; an illegal one, a reject with   *)
(* no routable reason and a delivery of nothing leave no trace.            *)
ReadRow(o, t) ==
    /\ reviewer[o].pc = "idle"
    /\ t \in LEGAL_TRANSITIONS[row.status]
    /\ t = "delivered" => row.document # NoDocument
    /\ SetReviewer(o, [pc |-> IF t = "delivered" THEN "chain" ELSE "write",
                       target |-> t, seen |-> row.status])
    /\ UNCHANGED <<edge, row, loan, creator, acceptor>>

(* Slip: a bare not-null check of the edges.                               *)
ChainNotNull == edge # NoEvent /\ row.event # NoEvent

(* _incomplete_edges finds nothing missing, split or unapproved.           *)
ChainWhole == edge = row.event /\ row.event \in Approving

CheckChain(o) ==
    /\ reviewer[o].pc = "chain"
    /\ Proceed(o, "loan", ChainWhole)
    /\ UNCHANGED <<edge, row, loan, creator, acceptor>>

(* _refuse_if_already_consummated                                          *)
CheckLoan(o) ==
    /\ reviewer[o].pc = "loan"
    /\ Proceed(o, "write", loan = "none")
    /\ UNCHANGED <<edge, row, loan, creator, acceptor>>

(* Slip: the UPDATE is not guarded on the status that was read.            *)
WriteUnguarded(o) ==
    /\ reviewer[o].pc = "write"
    /\ row' = IF row.status = "delivered" THEN row
              ELSE [row EXCEPT !.status = reviewer[o].target]
    /\ SetReviewer(o, IdleReviewer)
    /\ UNCHANGED <<edge, loan, creator, acceptor>>

(* UPDATE ... WHERE status = current; zero rows is a 409.                  *)
Write(o) ==
    /\ reviewer[o].pc = "write"
    /\ row' = IF row.status = reviewer[o].seen
              THEN [row EXCEPT !.status = reviewer[o].target] ELSE row
    /\ SetReviewer(o, IdleReviewer)
    /\ UNCHANGED <<edge, loan, creator, acceptor>>

-----------------------------------------------------------------------------
(* accept_offer: one joining SELECT of the terms, then the look for an     *)
(* existing loan, then the INSERT.  The terms are judged after the look,   *)
(* but from what the SELECT returned, so they are judged at once.  The     *)
(* decisions row, a rollup that may change, can only refuse more.          *)

(* The timing hold, the document, the split edge and the denial.           *)
MayBoard ==
    /\ row.status = "delivered"
    /\ row.document # NoDocument
    /\ edge \in {NoEvent, row.event}
    /\ row.event \in Approving

AcceptorGoto(a, pc) ==
    /\ acceptor' = [acceptor EXCEPT ![a] = pc]
    /\ UNCHANGED <<edge, row, loan, creator, reviewer>>

ReadTerms(a) == acceptor[a] = "idle" /\ MayBoard /\ AcceptorGoto(a, "look")

LookForLoan(a) ==
    /\ acceptor[a] = "look"
    /\ AcceptorGoto(a, IF loan = "none" THEN "board" ELSE "idle")

(* uq_loans_app turns the loser of the INSERT into a replay.               *)
Board(a) ==
    /\ acceptor[a] = "board"
    /\ loan' = "boarded"
    /\ acceptor' = [acceptor EXCEPT ![a] = "idle"]
    /\ UNCHANGED <<edge, row, creator, reviewer>>

-----------------------------------------------------------------------------
(* The handler dies between two statements: its transaction rolls back.    *)
CreatorDies(c) ==
    /\ creator[c].pc # "idle"
    /\ AnswerCreator(c)
    /\ UNCHANGED <<edge, row, loan, reviewer, acceptor>>

ReviewerDies(o) ==
    /\ reviewer[o].pc # "idle"
    /\ SetReviewer(o, IdleReviewer)
    /\ UNCHANGED <<edge, row, loan, creator, acceptor>>

AcceptorDies(a) == acceptor[a] # "idle" /\ AcceptorGoto(a, "idle")

CreatorStep(c) ==
    \/ \E e \in Events, d \in Documents \cup {NoDocument} : ReadOffer(c, e, d)
    \/ LookForMissing(c) \/ FindExisting(c)
    \/ Insert(c) \/ InsertConflict(c) \/ ReplayWinner(c)
    \/ Replay(c) \/ ReplayFrozen(c) \/ CreatorDies(c)

ReviewerStep(o) ==
    \/ \E t \in Statuses : ReadRow(o, t)
    \/ CheckChain(o) \/ CheckLoan(o) \/ Write(o) \/ ReviewerDies(o)

AcceptorStep(a) == ReadTerms(a) \/ LookForLoan(a) \/ Board(a) \/ AcceptorDies(a)

Next ==
    \/ \E c \in Creators : CreatorStep(c)
    \/ \E o \in Reviewers : ReviewerStep(o)
    \/ \E a \in Acceptors : AcceptorStep(a)

Spec == Init /\ [][Next]_vars

-----------------------------------------------------------------------------
(* The lifecycle is the whitelist, whoever acts at once and whatever a     *)
(* late repair writes: no step skips review (transition_disclosure's       *)
(* guarded UPDATE, _repair_missing_document's reset).                      *)
LegalStep ==
    row.status # "absent" /\ row'.status # row.status
        => row'.status \in LEGAL_TRANSITIONS[row.status]

LifecycleIsLegal == [][LegalStep]_vars

(* What the borrower was shown is never altered, not even by a repair that *)
(* read the row before its delivery (trg_disclosures_freeze_delivered).    *)
DeliveredIsFrozen == [][row.status = "delivered" => row' = row]_vars

(* A delivery comes by way of review and delivers something: no step skips *)
(* a stage, and at the moment of the freeze there is a document, the offer *)
(* and the record cite one decision, it approved, and no loan was boarded  *)
(* before (the delivery guards, read one by one before the UPDATE).        *)
WholeDelivery ==
    row.status # "delivered" /\ row'.status = "delivered"
        => /\ row'.document # NoDocument
           /\ edge' = row'.event /\ row'.event \in Approving
           /\ loan' = "none"

DeliveryIsWhole == [][LegalStep /\ WholeDelivery]_vars

(* The event that authorized an offer is never replaced by another, and a  *)
(* record is written with its offer's edge closed on the record's event    *)
(* (_close_provenance_edge, _refuse_if_decision_event_invalid).            *)
OneDecision ==
    /\ edge # NoEvent => edge' = edge
    /\ row.status = "absent" /\ row'.status # "absent" => edge' = row'.event

OneDecisionPerOffer == [][OneDecision]_vars

(* A loan is boarded only over a delivered, readable, approved disclosure  *)
(* that names the offer's decision, although accept_offer read all of that *)
(* before its INSERT (the monotonicity its comment argues from).           *)
DisclosedBoarding ==
    loan # loan'
        => /\ row.status = "delivered" /\ row.document # NoDocument
           /\ row.event \in Approving /\ edge \in {NoEvent, row.event}

BoardingIsDisclosed == [][DisclosedBoarding]_vars

(* The docstring's claim that a document backfilled onto a row past draft  *)
(* resets it to draft, to re-enter review rather than ride an approval it  *)
(* was never part of.                                                      *)
LateDocumentReentersReview ==
    [][row.status # "absent" /\ row'.document # row.document
           => row'.status = "draft"]_vars

=============================================================================
