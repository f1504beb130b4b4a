---------------------------- MODULE Origination ----------------------------
(***************************************************************************)
(* The pipeline of one application through origination-service: submit,    *)
(* KYC and its re-check, decision, offer, acceptance (which boards the     *)
(* loan into servicing's tables) and the gateway's compensating abandon.   *)
(*                                                                         *)
(* Every statement autocommits, so a handler is the sequence of its reads  *)
(* and writes, and only foreign keys, unique indexes and what can never be *)
(* undone hold between them.  The decision is taken by decision-service,   *)
(* of which only its promise (DecisionRecord) is used here; of disclosure- *)
(* service's review (Disclosures) only what a boarding needs to see.       *)
(*                                                                         *)
(* Left out: the amounts, deny_self_decision and the monthly_debt          *)
(* quarantine (which only refuse), and the operator's POST /board, which   *)
(* reads nothing of the pipeline.                                          *)
(***************************************************************************)
EXTENDS Integers, Sequences

CONSTANTS
    Officers,     \* threads serving an officer's or the linked owner's requests
    Applicants,   \* threads serving requests that carry the continuation token
    MaxEvents     \* bound on the decisions taken

ASSUME OriginationAssumption ==
    /\ Officers \cap Applicants = {}
    /\ MaxEvents \in Nat

Callers == Officers \cup Applicants

VARIABLES
    app,          \* the applications row: its status, or that it is not there
    token,        \* whether the continuation token is neither expired nor retired
    complete,     \* whether the stored identity has every element KYC requires
    checked,      \* whether a kyc_checks row exists
    events,       \* decision_events, in the order of their ids
    pointer,      \* decisions.outcome
    offer,        \* the offers row and its decision_event_id
    disclosure,   \* the disclosures row of that offer
    loan,         \* whether loans has a row of this application
    balance,      \* whether balances has a row of that loan
    caller,       \* what each thread is doing
    abandon       \* POST /abandon

rows == <<app, token, complete, checked, offer, disclosure, loan, balance>>
record == <<events, pointer>>
vars == <<rows, record, caller, abandon>>

Outcomes == {"approve", "deny"}

Record == INSTANCE DecisionRecord
            WITH Requests <- {}, Keys <- {}, Terms <- {"stored"}, Borrowers <- {},
                 NoKey <- "none", NoPrint <- "none", NoOutcome <- "none", told <- <<>>

NoEdge == 0

NoOffer == [status |-> "absent", edge |-> NoEdge]

NoDisclosure == [status |-> "absent", event |-> NoEdge]

(* A thread between two statements is named by the one it will do next.    *)
Holding(pc, seen, boardable) == [pc |-> pc, seen |-> seen, boardable |-> boardable]

Idle == Holding("idle", NoEdge, FALSE)

Refused == Holding("refused", NoEdge, FALSE)

PCs == {"idle", "check", "gate decision", "decide", "gate offer", "pointer", "latest",
        "mint", "gate accept", "row", "loan", "board", "balance", "fund", "refused",
        "accepted"}

(* What a thread holds: the event it will cite, by number, and whether the *)
(* row it read may be boarded.                                             *)
Thread == [pc : PCs, seen : 0..Len(events), boardable : BOOLEAN]

(* "bare" is a delivered row without a document or a usable note rate.     *)
TypeOK ==
    /\ app \in {"absent", "submitted", "funded", "abandoned"}
    /\ token \in {"none", "live", "retired"}
    /\ complete \in BOOLEAN /\ checked \in BOOLEAN
    /\ events \in Seq(Record!Event)
    /\ pointer \in Outcomes \cup {"none"}
    /\ offer \in [status : {"absent", "made"}, edge : 0..Len(events)]
    /\ disclosure \in [status : {"absent", "pending", "bare", "delivered"},
                       event : 0..Len(events)]
    /\ loan \in BOOLEAN /\ balance \in BOOLEAN
    /\ caller \in [Callers -> Thread]
    /\ abandon \in {"idle", "delete"}

Exists == app \in {"submitted", "funded"}

(* Nothing yet; or an application of the back book, which may have been    *)
(* decided before events were kept and disclosed before its guards were.   *)
Init ==
    /\ complete \in BOOLEAN
    /\ loan = FALSE /\ balance = FALSE
    /\ caller = [c \in Callers |-> Idle]
    /\ abandon = "idle"
    /\ \/ /\ app = "absent" /\ token = "none" /\ checked = FALSE
          /\ events = <<>> /\ pointer = "none"
          /\ offer = NoOffer /\ disclosure = NoDisclosure
       \/ /\ app = "submitted" /\ token = "none" /\ checked \in BOOLEAN
          /\ events \in UNION {[1..n -> Record!Event] : n \in 0..MaxEvents}
          /\ pointer \in Outcomes \cup {"none"}
          /\ events # <<>> => pointer = events[Len(events)].outcome
          /\ offer \in {NoOffer} \cup [status : {"made"}, edge : 0..Len(events)]
          /\ disclosure \in {NoDisclosure} \cup
                [status : {"pending", "bare", "delivered"}, event : 1..Len(events)]
          /\ disclosure # NoDisclosure => offer # NoOffer

-----------------------------------------------------------------------------
Set(c, q) == caller' = [caller EXCEPT ![c] = q]

Goto(c, pc) == Set(c, [caller[c] EXCEPT !.pc = pc])

(* A guard that answers 4xx or lets the handler go on.                     *)
Pass(c, pc, ok) == IF ok THEN Goto(c, pc) ELSE Set(c, Refused)

At(c, pc) == caller[c].pc = pc

(* require_officer_or_owner: a token is verified against this application  *)
(* and its expiry, which a boarding nulls.                                 *)
Authorized(c) == c \in Officers \/ (Exists /\ token = "live")

(* require_kyc_passed judges the latest row, and every row of one stored   *)
(* identity says the same: run_cip tests which elements are present.       *)
KycPassed == Exists /\ checked /\ complete

-----------------------------------------------------------------------------
(* submit_application, recheck_kyc and kyc-service's POST /kyc/check       *)

(* create_application: applicant, application and token hash in one        *)
(* transaction.                                                            *)
Submit(c) ==
    /\ At(c, "idle") /\ app = "absent"
    /\ app' = "submitted" /\ token' = "live"
    /\ Goto(c, "check")
    /\ UNCHANGED <<complete, checked, offer, disclosure, loan, balance, record, abandon>>

Recheck(c) ==
    /\ At(c, "idle")
    /\ Pass(c, "check", Authorized(c) /\ Exists)
    /\ UNCHANGED <<rows, record, abandon>>

(* The row is written, or the call failed and the answer says so; it       *)
(* references the applicant, who leaves with the application.              *)
RunKyc(c) ==
    /\ At(c, "check")
    /\ \/ Exists /\ checked' = TRUE
       \/ UNCHANGED checked
    /\ Set(c, Idle)
    /\ UNCHANGED <<app, token, complete, offer, disclosure, loan, balance, record, abandon>>

(* The token's lifetime passes.                                            *)
Expire ==
    /\ token = "live"
    /\ token' = "retired"
    /\ UNCHANGED <<app, complete, checked, offer, disclosure, loan, balance, record,
                   caller, abandon>>

-----------------------------------------------------------------------------
(* run_decision *)

Start(c, pc) ==
    /\ At(c, "idle")
    /\ Pass(c, pc, Authorized(c))
    /\ UNCHANGED <<rows, record, abandon>>

Gate(c, from, to) ==
    /\ At(c, from)
    /\ Pass(c, to, KycPassed)
    /\ UNCHANGED <<rows, record, abandon>>

(* decision-service appends the event and moves the decisions row at once; *)
(* both reference the application.                                         *)
Decide(c) ==
    /\ At(c, "decide") /\ Exists
    /\ Len(events) < MaxEvents
    /\ \E e \in Record!Event : Record!Record(e)
    /\ Set(c, Idle)
    /\ UNCHANGED <<rows, abandon>>

(* 404 if the application is gone, 503 if decision-service refuses.        *)
DecideNothing(c) ==
    /\ At(c, "decide")
    /\ Pass(c, "refused", FALSE)
    /\ UNCHANGED <<rows, record, abandon>>

-----------------------------------------------------------------------------
(* make_offer, and disclosure-service's create_offer *)

ReadPointer(c) ==
    /\ At(c, "pointer")
    /\ Pass(c, "latest", Exists /\ pointer = "approve")
    /\ UNCHANGED <<rows, record, abandon>>

(* The event that is to authorize the offer is read after the pointer was, *)
(* and nothing compares its outcome.                                       *)
ReadLatestEvent(c) ==
    /\ At(c, "latest")
    /\ Set(c, Holding("mint", Len(events), FALSE))
    /\ UNCHANGED <<rows, record, abandon>>

(* uq_offers_app: an offer that exists, or that another thread inserted    *)
(* first, is replayed as it was persisted.                                 *)
Mint(c) ==
    /\ At(c, "mint")
    /\ offer' = IF offer = NoOffer THEN [status |-> "made", edge |-> caller[c].seen]
                ELSE offer
    /\ Set(c, Idle)
    /\ UNCHANGED <<app, token, complete, checked, disclosure, loan, balance, record, abandon>>

-----------------------------------------------------------------------------
(* disclosure-service, as far as a boarding sees it: the record of the     *)
(* offer is created against an approving event, closes the offer's edge if *)
(* it was open, and is delivered before a loan exists.                     *)

Approves(e) == e \in DOMAIN events /\ events[e].outcome = "approve"

Disclose(e) ==
    /\ offer # NoOffer /\ disclosure = NoDisclosure
    /\ Approves(e) /\ offer.edge \in {NoEdge, e}
    /\ disclosure' = [status |-> "pending", event |-> e]
    /\ offer' = [offer EXCEPT !.edge = e]
    /\ UNCHANGED <<app, token, complete, checked, loan, balance, record, caller, abandon>>

(* A replayed creation closes an edge that the back book left open.        *)
CloseEdge ==
    /\ disclosure # NoDisclosure /\ offer # NoOffer /\ offer.edge = NoEdge
    /\ offer' = [offer EXCEPT !.edge = disclosure.event]
    /\ UNCHANGED <<app, token, complete, checked, disclosure, loan, balance, record,
                   caller, abandon>>

Deliver ==
    /\ disclosure.status = "pending" /\ ~loan
    /\ offer.edge = disclosure.event /\ Approves(disclosure.event)
    /\ disclosure' = [disclosure EXCEPT !.status = "delivered"]
    /\ UNCHANGED <<app, token, complete, checked, offer, loan, balance, record,
                   caller, abandon>>

-----------------------------------------------------------------------------
(* accept_offer and board_to_servicing *)

(* A token that funding has retired still recovers the loan it funded      *)
(* (terminal_accept_replay), and does nothing else.                        *)
Replayable(c) == c \in Applicants /\ app = "funded" /\ token # "none" /\ loan

Accept(c) ==
    /\ At(c, "idle")
    /\ IF ~Authorized(c) /\ Replayable(c) THEN Goto(c, "accepted")
       ELSE Pass(c, "gate accept", Authorized(c))
    /\ UNCHANGED <<rows, record, abandon>>

(* Slip: the disclosure's own event is not looked at.                      *)
BoardableUndecided ==
    /\ disclosure.status = "delivered"
    /\ offer.edge \in {NoEdge, disclosure.event}

(* The timing hold, the document and note rate, the split edge, the denial.*)
Boardable ==
    /\ disclosure.status = "delivered"
    /\ offer.edge \in {NoEdge, disclosure.event}
    /\ Approves(disclosure.event)

(* One SELECT joins the application, its decision, offer and disclosure.   *)
ReadRow(c) ==
    /\ At(c, "row")
    /\ IF Exists /\ pointer = "approve" /\ offer # NoOffer
       THEN Set(c, Holding("loan", NoEdge, Boardable))
       ELSE Pass(c, "refused", FALSE)
    /\ UNCHANGED <<rows, record, abandon>>

(* Slip: a loan that is there is answered as it is.                        *)
LookForLoanOnly(c) ==
    /\ At(c, "loan")
    /\ IF loan THEN Goto(c, "accepted") ELSE Pass(c, "board", caller[c].boardable)
    /\ UNCHANGED <<rows, record, abandon>>

(* A replay goes on to reconcile; the rest is judged by what was read.     *)
LookForLoan(c) ==
    /\ At(c, "loan")
    /\ IF loan THEN Goto(c, "balance") ELSE Pass(c, "board", caller[c].boardable)
    /\ UNCHANGED <<rows, record, abandon>>

(* uq_loans_app turns the loser of the INSERT into a replay.               *)
BoardLoan(c) ==
    /\ At(c, "board")
    /\ loan' = TRUE
    /\ Goto(c, "balance")
    /\ UNCHANGED <<app, token, complete, checked, offer, disclosure, balance, record, abandon>>

(* ON CONFLICT DO NOTHING, once as part of the boarding and once as part   *)
(* of the reconciliation that every path ends with.                        *)
SeedBalance(c) ==
    /\ At(c, "balance")
    /\ balance' = TRUE
    /\ Goto(c, "fund")
    /\ UNCHANGED <<app, token, complete, checked, offer, disclosure, loan, record, abandon>>

(* The status and the token's expiry in one UPDATE, by id.                 *)
Fund(c) ==
    /\ At(c, "fund")
    /\ app' = IF Exists THEN "funded" ELSE app
    /\ token' = IF token = "live" THEN "retired" ELSE token
    /\ Goto(c, "accepted")
    /\ UNCHANGED <<complete, checked, offer, disclosure, loan, balance, record, abandon>>

-----------------------------------------------------------------------------
(* abandon_application, called by the gateway when it cannot store the     *)
(* resume session                                                          *)

Inert == pointer = "none" /\ offer = NoOffer /\ ~loan

ProbeInert ==
    /\ abandon = "idle" /\ Exists /\ Inert
    /\ abandon' = "delete"
    /\ UNCHANGED <<rows, record, caller>>

(* decisions, decision_events and offers restrict the DELETE; loans does   *)
(* not.  The checks and the applicant go with the application, or nothing. *)
Delete ==
    /\ abandon = "delete"
    /\ abandon' = "idle"
    /\ IF events = <<>> /\ pointer = "none" /\ offer = NoOffer
       THEN app' = "abandoned" /\ token' = "none" /\ checked' = FALSE
       ELSE UNCHANGED <<app, token, checked>>
    /\ UNCHANGED <<complete, offer, disclosure, loan, balance, record, caller>>

-----------------------------------------------------------------------------
(* The answer reaches its caller or is lost with it.                       *)
Leave(c) ==
    /\ caller[c].pc \in {"refused", "accepted"}
    /\ Set(c, Idle)
    /\ UNCHANGED <<rows, record, abandon>>

(* The handler dies between two statements.                                *)
Crash(c) ==
    /\ caller[c].pc \notin {"idle", "refused", "accepted"}
    /\ Set(c, Idle)
    /\ UNCHANGED <<rows, record, abandon>>

CallerStep(c) ==
    \/ Submit(c) \/ Recheck(c) \/ RunKyc(c)
    \/ Start(c, "gate decision") \/ Gate(c, "gate decision", "decide")
    \/ Decide(c) \/ DecideNothing(c)
    \/ Start(c, "gate offer") \/ Gate(c, "gate offer", "pointer")
    \/ ReadPointer(c) \/ ReadLatestEvent(c) \/ Mint(c)
    \/ Accept(c) \/ Gate(c, "gate accept", "row") \/ ReadRow(c) \/ LookForLoan(c)
    \/ BoardLoan(c) \/ SeedBalance(c) \/ Fund(c)
    \/ Leave(c) \/ Crash(c)

Next ==
    \/ \E c \in Callers : CallerStep(c)
    \/ \E e \in DOMAIN events : Disclose(e)
    \/ CloseEdge \/ Deliver \/ Expire
    \/ ProbeInert \/ Delete

Spec == Init /\ [][Next]_vars

-----------------------------------------------------------------------------
(* A loan stands on an identity that passed KYC, an offer, and its         *)
(* delivered disclosure naming the offer's own, approving decision; all of *)
(* it was read several statements before the INSERT and must still be so   *)
(* (accept_offer's guards and the monotonicity they rest on).              *)
Authority ==
    /\ KycPassed /\ offer # NoOffer
    /\ disclosure.status = "delivered" /\ offer.edge \in {NoEdge, disclosure.event}
    /\ Approves(disclosure.event)

LoanIsAuthorized == loan => Authority

(* Whoever is told of the loan finds it whole: its balance is there, the   *)
(* application is funded and its token retired, whichever of the concurrent*)
(* or repeated acceptances he was (accept_offer's reconciliation).         *)
Whole == loan /\ balance /\ app = "funded" /\ token # "live"

AcceptedIsWhole == \A c \in Callers : At(c, "accepted") => Whole

(* The compensating DELETE leaves nothing behind and takes nothing that    *)
(* has been decided, whatever raced its probe: the loans row, which has no *)
(* foreign key to hold it, is covered by the decision it stands on         *)
(* (abandon_application's comment).                                        *)
NothingOutlivesApplication ==
    ~Exists => events = <<>> /\ pointer = "none" /\ offer = NoOffer /\ ~loan /\ ~checked

(* The decision an offer was made on is never replaced by another          *)
(* (create_offer's replay, _close_provenance_edge).                        *)
OfferKeepsItsDecision ==
    [][offer.edge # NoEdge => offer' = offer]_vars

(* "Reconcile servicing + LOS state on EVERY path, including replays": an  *)
(* acceptance that arrives after the loan was boarded is not refused       *)
(* (accept_offer's comments).                                              *)
BoardedReplayIsServed ==
    [][\A c \in Callers : At(c, "row") /\ loan => caller'[c].pc # "refused"]_vars

=============================================================================
