---------------------------- MODULE Coordinator -----------------------------
(***************************************************************************)
(* The disclosure pipeline of one approved application: the stages of      *)
(* POST /applications/{id}/disclosure in origination, from the decision it *)
(* reads to the chain it reads back, with two model calls in between,      *)
(* while others re-decide the application, make its offer, generate the    *)
(* same disclosure and deliver it.                                         *)
(*                                                                         *)
(* disclosure-service is taken one request at a time: POST /offers and     *)
(* POST /disclosures are each one transaction, whose statements            *)
(* Origination and Disclosures model.  An answer of it may be lost after   *)
(* the work is done.  Figures are left out: a document spells them or not. *)
(***************************************************************************)
EXTENDS Integers, Sequences

CONSTANTS
    Officers,
    MaxDecisions,   \* bounds the re-decisions
    MaxAttempts     \* MAX_ASSEMBLE_ATTEMPTS

ASSUME CoordinatorAssumption == MaxDecisions \in Nat /\ MaxAttempts \in Nat \ {0}

VARIABLES
    decided,    \* decision_events of the application: whether each approves
    minted,     \* the offers row: its decision_event_id, 0 for NULL, -1 for no row
    recorded,   \* the disclosures row
    run         \* what each officer's request is doing, and its answer

coordinatorVars == <<decided, minted, recorded, run>>

Absence == -1

Edges == {Absence} \cup 0 .. MaxDecisions

Record == [cites : Edges, document : BOOLEAN, delivered : BOOLEAN]

NoRecord == [cites |-> Absence, document |-> FALSE, delivered |-> FALSE]

(* A request holds the decision it cites, its attempts, and whether the    *)
(* document it has spells the figures.                                     *)
Run == [stage : {"answered", "compute", "assemble", "verify", "narrate", "persist", "chain"},
        event : Edges, attempts : 0 .. MaxAttempts, spells : BOOLEAN,
        answer : {"none", "ok", "blocked", "blocked_with_id", "refused", "llm_unavailable",
                  "outage"}]

Unasked == [stage |-> "answered", event |-> Absence, attempts |-> 0, spells |-> FALSE,
            answer |-> "none"]

CoordinatorTypeOK ==
    /\ decided \in Seq(BOOLEAN) /\ Len(decided) <= MaxDecisions
    /\ minted \in Edges
    /\ recorded \in Record
    /\ run \in [Officers -> Run]

(* The back book has offers and records of any or no decision.             *)
CoordinatorInit ==
    /\ decided \in UNION {[1 .. n -> BOOLEAN] : n \in 0 .. MaxDecisions}
    /\ minted \in {Absence} \cup 0 .. Len(decided)
    /\ recorded \in {NoRecord} \cup {w \in Record : w.cites \in DOMAIN decided}
    /\ recorded # NoRecord => minted # Absence
    /\ run = [o \in Officers |-> Unasked]

-----------------------------------------------------------------------------
Approves(e) == e \in DOMAIN decided /\ decided[e]

Reaches(o, stage) == run' = [run EXCEPT ![o].stage = stage]

(* An answer keeps nothing of the run.                                     *)
Answers(o, answer) == run' = [run EXCEPT ![o] = [Unasked EXCEPT !.answer = answer]]

(* Stages 0 and 1: the newest event decides.  No application, no passed    *)
(* KYC: refused before there is a run.                                     *)
Route(o) ==
    /\ run[o].stage = "answered"
    /\ LET newest == Len(decided)
       IN  IF Approves(newest)
           THEN run' = [run EXCEPT ![o] = [Unasked EXCEPT !.stage = "compute",
                                                          !.event = newest]]
           ELSE Answers(o, "blocked")
    /\ UNCHANGED <<decided, minted, recorded>>

(* create_offer: the first offer of the application stays its offer.       *)
Mint(e) == minted' = IF minted = Absence THEN e ELSE minted

(* Slip: the decision of stage 0 is cited whatever offer was replayed.     *)
CitesTheNewest(o) == run[o].event

(* The offer's own decision, where it has one.                             *)
Cites(o) == IF minted' > 0 THEN minted' ELSE run[o].event

(* Stage 2 *)
Compute(o) ==
    /\ run[o].stage = "compute"
    /\ Mint(run[o].event)
    /\ run' = [run EXCEPT ![o].stage = "assemble", ![o].event = Cites(o)]
    /\ UNCHANGED <<decided, recorded>>

ComputeLost(o) ==
    /\ run[o].stage = "compute"
    /\ Mint(run[o].event) \/ UNCHANGED minted
    /\ Answers(o, "outage")
    /\ UNCHANGED <<decided, recorded>>

(* Stage 3: the maker copies the figures, or does not.                     *)
Assemble(o, spells) ==
    /\ run[o].stage = "assemble"
    /\ run' = [run EXCEPT ![o].stage = "verify", ![o].attempts = @ + 1,
                          ![o].spells = spells]
    /\ UNCHANGED <<decided, minted, recorded>>

(* An LLMError of either call.                                             *)
ModelFails(o) ==
    /\ run[o].stage \in {"assemble", "narrate"}
    /\ Answers(o, "llm_unavailable")
    /\ UNCHANGED <<decided, minted, recorded>>

(* Stage 4a: the one cycle.                                                *)
Verify(o) ==
    /\ run[o].stage = "verify"
    /\ IF run[o].spells THEN Reaches(o, "narrate")
       ELSE IF run[o].attempts < MaxAttempts THEN Reaches(o, "assemble")
       ELSE Answers(o, "blocked")
    /\ UNCHANGED <<decided, minted, recorded>>

(* Stage 4b: a brief that is rejected or ungrounded is a canned one.       *)
Narrate(o) ==
    /\ run[o].stage = "narrate"
    /\ Reaches(o, "persist")
    /\ UNCHANGED <<decided, minted, recorded>>

(* create_disclosure: a record that exists is replayed and repaired,       *)
(* whatever decision the request cites, and the offer's open edge closed.  *)
Accepts(o) ==
    \/ recorded # NoRecord
    \/ Approves(run[o].event) /\ minted \in {0, run[o].event} /\ run[o].spells

Stores(o) ==
    /\ recorded' = IF recorded = NoRecord
                   THEN [cites |-> run[o].event, document |-> TRUE, delivered |-> FALSE]
                   ELSE [recorded EXCEPT !.document = @ \/ ~recorded.delivered]
    /\ minted' = IF minted = 0 THEN recorded'.cites ELSE minted

(* Stage 5 *)
Persist(o) ==
    /\ run[o].stage = "persist"
    /\ IF Accepts(o)
       THEN Stores(o) /\ Reaches(o, "chain")
       ELSE Answers(o, "refused") /\ UNCHANGED <<minted, recorded>>
    /\ UNCHANGED decided

PersistLost(o) ==
    /\ run[o].stage = "persist"
    /\ (Accepts(o) /\ Stores(o)) \/ UNCHANGED <<minted, recorded>>
    /\ Answers(o, "outage")
    /\ UNCHANGED decided

(* v_disclosure_provenance: no edge is missing, split or unapproved.       *)
ChainIsWhole == minted = recorded.cites /\ Approves(recorded.cites)

(* Slip: the record was written, so the chain is taken to be whole.        *)
TrustsTheWrite(o) ==
    /\ run[o].stage = "chain"
    /\ Answers(o, "ok")
    /\ UNCHANGED <<decided, minted, recorded>>

ReadsChain(o) ==
    /\ run[o].stage = "chain"
    /\ Answers(o, IF ChainIsWhole THEN "ok" ELSE "blocked_with_id")
    /\ UNCHANGED <<decided, minted, recorded>>

(* The draft stays, under an answer that does not name it.                 *)
ChainLost(o) ==
    /\ run[o].stage = "chain"
    /\ Answers(o, "outage")
    /\ UNCHANGED <<decided, minted, recorded>>

-----------------------------------------------------------------------------
(* What others do meanwhile *)

Decides(approves) ==
    /\ Len(decided) < MaxDecisions
    /\ decided' = Append(decided, approves)
    /\ UNCHANGED <<minted, recorded, run>>

(* make_offer judges the pointer, then reads the newest event: a           *)
(* re-decision in between leaves an offer of a decision that denies.       *)
OffersElsewhere ==
    /\ minted = Absence
    /\ Mint(Len(decided))
    /\ UNCHANGED <<decided, recorded, run>>

(* The review lifecycle's last step.                                       *)
Delivers ==
    /\ recorded.document /\ ~recorded.delivered /\ ChainIsWhole
    /\ recorded' = [recorded EXCEPT !.delivered = TRUE]
    /\ UNCHANGED <<decided, minted, run>>

CoordinatorStep(o) ==
    \/ Route(o) \/ Compute(o) \/ ComputeLost(o)
    \/ \E spells \in BOOLEAN : Assemble(o, spells)
    \/ Verify(o) \/ Narrate(o) \/ ModelFails(o)
    \/ Persist(o) \/ PersistLost(o) \/ ReadsChain(o) \/ ChainLost(o)

CoordinatorNext ==
    \/ \E o \in Officers : CoordinatorStep(o)
    \/ \E approves \in BOOLEAN : Decides(approves)
    \/ OffersElsewhere \/ Delivers

CoordinatorSpec == CoordinatorInit /\ [][CoordinatorNext]_coordinatorVars

-----------------------------------------------------------------------------
(* disclosure-service refuses a run for its decision only where the offer  *)
(* itself was made on a denial: a re-decision between stage 0 and stage 5, *)
(* an offer made long before, or the disclosure another officer generates  *)
(* meanwhile never costs a run its document (_compute's authorizing event).*)
RefusedOnlyIfDenied ==
    \A o \in Officers :
        run[o].answer = "refused" => minted > 0 /\ ~Approves(minted)

(* An officer told "ok" has a record that cites the offer's own approving  *)
(* decision, with a readable document unless it was delivered without one  *)
(* before; one told of a draft that is blocked can find it, and it is not  *)
(* fit to deliver (_persist's read-back).  An outage answer says nothing   *)
(* of the record: a draft may lie beside it (PersistLost, ChainLost).      *)
AnswerTellsTheRecord ==
    \A o \in Officers :
        /\ run[o].answer = "ok" =>
               /\ recorded # NoRecord /\ ChainIsWhole
               /\ recorded.document \/ recorded.delivered
        /\ run[o].answer = "blocked_with_id" => recorded # NoRecord /\ ~ChainIsWhole

=============================================================================
