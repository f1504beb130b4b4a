------------------------------ MODULE Payments ------------------------------
(***************************************************************************)
(* The capture path: POST /payments of payment-service and of              *)
(* servicing-service, two front doors onto one payments table, and the     *)
(* POST /accounts/{loan_id}/apply-payment route both of them end in.       *)
(*                                                                         *)
(* A handler is a sequence of autocommitted SQL statements.  Each          *)
(* statement is one action, and between two statements of a request        *)
(* anything may happen: statements of other requests, the passage of the   *)
(* key's TTL, a lost or late HTTP call, the death of the handler.          *)
(***************************************************************************)
EXTENDS Integers, FiniteSetsExt

CONSTANTS
    PaymentIds,  \* values of payments.id (SERIAL)
    Keys,        \* canonical Idempotency-Key UUIDs
    Loans,
    Amounts,     \* amount_minor; PaymentIn.amount is an unchecked float
    Requests,    \* HTTP requests, each handled at most once
    Principal,   \* the balance a loan is boarded with
    NoKey, NoTerms, NoPayment

ASSUME ConstantsAssumption ==
    /\ Amounts \subseteq Int
    /\ Principal \in Int
    /\ NoKey \notin Keys
    /\ NoPayment \notin PaymentIds

VARIABLES
    status,        \* payments.status, "absent" before the row is inserted
    key,           \* payments.idempotency_key, NoKey once retired
    terms,         \* payments.loan_id and amount_minor, hashed into request_fingerprint
    expired,       \* rows whose idempotency_expires_at has passed
    claimedUnder,  \* history: the key a row was inserted under
    applications,  \* payment_applications
    balance,       \* balances.balance
    boarded,       \* loans that have a balances row
    req,           \* the requests' control state
    call           \* the apply call each request makes

table == <<status, key, terms, expired, claimedUnder>>
ledger == <<applications, balance, boarded>>
vars == <<table, ledger, req, call>>

(* The instrument and method are part of the fingerprint too; two requests *)
(* that differ in them differ in Terms.                                    *)
Terms == [loan : Loans, amount : Amounts]

Statuses == {"processing", "captured", "captured_unapplied",
             "failed", "settled", "returned"}

TerminalStatuses == Statuses \ {"processing"}

(* Slips.  An operator whose comment begins so is no part of the model: it *)
(* is a plausible bug in the definition that follows it, kept to show that *)
(* a property notices.  Here: the apply credits a capture that nobody has  *)
(* confirmed yet.                                                          *)
CreditingBeforeCapture == {"processing", "captured", "settled"}

CreditingStatuses == {"captured", "settled"}

Doors == {"payment", "servicing"}

PCs == {"idle", "claim", "read", "reclaim", "reread", "retire", "claim_retired",
        "read_current", "finalize", "apply", "waiting", "unapplied", "done", "dead"}

Kinds == {"none", "claimed", "replay", "mismatch", "in_flight"}

Request == [pc : PCs, door : Doors,
            key : Keys \cup {NoKey}, terms : Terms \cup {NoTerms},
            payment : PaymentIds \cup {NoPayment},   \* the row it claimed
            seen : PaymentIds \cup {NoPayment},      \* `existing' and its status
            seenStatus : Statuses \cup {"absent"},
            kind : Kinds, reported : Statuses \cup {"absent"}]

CallStates == {"none", "sent", "prior", "ok", "refused", "lost"}

Application == [payment : PaymentIds, loan : Loans, amount : Amounts]

TypeOK ==
    /\ status \in [PaymentIds -> Statuses \cup {"absent"}]
    /\ key \in [PaymentIds -> Keys \cup {NoKey}]
    /\ terms \in [PaymentIds -> Terms \cup {NoTerms}]
    /\ expired \in SUBSET PaymentIds
    /\ claimedUnder \in [PaymentIds -> Keys \cup {NoKey}]
    /\ applications \in SUBSET Application
    /\ balance \in [Loans -> Int]
    /\ boarded \in SUBSET Loans
    /\ req \in [Requests -> Request]
    /\ call \in [Requests -> CallStates]

Idle == [pc |-> "idle", door |-> "payment", key |-> NoKey, terms |-> NoTerms,
         payment |-> NoPayment, seen |-> NoPayment, seenStatus |-> "absent",
         kind |-> "none", reported |-> "absent"]

Init ==
    /\ status = [p \in PaymentIds |-> "absent"]
    /\ key = [p \in PaymentIds |-> NoKey]
    /\ terms = [p \in PaymentIds |-> NoTerms]
    /\ expired = {}
    /\ claimedUnder = [p \in PaymentIds |-> NoKey]
    /\ applications = {}
    /\ balance = [l \in Loans |-> Principal]
    /\ boarded = {}
    /\ req = [r \in Requests |-> Idle]
    /\ call = [r \in Requests |-> "none"]

-----------------------------------------------------------------------------
(* The statements, as relations on the tables.                             *)

Applied(p) == \E a \in applications : a.payment = p

HasHolder(k) == \E p \in PaymentIds : key[p] = k

(* _CLAIM_SQL: insert a `processing' row under the request's key, unless   *)
(* the partial unique index already holds that key.                        *)
Insert(r, p) ==
    /\ status[p] = "absent"
    /\ status' = [status EXCEPT ![p] = "processing"]
    /\ key' = [key EXCEPT ![p] = req[r].key]
    /\ terms' = [terms EXCEPT ![p] = req[r].terms]
    /\ claimedUnder' = [claimedUnder EXCEPT ![p] = req[r].key]
    /\ expired' = expired

(* Slip: every terminal status is retired.                                 *)
RetirableWhenTerminal(p) ==
    /\ p \in expired
    /\ status[p] \in TerminalStatuses
    /\ status[p] = "captured" => Applied(p)

(* _RETIRE_SQL's WHERE clause.                                             *)
Retirable(p) ==
    /\ p \in expired
    /\ status[p] \in {"captured", "failed", "settled", "returned"}
    /\ status[p] = "captured" => Applied(p)

(* _FINALIZE_SQL *)
SetStatus(p, s) ==
    /\ status' = [status EXCEPT ![p] = s]
    /\ UNCHANGED <<key, terms, expired, claimedUnder>>

(* The `eligible' CTE of _APPLY_SQL, and its ON CONFLICT DO NOTHING.       *)
Eligible(p, l) ==
    /\ status[p] \in CreditingStatuses
    /\ terms[p].loan = l
    /\ l \in boarded

(* Slip: the conflict on payment_id does not stop the balance's UPDATE.    *)
CreditsEveryTime(p, l) == Eligible(p, l)

Credits(p, l) == Eligible(p, l) /\ ~Applied(p)

(* _APPLY_SQL: the application row and the balance move together.          *)
ApplyStatement(p, l) ==
    IF Credits(p, l)
    THEN /\ applications' = applications \cup
                {[payment |-> p, loan |-> l, amount |-> terms[p].amount]}
         /\ balance' = [balance EXCEPT ![l] = @ - terms[p].amount]
         /\ boarded' = boarded
    ELSE UNCHANGED ledger

-----------------------------------------------------------------------------
(* claim_or_branch *)

Set(r, q) == req' = [req EXCEPT ![r] = q]

Goto(r, pc) == Set(r, [req[r] EXCEPT !.pc = pc])

(* The route has checked authorization, configuration, readiness and the   *)
(* key's form, none of which writes anything.                              *)
Start(r, d, k, t) ==
    /\ req[r].pc = "idle"
    /\ Set(r, [Idle EXCEPT !.pc = "claim", !.door = d, !.key = k, !.terms = t])
    /\ UNCHANGED <<table, ledger, call>>

ClaimPCs == {"claim", "reclaim", "claim_retired"}

AfterLostClaim == [claim |-> "read", reclaim |-> "reread",
                   claim_retired |-> "read_current"]

ClaimWins(r, p) ==
    /\ req[r].pc \in ClaimPCs
    /\ ~HasHolder(req[r].key)
    /\ Insert(r, p)
    /\ Set(r, [req[r] EXCEPT !.pc = "finalize", !.payment = p])
    /\ UNCHANGED <<ledger, call>>

ClaimLoses(r) ==
    /\ req[r].pc \in ClaimPCs
    /\ HasHolder(req[r].key)
    /\ Goto(r, AfterLostClaim[req[r].pc])
    /\ UNCHANGED <<table, ledger, call>>

(* Steps 2b of claim_or_branch against row p as it was read with status s. *)
Verdict(r, p, s) ==
    IF terms[p] # req[r].terms THEN "mismatch"
    ELSE IF s \notin TerminalStatuses THEN "in_flight"
    ELSE "replay"

AnswerFrom(r, p, s) ==
    LET kind == Verdict(r, p, s) IN
    Set(r, [req[r] EXCEPT !.pc = "done", !.seen = p, !.seenStatus = s, !.kind = kind,
                          !.reported = IF kind = "replay" THEN s ELSE "absent"])

(* _read_by_key found a row: retire it (2a) or answer from it (2b).        *)
ReadFinds(r, p) ==
    /\ req[r].pc \in {"read", "reread"}
    /\ key[p] = req[r].key
    /\ IF p \in expired /\ status[p] \in TerminalStatuses
       THEN Set(r, [req[r] EXCEPT !.pc = "retire", !.seen = p, !.seenStatus = status[p]])
       ELSE AnswerFrom(r, p, status[p])
    /\ UNCHANGED <<table, ledger, call>>

(* Slip: the winner's row is read until it is there.                       *)
ReadMissesPolls(r) ==
    /\ req[r].pc \in {"read", "reread"}
    /\ ~HasHolder(req[r].key)
    /\ Goto(r, IF req[r].pc = "read" THEN "reread" ELSE "read")
    /\ UNCHANGED <<table, ledger, call>>

(* No row holds the key: one bounded re-claim, then the retryable 409.     *)
ReadMisses(r) ==
    /\ ~HasHolder(req[r].key)
    /\ \/ /\ req[r].pc = "read"
          /\ Goto(r, "reclaim")
       \/ /\ req[r].pc = "reread"
          /\ Set(r, [req[r] EXCEPT !.pc = "done", !.kind = "in_flight"])
    /\ UNCHANGED <<table, ledger, call>>

Retire(r, p) ==
    /\ req[r].pc = "retire"
    /\ key[p] = req[r].key
    /\ Retirable(p)
    /\ key' = [key EXCEPT ![p] = NoKey]
    /\ Goto(r, "claim_retired")
    /\ UNCHANGED <<status, terms, expired, claimedUnder, ledger, call>>

RetireMovesNothing(r) ==
    /\ req[r].pc = "retire"
    /\ ~\E p \in PaymentIds : key[p] = req[r].key /\ Retirable(p)
    /\ Goto(r, "read_current")
    /\ UNCHANGED <<table, ledger, call>>

(* Slip: the fingerprint is compared once, with the row that was read      *)
(* before the retirement.                                                  *)
ReadCurrentJudgedBefore(r) ==
    /\ req[r].pc = "read_current"
    /\ \E p \in PaymentIds :
           /\ IF HasHolder(req[r].key) THEN key[p] = req[r].key ELSE p = req[r].seen
           /\ LET kind == Verdict(r, req[r].seen, status[p]) IN
              Set(r, [req[r] EXCEPT !.pc = "done", !.seen = p, !.kind = kind,
                          !.reported = IF kind = "replay" THEN status[p] ELSE "absent"])
    /\ UNCHANGED <<table, ledger, call>>

(* existing = _read_by_key(key) or existing *)
ReadCurrent(r) ==
    /\ req[r].pc = "read_current"
    /\ IF HasHolder(req[r].key)
       THEN \E p \in PaymentIds :
                key[p] = req[r].key /\ AnswerFrom(r, p, status[p])
       ELSE AnswerFrom(r, req[r].seen, req[r].seenStatus)
    /\ UNCHANGED <<table, ledger, call>>

-----------------------------------------------------------------------------
(* charge, from the won claim to the answer                                *)

FinalizeCaptured(r) ==
    /\ req[r].pc = "finalize"
    /\ SetStatus(req[r].payment, "captured")
    /\ Goto(r, "apply")
    /\ UNCHANGED <<ledger, call>>

(* payment-service posts to servicing; servicing calls apply_payment.      *)
CallApply(r) ==
    /\ req[r].pc = "apply"
    /\ Goto(r, "waiting")
    /\ call' = [call EXCEPT ![r] = "sent"]
    /\ UNCHANGED <<table, ledger>>

(* balance.apply_payment, first statement.                                 *)
ServeApply(r) ==
    /\ call[r] = "sent"
    /\ ApplyStatement(req[r].payment, req[r].terms.loan)
    /\ call' = [call EXCEPT ![r] =
                   IF Credits(req[r].payment, req[r].terms.loan) THEN "ok" ELSE "prior"]
    /\ UNCHANGED <<table, req>>

(* balance.apply_payment, zero rows: already applied, or never eligible.   *)
ServePrior(r) ==
    /\ call[r] = "prior"
    /\ LET mine == {a \in applications : a.payment = req[r].payment} IN
       call' = [call EXCEPT ![r] =
                   IF mine # {} /\ \A a \in mine : a.loan = req[r].terms.loan
                   THEN "ok" ELSE "refused"]
    /\ UNCHANGED <<table, ledger, req>>

Confirmed(r) ==
    /\ req[r].pc = "waiting"
    /\ call[r] = "ok"
    /\ Set(r, [req[r] EXCEPT !.pc = "done", !.kind = "claimed", !.reported = "captured"])
    /\ UNCHANGED <<table, ledger, call>>

Refused(r) ==
    /\ req[r].pc = "waiting"
    /\ call[r] = "refused"
    /\ Goto(r, "unapplied")
    /\ UNCHANGED <<table, ledger, call>>

(* Slips: an unreachable servicing counts as applied, "reconciled later";  *)
(* the call has no timeout.                                                *)
GiveUpAsApplied(r) ==
    /\ req[r].pc = "waiting"
    /\ req[r].door = "payment"
    /\ Set(r, [req[r] EXCEPT !.pc = "done", !.kind = "claimed", !.reported = "captured"])
    /\ UNCHANGED <<table, ledger, call>>

GiveUpWithoutTimeout(r) ==
    /\ req[r].pc = "waiting"
    /\ req[r].door = "payment"
    /\ call[r] = "sent"
    /\ Goto(r, "unapplied")
    /\ UNCHANGED <<table, ledger, call>>

(* The 5 s timeout, or a connection error: payment-service only.  The call *)
(* itself may still be on its way to servicing, or already served.         *)
GiveUp(r) ==
    /\ req[r].pc = "waiting"
    /\ req[r].door = "payment"
    /\ Goto(r, "unapplied")
    /\ UNCHANGED <<table, ledger, call>>

FinalizeUnapplied(r) ==
    /\ req[r].pc = "unapplied"
    /\ SetStatus(req[r].payment, "captured_unapplied")
    /\ Set(r, [req[r] EXCEPT !.pc = "done", !.kind = "claimed",
                             !.reported = "captured_unapplied"])
    /\ UNCHANGED <<ledger, call>>

(* The answer's HTTP status.  Only payment-service's route turns a failed  *)
(* apply, or the replay of one, into an error; servicing's returns charge's *)
(* result as it is.                                                        *)
Code(r) ==
    CASE req[r].kind = "mismatch" -> 422
      [] req[r].kind = "in_flight" -> 409
      [] req[r].door = "payment" /\ req[r].reported = "captured_unapplied" -> 424
      [] OTHER -> 200

(* Whether applied_amount, or servicing's amount, is the charge's or 0.0.  *)
TellsAnAmount(r) == req[r].reported = "captured"

-----------------------------------------------------------------------------
(* The environment *)

(* The request's process dies, or a statement raises: the handler stops    *)
(* here.  A call made in-process dies with it; an HTTP call does not.      *)
Die(r) ==
    /\ req[r].pc \notin {"idle", "done", "dead"}
    /\ Goto(r, "dead")
    /\ call' = [call EXCEPT ![r] =
                   IF req[r].door = "servicing" /\ @ # "none" THEN "lost" ELSE @]
    /\ UNCHANGED <<table, ledger>>

(* The HTTP request or its response is lost, or servicing dies serving it. *)
LoseCall(r) ==
    /\ req[r].door = "payment"
    /\ call[r] \in {"sent", "prior", "ok", "refused"}
    /\ call' = [call EXCEPT ![r] = "lost"]
    /\ UNCHANGED <<table, ledger, req>>

(* An internal caller drives apply-payment itself, with any loan id.       *)
Redrive(p, l) ==
    /\ status[p] # "absent"
    /\ ApplyStatement(p, l)
    /\ UNCHANGED <<table, req, call>>

(* The clock reaches a row's idempotency_expires_at.                       *)
Expire(p) ==
    /\ status[p] # "absent"
    /\ p \notin expired
    /\ expired' = expired \cup {p}
    /\ UNCHANGED <<status, key, terms, claimedUnder, ledger, req, call>>

(* accept_offer inserts the balances row after the loans row.              *)
BoardBalance(l) ==
    /\ l \notin boarded
    /\ boarded' = boarded \cup {l}
    /\ UNCHANGED <<table, applications, balance, req, call>>

-----------------------------------------------------------------------------
Claiming(r) ==
    \/ \E p \in PaymentIds : ClaimWins(r, p) \/ ReadFinds(r, p) \/ Retire(r, p)
    \/ ClaimLoses(r)
    \/ ReadMisses(r)
    \/ RetireMovesNothing(r)
    \/ ReadCurrent(r)

Capturing(r) ==
    \/ FinalizeCaptured(r)
    \/ CallApply(r)
    \/ Confirmed(r)
    \/ Refused(r)
    \/ GiveUp(r)
    \/ FinalizeUnapplied(r)

Serving(r) == ServeApply(r) \/ ServePrior(r)

Environment ==
    \/ \E r \in Requests : Die(r) \/ LoseCall(r)
    \/ \E p \in PaymentIds : Expire(p) \/ \E l \in Loans : Redrive(p, l)
    \/ \E l \in Loans : BoardBalance(l)

Next ==
    \/ \E r \in Requests :
        \/ \E d \in Doors, k \in Keys, t \in Terms : Start(r, d, k, t)
        \/ Claiming(r)
        \/ Capturing(r)
        \/ Serving(r)
    \/ Environment

Spec == Init /\ [][Next]_vars

(* A handler that is running keeps running, httpx gives up after 5 s, and  *)
(* servicing keeps serving the calls that reached it.  Nothing is assumed  *)
(* of clients, crashes, the network, operators or the clock.               *)
Fairness == \A r \in Requests : WF_vars(Claiming(r)) /\ WF_vars(Capturing(r))
                                /\ WF_vars(Serving(r))

FairSpec == Spec /\ Fairness

-----------------------------------------------------------------------------
(* Properties *)

(* The partial unique index: two live rows never share an Idempotency-Key, *)
(* whichever front door inserted them (_CLAIM_SQL, _RETIRE_SQL).           *)
OneRowPerKey ==
    \A p, q \in PaymentIds : key[p] = key[q] /\ key[p] # NoKey => p = q

(* A key is released only by a charge that reached the balance: a retired  *)
(* row always has its application (_RETIRE_SQL's EXISTS arm).              *)
RetiredOnlyIfApplied ==
    \A p \in PaymentIds :
        status[p] # "absent" /\ key[p] = NoKey => Applied(p)

(* No second charge under a key while an earlier one is unresolved: of two *)
(* rows ever claimed under one key, at least one has been credited, in     *)
(* spite of crashes, timeouts, expiry and stale reads (claim_or_branch).   *)
NoSecondChargeWhileUnapplied ==
    \A p, q \in PaymentIds :
        p # q /\ claimedUnder[p] = claimedUnder[q] /\ claimedUnder[p] # NoKey
            => Applied(p) \/ Applied(q)

(* A payment credits once, to the loan and in the amount its own row names *)
(* and only after its capture was recorded, whatever the caller of         *)
(* apply-payment sent and however often it is called (_APPLY_SQL).         *)
AppliedOnceAsCaptured ==
    \A a \in applications :
        /\ terms[a.payment] = [loan |-> a.loan, amount |-> a.amount]
        /\ a.loan \in boarded
        /\ status[a.payment] \in {"captured", "captured_unapplied"}
        /\ \A b \in applications : a.payment = b.payment => a = b

(* A claiming request that is told of success has moved the balance of its *)
(* loan.  Success is an amount in the answer and, at payment-service, a 200 *)
(* (a failed apply is its 424); servicing's own door answers a failed      *)
(* apply 200 as well, and there only the amount of 0.0 tells               *)
(* (charge and post_payment of the two services).                          *)
CreditedTo(r) == \E a \in applications :
    a.payment = req[r].payment /\ a.loan = req[r].terms.loan

ConfirmedIsApplied ==
    \A r \in Requests :
        /\ req[r].kind = "claimed"
        /\ TellsAnAmount(r) \/ (req[r].door = "payment" /\ Code(r) = 200)
        => CreditedTo(r)

(* A replay answers for a payment of the very terms the client sent: never *)
(* another client's charge, also when `existing' is a stale row            *)
(* (claim_or_branch's step 2b).                                            *)
ReplayIsOfSameTerms ==
    \A r \in Requests :
        req[r].kind = "replay" => terms[req[r].seen] = req[r].terms

(* captured_unapplied is final.  A row so marked is never credited         *)
(* afterwards, by a late apply call or a re-drive, and never leaves that   *)
(* status: what a 424 said about an uncredited payment stays true.         *)
UnappliedIsFinal ==
    [][\A p \in PaymentIds :
           status[p] = "captured_unapplied" =>
               /\ status'[p] = "captured_unapplied"
               /\ Applied(p)' => Applied(p)]_vars

(* A row whose process died between the claim and the finalize stays as it *)
(* is: nobody finalizes, credits or retires it, and its key answers for it *)
(* for ever.  There is no reaper.                                          *)
Abandoned(p) ==
    status[p] = "processing" /\ \A r \in Requests : req[r].payment = p => req[r].pc = "dead"

AbandonedIsFinal ==
    [][\A p \in PaymentIds :
           Abandoned(p) => Abandoned(p)' /\ key'[p] = key[p] /\ ~Applied(p)']_vars

(* The balance a loan carries is the principal it was boarded with less    *)
(* exactly the applications recorded for it: concurrent applies lose and   *)
(* repeat nothing, and no movement is without its record (ADR 0020).       *)
Credited(A) == MapThenSumSet(LAMBDA a : a.amount, A)

BalanceIsTheRecord ==
    \A l \in Loans :
        balance[l] = Principal - Credited({a \in applications : a.loan = l})

(* Every request that starts is answered unless its process dies: the      *)
(* bounded re-claims of claim_or_branch and the HTTP timeout leave no      *)
(* request waiting or looping.                                             *)
EveryRequestAnswered ==
    \A r \in Requests :
        (req[r].pc \notin {"idle", "done"}) ~> (req[r].pc \in {"done", "dead"})

-----------------------------------------------------------------------------
(* The inductive strengthening the proofs need.                            *)
RowInv ==
    \A p \in PaymentIds :
        /\ status[p] \in {"absent", "processing", "captured", "captured_unapplied"}
        /\ status[p] = "absent" => key[p] = NoKey /\ claimedUnder[p] = NoKey
        /\ status[p] # "absent" => claimedUnder[p] \in Keys /\ terms[p] \in Terms
        /\ status[p] \in {"absent", "processing"} => ~Applied(p)
        /\ key[p] # NoKey => key[p] = claimedUnder[p]

Unclaimed == {"idle", "claim", "read", "reclaim", "reread", "retire",
              "claim_retired", "read_current"}

OwnerInv ==
    \A r \in Requests :
        /\ req[r].pc # "idle" => req[r].key \in Keys /\ req[r].terms \in Terms
        /\ req[r].payment \in PaymentIds =>
               /\ status[req[r].payment] # "absent"
               /\ terms[req[r].payment] = req[r].terms
        /\ req[r].pc \in Unclaimed => req[r].payment = NoPayment
        /\ req[r].pc = "finalize" =>
               req[r].payment \in PaymentIds /\ status[req[r].payment] = "processing"
        /\ req[r].pc \in {"apply", "waiting", "unapplied"} =>
               req[r].payment \in PaymentIds /\ status[req[r].payment] = "captured"
        /\ \A s \in Requests :
               req[r].payment = req[s].payment /\ req[r].payment # NoPayment => r = s

CallInv ==
    \A r \in Requests :
        /\ req[r].pc \in Unclaimed \cup {"finalize", "apply"} => call[r] = "none"
        /\ call[r] # "none" => req[r].payment \in PaymentIds
        /\ call[r] = "ok" => CreditedTo(r)

ClaimedInv ==
    \A r \in Requests :
        req[r].kind = "claimed" =>
            \/ req[r].reported = "captured" /\ CreditedTo(r)
            \/ req[r].reported = "captured_unapplied"

SeenInv ==
    \A r \in Requests :
        /\ req[r].pc \in {"retire", "claim_retired", "read_current"} =>
               req[r].seen \in PaymentIds
        /\ req[r].kind = "replay" => req[r].seen \in PaymentIds
        /\ req[r].kind # "none" => req[r].pc = "done"
        /\ req[r].seen \in PaymentIds => status[req[r].seen] # "absent"

IInv ==
    /\ TypeOK
    /\ RowInv
    /\ OwnerInv
    /\ CallInv
    /\ SeenInv
    /\ OneRowPerKey
    /\ RetiredOnlyIfApplied
    /\ AppliedOnceAsCaptured
    /\ ClaimedInv
    /\ ReplayIsOfSameTerms

-----------------------------------------------------------------------------
(* What the tables promise whoever the requests are: see PaymentIntent.    *)
StageOf(p) ==
    CASE status[p] = "absent" -> "none"
      [] status[p] = "processing" -> "claimed"
      [] status[p] = "captured_unapplied" -> "disowned"
      [] OTHER -> "captured"

Intent == INSTANCE PaymentIntent WITH
    holds <- key,
    stage <- [p \in PaymentIds |-> StageOf(p)],
    credited <- {a.payment : a \in applications}

ImplementsIntent == Intent!Spec

=============================================================================
