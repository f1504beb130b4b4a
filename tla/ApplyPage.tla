----------------------------- MODULE ApplyPage ------------------------------
(***************************************************************************)
(* The application wizard (frontend app/apply/page.tsx) in one tab of one  *)
(* browser.  What a reload loses is the tab's; what survives it is the id  *)
(* saved in localStorage and the gateway's cookie, which a script cannot   *)
(* read.  Steps 1 to 4 are the form, whose fields are its amount; what is  *)
(* denied ends here, so a decision is an approving one.                    *)
(***************************************************************************)
EXTENDS Naturals, Sequences

CONSTANTS Sums,     \* the amounts a form can ask for
          Default,  \* the amount of a form nobody has touched
          MaxApps   \* bound on submissions

ASSUME DefaultIsASum == Default \in Sums

VARIABLES
    form,      \* the amount in the form
    step,      \* "form" or "offer" (step 5)
    app,       \* the application in memory, or 0
    facts,     \* what step 5 shows of it: KYC, decision, offer, document, loan
    job,       \* the handler behind `busy'
    check,     \* refreshDisclosureStatus, behind `checkingDisclosure'
    resume,    \* the mount's read of the saved application
    saved,     \* localStorage, or 0
    cookie,    \* the application whose session the cookie names, or 0
    apps,      \* the applications, in order of submission
    resumed,   \* this tab's application came from the resume read (history)
    unsaved,   \* the applications this tab could not save (history)
    forgotten  \* the applications that a failed read, a reload or a lost answer cost

tab == <<form, step, app, facts, job, check, resume, resumed>>
browser == <<saved, cookie>>
lost == <<unsaved, forgotten>>
applyVars == <<tab, browser, apps, lost>>

None == [pc |-> "idle"]
Kinds == {"kyc", "decision", "offer"}

Mount(id) == IF id = 0 THEN None ELSE [pc |-> "sent", app |-> id]

ApplyInit ==
    /\ form = Default /\ step = "form" /\ app = 0 /\ facts = {}
    /\ job = None /\ check = None /\ resume = None
    /\ saved = 0 /\ cookie = 0 /\ apps = <<>>
    /\ resumed = FALSE /\ unsaved = {} /\ forgotten = {}

Ids == 1..Len(apps)

(* What the services serve to the holder of the application's cookie.      *)
Holds(id) == id = cookie

-----------------------------------------------------------------------------
(* localStorage takes the id, or throws, which saveResume swallows.        *)
Saves(id) ==
    \/ saved' = id /\ unsaved' = unsaved \ {id}
    \/ saved' = saved /\ unsaved' = unsaved \cup ({id} \ {saved})

(* clearResume swallows it too.                                            *)
Clears == saved' \in {0, saved}

(* The tab is closed or refreshed, at any moment, and opened again.        *)
Reload ==
    /\ form' = Default /\ step' = "form" /\ app' = 0 /\ facts' = {}
    /\ job' = None /\ check' = None /\ resume' = Mount(saved)
    /\ resumed' = FALSE
    /\ unsaved' = {} /\ forgotten' = forgotten \cup ({cookie} \ {0, saved})
    /\ UNCHANGED <<browser, apps>>

ResumeIsServed ==
    /\ resume.pc = "sent" /\ Holds(resume.app)
    /\ resume' = [pc |-> "served", app |-> resume.app,
                  has |-> apps[resume.app].has \cap Kinds]
    /\ UNCHANGED <<form, step, app, facts, job, check, resumed, browser, apps, lost>>

(* The read restores step 5 with the decision and the offer it was served, *)
ResumeLands ==
    /\ resume.pc = "served"
    /\ resume' = None /\ app' = resume.app /\ step' = "offer"
    /\ facts' = (facts \ {"kyc"}) \cup resume.has
    /\ resumed' = TRUE
    /\ forgotten' = forgotten \cup (unsaved \ {resume.app})
    /\ UNCHANGED <<form, job, check, browser, apps, unsaved>>

(* or fails, for whatever reason, and whatever id is saved is cleared.     *)
ResumeFails ==
    /\ resume.pc # "idle"
    /\ resume' = None /\ Clears
    /\ forgotten' = forgotten \cup ({saved} \ {saved'})
    /\ UNCHANGED <<form, step, app, facts, job, check, resumed, cookie, apps, unsaved>>

-----------------------------------------------------------------------------
(* The form and its submission.                                            *)

(* Slip: the wizard can be gone back to from step 5.                       *)
EditsEverywhere(n) ==
    /\ form' = n
    /\ UNCHANGED <<step, app, facts, job, check, resume, resumed, browser, apps, lost>>

(* The fields are on the steps before the fifth, which has no way back.    *)
Edits(n) ==
    /\ step = "form" /\ job.pc = "idle"
    /\ form' = n
    /\ UNCHANGED <<step, app, facts, job, check, resume, resumed, browser, apps, lost>>

Begins(op, id) ==
    /\ job.pc = "idle"
    /\ job' = [pc |-> "sent", op |-> op, app |-> id]
    /\ UNCHANGED <<form, step, app, facts, check, resume, resumed, browser, apps, lost>>

SubmitApplication == step = "form" /\ Begins("submit", 0)

(* recheckKyc, getDecision, viewOffer, acceptOffer: each is offered once   *)
(* what it needs is on screen, the last one only beside the document.      *)
Asks(op) ==
    /\ step = "offer" /\ app # 0
    /\ \/ op = "kyc" /\ "kyc" \notin facts
       \/ op = "decision" /\ "kyc" \in facts /\ "decision" \notin facts
       \/ op = "offer" /\ "decision" \in facts /\ "offer" \notin facts
       \/ op = "accept" /\ {"offer", "document"} \subseteq facts /\ "loan" \notin facts
    /\ Begins(op, app)

Creates ==
    /\ job.pc = "sent" /\ job.op = "submit" /\ Len(apps) < MaxApps
    /\ \E has \in {{}, {"kyc"}} :
           apps' = Append(apps, [sum |-> form, has |-> has])
    /\ job' = [job EXCEPT !.pc = "created", !.app = Len(apps) + 1]
    /\ UNCHANGED <<form, step, app, facts, check, resume, resumed, browser, lost>>

(* The gateway's Set-Cookie is the browser's before the page's script runs.*)
CookieArrives ==
    /\ job.pc = "created"
    /\ cookie' = job.app
    /\ job' = [job EXCEPT !.pc = "answered"]
    /\ UNCHANGED <<form, step, app, facts, check, resume, resumed, saved, apps, lost>>

SubmissionLands ==
    /\ job.pc = "answered" /\ job.op = "submit"
    /\ app' = job.app /\ Saves(job.app) /\ step' = "offer"
    /\ facts' = (facts \ {"kyc"}) \cup (apps[job.app].has \cap {"kyc"})
    /\ job' = None
    /\ UNCHANGED <<form, check, resume, resumed, cookie, apps, forgotten>>

Submitted == job.pc = "answered" /\ job.op = "submit"

(* An error, or an answer that is lost, its body after its headers even:   *)
(* nothing on the page changes.                                            *)
JobFails ==
    /\ job.pc # "idle"
    /\ job' = None
    /\ forgotten' = IF Submitted THEN forgotten \cup {job.app} ELSE forgotten
    /\ UNCHANGED <<form, step, app, facts, check, resume, resumed, browser, apps, unsaved>>

-----------------------------------------------------------------------------
(* Step 5.                                                                 *)

Gains(id, what) == apps' = [apps EXCEPT ![id].has = @ \cup {what}]

Allowed(id, op) ==
    \/ op = "kyc"
    \/ op \in {"decision", "offer"} /\ "kyc" \in apps[id].has
    \/ op = "accept" /\ "delivered" \in apps[id].has

Serves ==
    /\ job.pc = "sent" /\ job.op # "submit"
    /\ Holds(job.app) /\ Allowed(job.app, job.op)
    /\ Gains(job.app, IF job.op = "accept" THEN "loan" ELSE job.op)
    /\ cookie' \in IF job.op = "accept" THEN {0, cookie} ELSE {cookie}
    /\ job' = [job EXCEPT !.pc = "answered"]
    /\ UNCHANGED <<form, step, app, facts, check, resume, resumed, saved, lost>>

StepLands ==
    /\ job.pc = "answered" /\ job.op \in Kinds
    /\ facts' = facts \cup {job.op}
    /\ IF job.op = "kyc" THEN app' = job.app /\ Saves(job.app)
                         ELSE UNCHANGED <<app, saved, unsaved>>
    /\ job' = None
    /\ UNCHANGED <<form, step, check, resume, resumed, cookie, apps, forgotten>>

(* Slip: the saved id is dropped whatever the acceptance came to.          *)
AcceptForgets ==
    /\ job.pc \in {"sent", "answered"} /\ job.op = "accept"
    /\ facts' = IF job.pc = "answered" THEN facts \cup {"loan"} ELSE facts
    /\ saved' = 0
    /\ job' = None
    /\ UNCHANGED <<form, step, app, check, resume, resumed, cookie, apps, lost>>

(* The acceptance's 200 clears the saved id here; on its way the gateway   *)
(* has cleared the session, and it takes the cookie back.                  *)
AcceptLands ==
    /\ job.pc = "answered" /\ job.op = "accept"
    /\ facts' = facts \cup {"loan"} /\ Clears /\ cookie' = 0
    /\ job' = None
    /\ UNCHANGED <<form, step, app, check, resume, resumed, apps, lost>>

(* The status of the chain, then the document, which is served once it was *)
(* delivered; whatever fails holds the button.                             *)
Checks ==
    /\ check.pc = "idle" /\ "offer" \in facts /\ "loan" \notin facts
    /\ check' = [pc |-> "chain", app |-> app]
    /\ UNCHANGED <<form, step, app, facts, job, resume, resumed, browser, apps, lost>>

Delivered(id) == Holds(id) /\ "delivered" \in apps[id].has

ChainIsDelivered ==
    /\ check.pc = "chain" /\ Delivered(check.app)
    /\ check' = [check EXCEPT !.pc = "document"]
    /\ UNCHANGED <<form, step, app, facts, job, resume, resumed, browser, apps, lost>>

CheckLands ==
    /\ check.pc # "idle"
    /\ facts' = IF check.pc = "document" /\ Delivered(check.app)
                THEN facts \cup {"document"} ELSE facts \ {"document"}
    /\ check' = None
    /\ UNCHANGED <<form, step, app, job, resume, resumed, browser, apps, lost>>

(* An officer's generation, review and delivery, on a human timescale.     *)
OfficerDelivers(id) ==
    /\ resume.pc = "idle" /\ "offer" \in apps[id].has
    /\ Gains(id, "delivered")
    /\ UNCHANGED <<tab, browser, lost>>

-----------------------------------------------------------------------------
ApplyNext ==
    \/ Reload \/ ResumeIsServed \/ ResumeLands \/ ResumeFails
    \/ \E n \in Sums : Edits(n)
    \/ SubmitApplication \/ Creates \/ CookieArrives \/ SubmissionLands \/ JobFails
    \/ \E op \in Kinds \cup {"accept"} : Asks(op)
    \/ Serves \/ StepLands \/ AcceptLands
    \/ Checks \/ ChainIsDelivered \/ CheckLands
    \/ \E id \in Ids : OfficerDelivers(id)

ApplySpec == ApplyInit /\ [][ApplyNext]_applyVars

-----------------------------------------------------------------------------
(* An application the browser has the cookie of is one a refresh comes     *)
(* back to, or one that could not be saved and that this tab still has     *)
(* ("so a refresh/tab-close can re-open the application", RESUME_KEY; "in-  *)
(* memory state still works this session", saveResume): unless the read of *)
(* an earlier refresh failed, or the tab went, or the answer was lost,     *)
(* between the cookie and the saved id.                                    *)
RefreshComesBack ==
    \A id \in Ids :
        Holds(id) /\ "loan" \notin apps[id].has /\ ~Submitted
        => saved = id \/ (id \in unsaved /\ app = id) \/ id \in forgotten

(* The amount above an offer is the one its application asked for, unless  *)
(* the application was resumed, whose form is a new one (OfferPanel).      *)
OfferShowsItsTerms ==
    "offer" \in facts /\ ~resumed => form = apps[app].sum

=============================================================================
