# Meridian Lending: a verification project

Meridian Lending is seven FastAPI services over one Postgres database: loan
origination (applications, KYC, decisions, offers, disclosures and an officer's
assistant), loan servicing (balances, payments, delinquency, reconciliation), a
payment service and a gateway, with a browser frontend in front of them and an
offline harness that evaluates the assistant's policy search.  This directory
holds TLA+ models of its stateful parts, TLC configurations that check them on
small instances, and proofs, checked by TLAPS, of the properties that must hold
for every number of requests, keys, rows, loans and threads.

All paths below are relative to the repository; a module's definitions are
listed with the lines they model in `PROJECT.json`, under `map`.

## 1. Inventory

What all services share decides how they are modelled.  Every service keeps one
process-wide psycopg2 connection in **autocommit** mode (`app/db.py`), so a
handler that issues three statements is three transactions: between any two of
them other handlers, other services and crashes intervene.  The routes are
`def` handlers that FastAPI runs in a thread pool.  There is no message bus;
services call each other over HTTP with a timeout, and the database is their
shared memory.  What protects an invariant is therefore always one of three
things: a unique index, the `WHERE` clause of a single statement, or a lock.

| component | state | operations | hard behaviour | correct when |
|---|---|---|---|---|
| capture path: payment-service and servicing-service `POST /payments`, apply | `payments`, `payment_applications`, `balances.balance` | claim a key, replay, retire, finalize, apply, give up | two front doors on one table, claim races, expiry, lost calls, crashes between capture and credit | no second charge for an unresolved one, one credit per payment, answers are true |
| loan account: servicing `balance.py`, `delinquency.py` | `balances.balance`, `.past_due` | apply, correct, waive, assess a late fee | lost updates, ABA | no movement of money is lost |
| reconciliation: servicing `reconciliation.py`, `reconcile.py` | none of its own | read the ledger twice, match, look for double charges, report | intake goes on between the reads; greedy matching, netting, the window's edge | the report adds up and nothing hides behind it |
| log files: each service's `logging_config.py` | a file, its rotated files, a shared writer | rotate, dispose | idle days, restarts, two loggers, a file from before | a line stays for its term and no longer |
| disclosure lifecycle: disclosure-service `routers/disclosures.py` | the `disclosures` row and its frozen document | create with replay and repair, submit, review, deliver | guards read before the `UPDATE`, concurrent repairs and reviews | only a reviewed, whole document is delivered, and it never changes |
| disclosure coordinator: origination `disclosure_coordinator.py` | one run's state | six stages, two with a model, and a read-back | minutes between the decision read and the record that cites it; lost answers | a run is refused only for a denial, and the officer is told what the record shows |
| decision: decision-service | `decisions`, `decision_events` | decide by request id under an advisory lock | retries while the bureau is asked, lost locks, lost answers | one event and one credit pull per request id |
| application pipeline: origination `applications.py`, `offers.py` | application, KYC checks, offers, loans | submit, re-check, decide, offer, accept (board), abandon | check-then-act over statements, partial boarding, replay | one authorized loan per application, an accepted one whole |
| gateway: `main.py`, `auth.py` | login and resume sessions in Redis, cookies | proxy with scoped token injection, store, compensate | Redis or the gateway failing after origination committed, answers that miss the browser | no applicant is stranded, only what nobody holds is taken back |
| officer's assistant: origination `assistant.py`, `assistant_runs.py`, `main.py` | a run, its `assistant_runs` row | bounded loop over three tools, validation against the record | re-decisions while the model talks, lost scores, two runs under one key | the answer is of its own request, its refusals are true |
| LLM client and request builder: origination `llm/`, `redactor.py` | none | retry, budget, trimming, masking | a label lost on the way down, masked keys that collide, a tool's result parted from its call | nothing that names someone leaves, nothing else is lost |
| policy search: origination `policy_retrieval.py` | an index with a TTL | look, build, search | lock-free look, a corpus edited under the build | a hit is of the text that was vetted and is recent |
| retrieval evaluation: `rag_eval/` | an embedding cache, a report | audit, vet, cut, embed, rank, grade, report | runs that abort or die, what they leave on disk; figures that must agree | nothing unvetted stays or leaves, the report adds up |
| circuit breaker: origination `clients.py` | per downstream: state, failures, opened_at | before call, after call | stragglers of an earlier state, a probe that dies | an outage is not hammered, recovery is found |
| readiness cache: each `config.py` | a cached verdict | `database_reachable` | lock-free read beside a single-flight refresh | no verdict is older than it may be |
| rate limit: origination `rate_limit.py` | a deque of timestamps | `check_and_record` | the clock is read before the lock | a burst is bounded all the same |
| schema: `db/migrations`, the readiness ladders | the database's objects | migrations by psql, probes, an operator's repairs | files applied by hand, again, half, out of order; same-named stand-ins | ready means reliable, a clean run has converged, reports lead to ready |
| pages: `frontend/app/servicing`, `underwriting`, `apply` | a tab's state, localStorage, cookies | forms, retries, reloads | answers that come late, twice or never; visits left and come back to | no charge nobody meant, no screen of another's file |
| KYC, scoring, arithmetic, SSN purge, scripts | | | | section 8 |

## 2. Plan

The order puts money first, then the records a regulator reads, then what
guards the services, then what people see and what the models read.

| step | modules |
|---|---|
| 1 | `Payments` implements `PaymentIntent`; `PaymentsProofs` |
| 2 | `LoanAccount`, `Reconciliation`, `LogRetention`; `ServicingProofs` |
| 3 | `CircuitBreaker`, `ReadinessCache`, `Schema`; `GuardsProofs` |
| 4 | `Disclosures`, `Coordinator`; `DocumentsProofs`, which step 9 adds to |
| 5 | `Decisions` implements `DecisionRecord`; `DecisionsProofs` |
| 6 | `Origination`, which takes `DecisionRecord` as the component it calls; `OriginationProofs` |
| 7 | `Gateway`, `Assistant`, `RateLimit`, `RequestBuilder`; `FrontProofs` |
| 8 | `PaymentPage`, `OfficerPage`, `ApplyPage`, which `Pages` puts side by side; `PagesProofs` |
| 9 | `Corpus`, `PolicyIndex`, `Scoring`, `Evaluation` |

All of it is done.  What could come next: the abstract delivery record of a
disclosure, which `Disclosures` would implement and `Coordinator` take as its
environment; the operator's `POST /board`; and the arithmetic of schedules over
scaled integers.

What talks to what, and how the modules stand for it:

```
 PaymentPage ─┐                        ┌─ Payments ── (apply) ── LoanAccount
 OfficerPage ─┼─ Gateway ── services ──┤─ Origination ── DecisionRecord <= Decisions
 ApplyPage  ──┘                        │      └ Coordinator ── Disclosures
                                       └─ Assistant ── PolicyIndex, RequestBuilder
 under every service: ReadinessCache, Schema, LogRetention; in origination: CircuitBreaker, RateLimit
 offline: Reconciliation (reads what Payments writes), Evaluation
```

A module that stands in front of another takes its promise and not its details:
the pages take `Payments`' and `DecisionRecord`'s (a key is charged once, a
request id recorded once), `Gateway` takes what `Origination` shows of its
routes, `Assistant` and `Coordinator` what `Decisions` shows.

## 3. Conventions

* **A statement is an action.**  Each service runs one uvicorn process with one
  shared autocommit connection, so a single SQL statement is atomic and nothing
  wider is, unless the code opens a transaction; where it does (a disclosure's
  creation, the decision event with its pointer) the action is that wide.
  Between two statements of a handler anything else may happen.
* **A handler is a program counter** in a record per request or thread, with
  exactly the values the handler has read and will use later.  Stale reads are
  therefore part of the model and not an option of it.
* **What is external is a choice.**  Redis, the bureau, a model, the network, an
  operator: any answer, any failure, at any moment, and no answer at all.
* **Time** is a flag (a key's expiry, a breaker's cooldown) where only one
  threshold matters, and ages or ticks where two are compared.
* **Slips.**  A few operators carry a comment that begins with "Slip".  They are
  no part of the next-state relation; each is a plausible mistake in the code of
  the definition it stands next to (a dropped guard, a missing reset), kept so
  that every property is shown to notice one.

## 4. The models

### Money

**`Payments`, `PaymentIntent`.**  Both front doors on their one table, and the
apply both end in.

| code | model |
|---|---|
| `payments.status`, `.idempotency_key`, `.request_fingerprint`, `.idempotency_expires_at` | `status`, `key`, `terms`, `expired` |
| `payment_applications`, `balances.balance`, rows of `balances` | `applications`, `balance`, `boarded` |
| `_claim`, its conflict, the read of the holder, one bounded re-claim (`claim_or_branch`) | `ClaimWins`, `ClaimLoses`, `ReadFinds`, `ReadMisses` |
| `_RETIRE_SQL`, then the claim under the released key, or the read of what holds it now | `Retire`, `RetireMovesNothing`, `ReadCurrent` |
| finalize captured, call apply, answer, give up after 5 s, finalize `captured_unapplied` | `FinalizeCaptured`, `CallApply`, `Confirmed`, `Refused`, `GiveUp`, `FinalizeUnapplied` |
| `apply_payment`: `_APPLY_SQL`, and the read of a prior application | `ServeApply`, `ServePrior` |
| the process dies, the call or its answer is lost, the TTL passes, an internal caller re-drives an apply, a loan is boarded | `Die`, `LoseCall`, `Expire`, `Redrive`, `BoardBalance` |

What a door answers is `Code` and `TellsAnAmount`: payment-service turns a
capture that was not applied into a 424, servicing's own door sends the same
result as a 200 that names no amount.  A fingerprint is the terms it hashes.
Amounts are integers of the minor unit
and may be negative, since `PaymentIn.amount` is a float nobody bounds.
`PaymentIntent` is the promise alone: a payment holds a key, is captured,
credited, disowned, and releases its key only when credited.  `Payments`
implements it under `holds <- key`, a stage computed from `status`, and
`credited` the payments that have an application.

**`LoanAccount`.**  One `balances` row and its four writers, which differ in how
they protect themselves: the payment's atomic `UPDATE` (`ApplyPayment`), the
officer's compare-and-set against the balance he was quoted (`Quote`, `Adjust`,
`AdjustMovesNothing`), the atomic waiver (`WaiveFee`), and the late fee, a
`SELECT` followed by an `UPDATE` (`AssessRead`, `AssessWrite`).  Histories say
what each column should have absorbed, and `raced` names the loans whose
`past_due` was written during an assessment.

**`Reconciliation`.**  One run of the job beside live intake (`Post`): the file
(`Load`), the pool of rows (`ReadPool`), and in `Conclude` the second read, the
exact pass and the tolerant one over candidates ordered as `_match` orders them,
the duplicate scan, the figures and the exit code; `Abort` is everything that
refuses.  Matching and scan are folds over the ordered candidates.  The matching
is maximal and not maximum: a row may take the capture that another row has as
its only one, and `ReportAddsUp` states what holds nevertheless.

**`LogRetention`.**  Days; `GetLogger` (which makes the one writer or shares it,
disposing of what is overdue), `Emit` (by way of a rollover, the first of a
day), `ProcessEnds`, `DayPasses`.  The rotation is the standard library's, of
the Python the images run: a rollover returns early when the backup's name is
taken.  Making a handler is one step; a death within it disposes of less, which
the next start makes good.

### Records

**`Decisions`, `DecisionRecord`.**  `decide` on one application under
`pg_advisory_xact_lock` per request id: `Start`, `Lock`, `Lookup`, `Score` (the
vendor call and the score, any outcome), `Persist` with its two bad ends
(`PersistUnseen`: committed, but the connection failed before saying so;
`PersistRaced`: the unique index refused a second event under the id),
`Answer`, `Fail`.  The lock belongs to a transaction of a connection of its own;
`LockDrops` ends it while the thread goes on.  A request without an id takes no
lock and is an explicit re-decision.  `DecisionRecord` is the promise: an
append-only record, one event per request id, the pointer at the latest outcome,
and nobody told anything but a recorded outcome of his own id with inputs that
do not contradict his own.

**`Origination`.**  One application: submit, KYC and its re-check, decision,
offer, acceptance with its reconciliation, and the gateway's compensating
abandon, each statement by statement, by officers (or the linked owner) and by
holders of the continuation token.  Decisions are steps of `DecisionRecord`, so
that what is shown here holds of any decision-service that keeps that promise.
Of the disclosure only what a boarding reads is kept (`Disclose`, `CloseEdge`,
`Deliver`).  `Init` is any application of the back book, or none.  `Crash` may
end a thread at any statement.

**`Disclosures`.**  One offer's disclosure, its three kinds of actor and every
read they make before they write: creation with replay, repair and provenance
edge (`CreatorStep`: one transaction at READ COMMITTED, writes by primary key,
the freeze trigger, the unique index and its loser's path), review
(`ReviewerStep`: the status read, the delivery guards one by one, then the
`UPDATE ... WHERE status = ...`), and origination's acceptance guard
(`AcceptorStep`).  `Init` is any row the schema admits.

**`Coordinator`.**  One run of origination's graph per officer: `Route`, `Mint`,
`Compute`, `Assemble` and `Verify` with their bounded repetition, `Narrate`,
`Persist`, `ReadsChain`, each call with the end where its answer is lost, beside
`Decides`, `OffersElsewhere` and `Delivers`.  disclosure-service is taken a
request at a time.  The spelling of the figures and the brief's wording are a
bit each.  (A run that is answered by a replay returns a new document while the
row keeps the old one; `AnswerTellsTheRecord` speaks of the record.)

### In front of the services

**`Gateway`.**  A handler is its sequence of calls to Redis and to origination:
`Precheck`, `Resolve`, `Forward` (with `ForwardLost`, `ForwardRefused`),
`StoreSession` and its retries, the compensation's look and its later deletion
(`Probe`, `Delete`, `AbandonFails`), `ClearSession`, `Respond` or
`RespondLost`; `Crash`, `Expire` and `Outage` come between any two.  A session
id is named by the application it is for.  `parted` collects the applications
some fault has separated from their browser, by what happened: the property is
about all others.

**`Assistant`.**  One officer's request: the route's admission
(`NotAdmitted`, `RefuseBeforeLoop`), `BeginRun`, the model call with its budget
refusal, retries and trimming (`NoRoom`, `RetryCall`, `CallFails`, `Sent`), the
tool chosen and executed (`ScoreTool`, `ScoreLost`, `ScoreConflicts`,
`RecordTool`, `PolicyTool`), the bound on steps, the validation against the
record (`Validates`) and the recorded row (`WritesRow`), beside re-decisions.
A decision's answer shows the event recorded under the run's own request id; an
explanation shows the newest there is, of whichever request.  There is one
application, so that events of another are out of the question by construction
and no property speaks of them.
A conversation is the sequence of its turns with their sizes.

**`RequestBuilder`, `RequestSamples`.**  `build_request` as a function of what
it is given.  A document is known by its places, the sequences of positions
that lead into it, with a value and perhaps a key at each; keys and scalars are
known by what the code asks of their text (whether a pattern matches, whether a
label gates it, how many digits).  What the walk hands down on its way to a
place, the label of a list or the mask of an identity key, is read off the
places above (`Label`, `WithinIdentity`), so that no recursion is needed;
`RedactDocument`, `RedactScalar`, `RedactedTurn` and `ToolsHold` are the walk,
the masks and the refusals.  `MaskedAndWhole` says what has left in terms of
what came, declaratively: TLC compares the two on some 1300 sample documents,
histories and tool lists, and `FrontProofs` proves them to agree on all.

**`PaymentPage`, `OfficerPage`, `ApplyPage`.**  A page's React state, its
handlers from the click to the `setState` after the last `await`, the requests
in flight, and a service that keeps its module's promise.  One component serves
all routes of its page, so `route`/`path` is the list of visits and an answer
knows the visit it was asked in.  Answers may be lost before or after the work,
come late, or come on another visit.  The officer's page looks after most
answers whether its visit is still on screen (`LeftBehind`); a re-check does
not, and goes on to a load that is the current visit's by the time it is asked
(`AwaitsLoad`, `RecheckLands`), which `strays` records.  In the wizard the
cookie comes with the headers of a submit's answer (`CookieArrives`) and the
answer with its body, which may be lost (`JobFails`); and localStorage may
refuse a write (`Saves`, `Clears`).  `unsaved` and `forgotten` are the
applications these leave behind.  `Pages` puts the three side by side, for
what is said of all of them.

### Guards

**`CircuitBreaker`.**  The three fields of `_breaker_state[base_url]` and worker
threads that each are idle, in a call admitted while the circuit was closed, or
probing.  The lock makes `_breaker_before_call` (`Admit`) and
`_breaker_after_call` (`Finish`) one step each; the call between them finishes in
whatever state the breaker is in by then.  `Escape` is an exception
`_with_breaker` does not report.  `Cool` is the cooldown passing, `Outage` the
downstream going down or coming back.

**`ReadinessCache`.**  `Peek` reads the cached tuple without the lock and `Judge`
judges it by a later clock; `Enter` takes the lock and looks again, `Probe` asks,
`Store` writes with the time after the probe, `Reset` empties.  Ages grow with
`Tick` up to where nothing tells them apart.  The charge routes ask the same
function, through the same cache.

**`RateLimit`.**  `ReadClock` and, later, `LetThrough` or `TurnAway` under the
lock.  The bound that holds is of a window shortened by the longest wait between
the two (`BurstIsBounded`); the full window's is false, as timestamps enter out
of order.

**`Schema`.**  Objects, tables among them, in a form: sound, a stand-in of the
same name, there but not enforced, or missing.  The migrations 0002
and 0004 to 0023 as sequences of statements with their `IF NOT EXISTS`, their
assertions and what makes them raise, rows or a stand-in they meet (`Refused`),
sent by psql one by one and going on after an error
(`docs/runbooks/operations.md:111-127`); the five ladders as sequences
of rungs that ask for a name or for a shape; and an operator who follows reports
(`Follow`), repairs by hand what migrations leave to him (`Repair`) and errs
(`Stray`, `SessionLost`, `RowsGoBad`).

### Retrieval

**`Corpus`, `CorpusSamples`.**  What the policy search and the harness share:
the manifest, its audit, the gate with its overlapping patterns, the cutting of
markdown by headings, the ids.  A text is the spans a pattern of the gate
matches and its sections.

**`PolicyIndex`.**  A search's clock, its look without the lock, the wait, the
build file by file and the answer, beside an operator who edits the directory
(`Edit`).  A build reads each file three times: for its digest (`Admit`), to
judge what it holds (`Vet`) and to cut it (`CutFile`); an edit may come between
any two.  The manifest is what the process was started with, any or none.

**`Evaluation`, `Scoring`.**  A run of `python -m rag_eval.run` from its audit to
its exit code in the order of the code, the cache it leaves, and all of its
figures; files change and the process is killed between any two steps.  `sent`
is all that leaves for a provider: passages, questions, and what the judge is
sent besides (`Prompt`: conclusions, the displayed summary).  A row is judged on
the best ranked of its passages (`TopChunks`).  Similarities are choices; a vector is what it is a vector of.

## 5. The runs

Components that share no state are checked in one TLC run, one at a time: the
MC module chooses a part in its `Init` and never leaves it.

| run | part | question | instance |
|---|---|---|---|
| `payments_crowd` | | Is every request answered, also one whose holder vanishes twice? | 4 requests of one charge, 1 key, a row for each, fair scheduling; 203 910 states |
| `payments_three_requests` | | Is the balance the sum of its applications, a charge never doubled while an earlier one is unresolved, a confirmed one credited, a replay of one's own terms, and does it all implement `PaymentIntent`? | 3 requests, 1 key, 2 rows, one amount negative; 1 218 210 states |
| `servicing` | account | Is any movement of a balance lost, or of a fee outside an assessment? | 4 requests, 1 loan |
| | reconciliation | Does the report add up to the cent, and is a clean one clean? | every ledger of 3 payments on 3 days, every file of 1 or 2 lines, window of one day or all |
| | log | Is each line kept for its term and then gone? | 2 loggers, 5 days, term of 2; 1 212 724 states in all |
| `documents` | service | Is a delivery whole and reviewed, an offer tied to one decision? | 2 creators, 2 reviewers, 1 acceptor, 3 events of which one denies |
| | pipeline | Is a run refused only for a denial, is the officer told what the record shows? | 2 officers, up to 3 decisions, 2 attempts |
| | search | Is a hit of the vetted text, cited as itself, and recent? | 2 searches, 2 files, 1 edit, TTL 1 |
| | harness | Does nothing unvetted stay or leave, do the figures agree? | 2 runs, 5 files, 1 change, 6 set-ups; 1 217 732 states in all |
| `decisions` | | Is credit pulled once per request id, does `decide` implement `DecisionRecord`? | 3 requests, 1 key or none, 2 outcomes, 2 terms, 2 borrowers; 230 793 states |
| `origination` | application | Is a loan authorized, an accepted one whole? | 2 officers, 1 applicant, 2 decisions |
| | readiness | Is every verdict told recent? | 3 threads, TTL 2, probe 1 |
| | rate | Is a burst bounded? | 3 requesters, 2 calls per window of 4, up to 2 late; 337 817 states in all |
| `front` | borrower | Is nobody stranded, does the compensation take only what nobody holds? | 2 handlers, 2 applications, 3 attempts at Redis |
| | officer | Is an answer of its own request, its refusal's mark true? | 2 runs that may share a key, 2 model calls each, 2 events |
| | builder | Does nothing that names someone leave, is nothing else lost? | the sample requests; 1 149 232 states in all |
| `guards` | breaker | Is an outage called once per cooldown, is a recovery found? | 4 workers, threshold 5 as in the code |
| | schema | Is ready sound, has a clean run converged, do reports lead to ready? | volumes at 5 migrations, one object of each meddled with, tables included, 1 mistake; 195 938 states in all |
| `pages` | | Is no charge made that nobody meant, no screen of another visit, no two decisions side by side, one event per attempt, does a refresh come back, are an offer's terms its own? | 2 loans or files, 3 visits, 2 keys; 1 381 946 states |
| `assistant_trimmed` | | Are tool results always sent with their calls? | violated: 3 model calls |
| `documents_late` | | Does a late document always re-enter review? | violated: 1 creator, 1 reviewer |
| `origination_boarded_replay` | | Is an acceptance of a boarded loan served? | violated: 1 officer, 1 applicant, 2 decisions |

### Why these bounds

* *Payments.*  Every race in `claim_or_branch` is between a request and the
  holder of one key; a third party is needed for the one stale read that
  matters (a holder retired and re-claimed between the conflict and the
  replay), which is why replays are checked with three requests.  Two rows are
  what one key can produce while the first is unresolved; no statement names two
  keys; -1 beside 3 tells a reversal from a charge.  For a request to look for a
  holder that is gone, claim again and lose again, two others must have claimed
  and been retired and a third hold the key: the crowd has four requests and a
  row for each to claim.  They all make the same charge, as what they differ in
  decides an answer and never whether there is one.  To keep four apart within
  reach (`CrowdSpec`), all have arrived before the first claims, which is where a
  late one would wait; the numbers of requests and rows are taken in order; one
  of them may lose its call, one of two may die, a row of `balances` is there
  from the beginning or never, and nobody re-drives.
* *LoanAccount.*  Two requests race, a third shows the racing is detected, a
  fourth lets the balance return to a value an officer has seen (ABA): the
  amounts are 3 and -3 for that.
* *Reconciliation.*  Two amounts, three days and a tolerance of one are enough
  for a row to have two captures at different distances, and a capture two rows;
  a window of the middle day puts either end of a pair outside.
* *LogRetention.*  Five days and a term of two let a file be rotated, leave the
  window and be outlived; the inherited file spans any of the days before.
* *CircuitBreaker.*  The threshold is that of `clients.py:30`.  A worker calls
  again after it has failed, so four reach it while others are still in flight:
  the circuit opens with stragglers, and they end in any of its states.
* *ReadinessCache, RateLimit.*  A reader, a waiter and a prober; a TTL of two
  ticks lets a tuple age between being read and being judged.  A third requester
  arrives between two whose timestamps are out of order.
* *Schema.*  The five ages put each ladder's objects at risk; one object of each
  is missing, a stand-in or not enforced, and the two tables among them may be
  stand-ins that `CREATE TABLE IF NOT EXISTS` swallows.  Objects that no missing
  or meddled one touches are up to date in that volume.
* *Disclosures, Coordinator.*  Two of each racing kind; three events are a cited
  one, a later approving one and a later denial.
* *Decisions, Origination.*  Two requests share an id, the third has none or
  arrives after a lock was lost; two officers race each other and the applicant.
* *Gateway, Assistant.*  Two handlers of one browser are a retry beside its
  original; two applications are an old one and a new one.  Two model calls are
  a score and a conclusion; the third of `assistant_trimmed` is what trimming needs.
* *Search, harness.*  One edit, which may fall between any two of a build's
  three reads of a file; two searches on either side of
  it; two runs, since what matters is what the first leaves to the second.
* *Pages.*  Two visits to one loan with one elsewhere between; two keys, as the
  question is of two charges.  The payment page and the officer's page are each
  taken twice, at length on one file and briefly over several, which bounds what
  an earlier visit may still have in flight.

`CHECK_DEADLOCK FALSE` stands for Payments, Decisions, the servicing run and the
pages, whose bounded requests, days or visits may all be over.  The other runs
are checked for deadlock.

### Fairness

* *Payments* (`EveryRequestAnswered`): weak fairness of each request's own
  statements and of `Serving`.  A handler that runs keeps running, httpx gives
  up after 5 seconds, and servicing serves the calls that reached it.  Nothing
  is assumed of clients, crashes, the network or the clock.
* *CircuitBreaker* (`RecoveryIsFound`): weak fairness of `Finish` (httpx
  timeouts end every call) and `Cool` (time passes).  Requests must also keep
  coming, since the breaker probes only when called: an assumption on clients
  (`SteadyLoad`), and not something the code provides.
* *Schema* (`ReportsLeadToReady`): a psql session goes on by itself (weak), and
  an operator attends to a report that keeps coming back and repairs what he is
  told to (strong, since sessions and mistakes come between).  This is the
  operator of `docs/runbooks/operations.md`, and the property is about what the
  reports tell him; mistakes are bounded.
* The other specifications assert no liveness and assume no fairness.

## 6. The proofs

TLAPS checks each theorem for every value of the constants that satisfies the
modules' named assumptions.  Every safety property that a passing run checks is
a theorem; liveness is left to TLC.  Requests, keys, rows, loans, threads, visits, runs,
files, decisions and amounts are arbitrary; so are documents, the back book, the corpus,
the gold set, the settlement files and the state a database is found in.

### What is assumed

The assumptions say what numbers are numbers and that a "none" value (`NoApp`,
`NoRun`, `NoWriter`, `NoSearch`, `Nil`, `NoId`) is no member of the set it
completes.  Some say more, each what the code makes sure of:

* `ThresholdAssumption`: the breaker's threshold is positive.
* `ReconciliationAssumption`: a settlement file has finitely many rows and at
  least one (the loader refuses an empty one), and `ref` tells them apart: rows
  that share a processor's reference are known by their place as well.
* `RateAssumption`: nobody waits for the lock as long as the window.
* `PolicyIndexAssumption`, `EvaluationAssumption`: a text that can be read
  consists of the shapes the gate's patterns match (`WellRead`); a corpus is
  finite, as are the sections of a text; a gold row that is well formed names
  one of the classes or none; scores are bounded.  Scores are also even, which
  is the abstraction of floats that `Scoring` describes: there is room between
  any two of them.
* `RequestAssumption`: a document is what `json.loads` returns (`WellFormed`): it
  is finite, each place is reached by way of objects and lists, the entries of
  an object and no others have keys, and those of one object differ.  And what
  the abstraction of texts means: a code of a vocabulary and the empty string
  name nobody.
* `Databases` (`Schema`): a database may be found with any object missing, sound
  or in one of the other forms it may have, as long as a column is not there
  without the table it is in or refers to, nor the `disclosures` of migration
  0012 without the column of `offers` that 0012 makes before it.  TLC checks that the volumes of the runs are such
  (`VolumesAreDatabases`).

TLC evaluates all of them on the instances above.

### The theorems and their invariants

| module, part | theorems | inductive invariant, and why the properties alone are not inductive |
|---|---|---|
| `PaymentsProofs` | `TypeCorrect`, `KeysAreExclusive`, `RetirementIsSafe`, `NoDoubleCharge`, `AppliesOnce`, `ConfirmationsAreTrue`, `ReplaysAreOwn`, `DisownedStaysDisowned`, `AbandonedStaysAbandoned`, `ImplementsTheIntent` | `IInv` adds `RowInv` (what a row's status says about its key and application), `OwnerInv` (a row in `processing` belongs to the one request about to finalize it), `CallInv` (an `ok` from servicing means a credit on the request's own loan) and `SeenInv` (a request that read a row read one that exists).  Without `OwnerInv` nothing would stop a step from capturing a disowned row; without `CallInv` nothing ties the answer to the credit.  `AbandonedStaysAbandoned` rests on the same two facts as `OwnerInv`: the dead take no step, and a request takes a row only by inserting it (`OwnersStay`). |
| | `TheBalanceIsTheRecord` | `LedgerInv`: the record is finite, and each balance is its sum.  The lemma it rests on is that adding an application to the record adds its amount to the sum. |
| `ServicingProofs`, account | `TypeCorrect`, `BalanceIsExact`, `PastDueIsExact` | `AccountInv` adds `ReadIsCurrent`: what an assessment holds is still the column's value unless the loan has been raced; and that a loan without a row has absorbed nothing. |
| log | `LinesAreKeptForTheirTerm` | `LogInv`: a file's newest line is of the day it was last written on, every recent line is in some file, and all loggers share one writer, which has the active file open and is due on the day after it was written on.  Without `OneWriter` nothing would say of which day the lines are that a rollover takes along. |
| reconciliation | `ReportsAddUp`, `NothingIsEverHidden` | `ReconInv`: the report is made of two claims (`MadeOf`), each a set of pairs in which no row and no capture occurs twice, and the second among what the first has left.  That is what the two passes and the duplicate scan are shown to compute; the figures follow by moving pairs between sums that are equal.  Rows keep their numbers, so what intake adds between the reads is told from what was read. |
| `GuardsProofs`, breaker | `BreakerTypeHolds`, `CountAndStateAgree`, `NoBurst`, `OnlyAnEscapeWedges` | `BreakerInv` adds that no call has begun in the current open period, from which the single call of the probe follows.  `OnlyAnEscapeWedges` (no run checks it) says that half-open has a probe to wait for unless one has ended with an exception the breaker does not catch; that wedge is real. |
| readiness cache | `ReadinessTypeHolds`, `OneProbeHolds`, `VerdictHolds` | `ReadinessInv` adds that whoever probes holds the lock, that what is fresh, in the cache or in a tuple read from it, was so as long ago as its age and a probe, and that a probe's finding is as old as the probe.  `OneProbePerWindow` is proved only. |
| schema | `ReadinessIsEarned`, `CleanRunsConverge` | `SchemaInv`: what refers to a table is not there without it, and the migrations' own `disclosures` not without the edge, at every statement of every file, also after errors (0012 adds the column first).  `SessionInv` adds, for a session without an error, that each statement sent so far has left what it declares and that what was sound before still is, or has just been dropped to be made again.  The scripts are data; what is used of each is that it is `Tidy`. |
| `DocumentsProofs`, service | `TypeIsCorrect`, `LifecycleHolds`, `DeliveryHolds`, `FreezeHolds`, `OneDecisionHolds`, `BoardingHolds` | `IInv` says what each thread may still rely on of what it has read.  It is kept because the rows only move one way: a closed edge stays, a delivered row stays. |
| pipeline | `PipelineTypeHolds`, `RefusalsAreDenials`, `AnswersTellTheRecord` | `PipelineInv` says per stage what those before it have found (`StageRelies`: the event in hand is one that may be cited, or the one the edge already names).  `RowsGrow` shows that nobody takes that back: an edge is closed once, a record keeps what it cites. |
| search | `HitsAreVouchedFor` | `PolicyIndexInv`: a builder holds the lock, each chunk it has so far was true of the corpus after the builder read its clock and is marked where the text cut is not the one scanned (`asVetted`) or digested (`asNamed`), and an index is dated by that reading and not by its end. |
| harness | `NothingUnvettedEverStays`, `FiguresAlwaysAgree` | `EvaluationInv`: from the gate on, the chunks name nobody if their file was not changed after it was judged, what is sent of a gold row is what its checks let through, and the vectors kept are of the corpus last embedded.  `FiguresInv`: every row of the run is a gold row with a ranking that is not empty.  The threshold's optimality is a lemma of its own, `CalibratedIsBest`: each cutoff makes the errors of a candidate, and the one taken is not beaten by any. |
| `DecisionsProofs` | `TypeIsKept`, `LockNeverWedges`, `OnePull`, `ImplementsTheRecord` | `DecisionsInv` adds that whoever is inside the block holds the lock or has lost it, that a request about to answer has an event of its own id, and that a key nobody lost a lock for has no record while someone is pulling under it. |
| `OriginationProofs` | `TypeCorrect`, `LoansAreAuthorized`, `AcceptedLoansAreWhole`, `NothingIsOrphaned`, `OffersKeepTheirDecision` | `IInv` says per thread what its guards have established (`Relies`); `Grows` shows no step of anyone takes that back, except the deletion of an application that has nothing, which foreign keys keep away from one that has.  This is the argument the comment in `accept_offer` makes in words. |
| `FrontProofs`, gateway | `GatewayTypeHolds`, `NobodyIsStranded`, `CompensationHolds` | `GatewayInv` adds, per stage of a handler, what it may rely on (`Relies`: a submission being stored has no session yet, one being answered has one, or is funded or parted), that whoever submits an application is alone with it until his answer, and that nobody holds an application that is not there yet.  Without `SubmitterIsAlone` another request could take over the cookie or the session of the application that the compensation is about to delete. |
| assistant | `AssistantTypeHolds`, `AnswersAreTheirOwn`, `MarksAreTrue` | `AssistantInv` adds that a run which holds no score has written no event, and that the score it holds is an event of its own request.  The call that writes either fills the score or ends the loop, which is why a mark of "nothing scored" is true. |
| rate limit | `BurstsAreBounded` | `RateInv` matches the calls let through with the entries of the window from the end: an entry is at most `MaxLate` older than its call, and a call whose entry is gone is older than the window less that.  Counted from the front nothing could be said, as entries out of order are dropped late. |
| request builder | `EverythingIsMaskedAndWhole` | `RequestInv`: what is given is of `Givens`, and what has been built of it is masked and whole.  The step is a statement about one document (`RedactedNamesNobody`, `RedactedKeeps`).  A document being its places, it takes no induction over trees: of the identity keys above a place that is gone the first is the one that is masked (`Least`), at most one key on the way is a place's label (`LabelIs`), and of two masked keys the later has more of them before it (`NamelessGrows`). |
| `PagesProofs`, payment page | `PayPageTypeHolds`, `ChargesAreMeant`, `NoScreenOfAnotherVisit` | `PayPageInv`: of the keys a visit has minted only that of `lastPayment` can be unresolved (`OneOpenIntent`), whatever is on its way carries a minted key, and a handler of an earlier visit is known by it. |
| officer's page | `OneDecisionOnTheDesk`, `AttemptsRecordOnce`, `NoScreenOfAnotherVisit` | `DeskInv`: a visit mints one key for Run decision, and for the assistant one more than it has had answers; and what is on screen is of the current visit or brought there by a re-check that has outlived its own (`strays`). |
| application wizard | `RefreshFindsTheApplication`, `OfferIsOfItsForm` | `ApplyInv`: an answer under way is of the application the cookie holds, which is saved unless it is recorded as refused or forgotten, and the form is that of the job it was submitted by. |

`ImplementsTheIntent` and `ImplementsTheRecord` are step simulations: the
initial states map to initial states and every step of the detailed module to
one step of the abstract one or to a stutter, under the invariant above.

### Sums and folds

The library's folds choose a function on the subsets of a set and apply it.
That there is one, and what it does on a set with one element more, is proved
where it is needed without a rule of induction: a counterexample would have a
least cardinality, and a set one element smaller refutes it (`Least`,
`FoldExists` in `PaymentsProofs`; `CanFold` and what follows it in
`ServicingProofs`, for sums over functions, claims and joins).

### Only model-checked

* `EveryRequestAnswered`, `RecoveryIsFound`, `ReportsLeadToReady`: liveness,
  with fairness and `ENABLED`.
* The three disagreements of section 7 that have runs of their own: each is a
  counterexample.

## 7. What the runs found

Each is listed in `PROJECT.json` with the lines that say otherwise.  Three are
shown by runs of their own:

1. **A late document can ride an approval** (`documents_late`).  The repair
   leaves the status out of its `UPDATE` if the row it read was a draft, so a
   review that commits between read and commit keeps its status over a document
   the reviewer has not seen (`disclosures.py:710-712` says it re-enters review).
2. **A boarded loan can become unreachable to its own acceptance**
   (`origination_boarded_replay`).  `accept_offer` judges `decisions.outcome`
   before it looks for an existing loan; after a re-decision to deny every
   acceptance answers 409, and a loan whose boarding died before its balance is
   never completed.
3. **A tool's result is sent without its call** (`assistant_trimmed`).
   `history.pop(0)` drops one turn at a time, and the provider refuses the rest
   for good, possibly after a decision was recorded.

The others are exemptions that a property had to be given in order to hold:

* *Payments*: a replayed `captured` precedes the credit, or comes without one
  (`ConfirmedIsApplied` speaks of the claiming request only).  Servicing's own
  door answers 200 for a capture that was not applied; only payment-service
  makes it a 424, and what is shown of servicing's 200 is that it tells of no
  amount.  A row whose
  process died between claim and finalize stays `processing` and answers 409 to
  its key for ever, also after the key's term: there is no reaper, which
  `AbandonedIsFinal` states and `AbandonedStaysAbandoned` proves.
* *Servicing*: `assess_late_fee` overwrites a waiver that comes between its two
  statements.  A rotated file is judged by its newest line.
* *Gateway*: an acceptance clears the resume session of whatever application the
  browser's cookie is for; an officer does not get past a Redis outage; the
  token is gone before the answer that makes it dispensable is sent.
* *Coordinator*: a `POST /disclosures` whose answer is lost, or a read of the
  chain that fails, is answered as an outage without the id of the draft that is
  there.  `AnswerTellsTheRecord` speaks of the other answers.
* *Assistant*: a refusal says `scored: false` of runs that never got that far.
* *Request builder*: beside a key that a pattern matches, or around a match in a
  token, what no pattern finds leaves as it came; a label reaches into lists and
  not into objects.
* *Pages*: a retry always says it collapsed; a re-check puts two decisions side
  by side, and one answered after the officer has gone to another file puts the
  old file's application and decision there; a second Run decision of a visit
  answers with the first; one failed read forgets an application; so does a
  submit's answer that is cut after its cookie, and an id that localStorage
  refused lives as long as its tab; a resumed offer shows the form's own
  defaults.
* *Schema*: the sixteen rungs that ask for names pass stand-ins (`NameOnly`),
  hand-made tables and disabled triggers among them; `disclosures_no_truncate`
  has no rung; origination passes a stand-in `disclosures` without the edge.  Of
  what a file declares, eleven objects it asserts nothing of (`Unasserted`) are
  only there; 0002 applied again brings back the column that a later file drops,
  and 0015 replaces the view by an older one.  No report names 0004.
* *Search*: a file edited between a build's reads is cited under the digest of
  its earlier text (`asNamed`) or passes the gate as it (`asVetted`).
* *Evaluation*: the judge is sent displayed summaries and conclusions, which
  nothing scans for bare names; a file changed after it was judged is cut, sent
  and embedded as it has become; an aborted run leaves vectors of documents that are gone, a
  killed one half a file that stops every later run; the threshold's sentinel is
  called the best; rows of one id are scored on one question.

Met while modelling, and not stated as a property:

* `make_offer` judges the decision pointer and then reads the latest event in a
  second statement; a re-decision in between gives an offer a denying event for
  good, and such an offer can never be disclosed.
* An apply call lost after 5 s may have credited a payment whose client was
  answered 424; the row then says `captured_unapplied` beside its application.
* The reconciliation loads ledger rows without looking at their status.
* A read of a page's mount that comes late may show an older payment list than
  the one on screen; a resume that lands beside a new submission mixes the two
  until the next reload.
* A number that both card patterns of the gate match is counted twice.
* `reset_index_cache` during a look without the lock would raise; nothing calls
  it while serving.

## 8. What is not modelled

* Parts of modelled components: the `monthly_debt` capture,
  `deny_self_decision` and the operator's `POST /board` in origination (the
  first two only refuse, the last reads nothing of the pipeline); login sessions
  and the gateway's other proxies; the figures of a disclosure; rounding of
  floats in servicing; prompt texts and the parsing of a model's prose; the
  patterns of `redactor.py` and `hygiene.py` themselves, of which a text is what
  they match.
* Numerical: APR root finding, schedules, fees, the arithmetic of vectors, and
  which reasons of a score rank first.
* KYC beyond the row its gate judges: CIP is a test of presence.
* The SSN purge: its third gate is a constant that refuses, so no reachable
  step changes a row.
* The other pages of the frontend, scripts and deployment keep no state that
  the properties are about.
