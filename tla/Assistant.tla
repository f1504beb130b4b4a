----------------------------- MODULE Assistant -----------------------------
(***************************************************************************)
(* The officer's assistant: a bounded loop in which a model chooses tools  *)
(* and the code decides what each of them may do, run beside re-decisions  *)
(* of the same application.  A run is one request of an officer, from the  *)
(* route that admits it to the assistant_runs row that records it; several *)
(* run at once and may carry the same Idempotency-Key.                     *)
(*                                                                         *)
(* The model and its provider are external: any tool, any answer, any      *)
(* failure, and nothing in between.  A conversation is kept as the sizes   *)
(* of its turns, which is what trimming goes by.  decision-service is what *)
(* Decisions shows of it: a request id is recorded once and replayed.      *)
(* Names, prose, redaction and spans are left out.                         *)
(***************************************************************************)
EXTENDS Integers, Sequences, SequencesExt

CONSTANTS
    Runs,
    Keys,         \* Idempotency-Keys; a run without one draws an id of its own
    Outcomes,     \* approve, deny, ...
    MaxSteps,     \* _MAX_STEPS, model calls of a run
    MaxRetries,   \* CLAUDE_MAX_RETRIES
    Rooms,        \* what CLAUDE_TOKEN_BUDGET may leave for a conversation
    MaxEvents,    \* bounds the re-decisions
    NoRun

ASSUME AssistantAssumption ==
    /\ MaxSteps \in Nat \ {0} /\ MaxRetries \in Nat /\ MaxEvents \in Nat
    /\ Rooms \subseteq Int
    /\ NoRun \notin Runs /\ NoRun \notin Keys

VARIABLES
    standing,   \* of the application: missing, unverified, legacy or verified
    room,       \* tokens left for the conversation, negative if none
    events,     \* its decision_events, in order, each with its request_id
    stage,      \* what each run is doing
    ask,        \* its task, whether it names a policy topic, and its request_id
    nodes,      \* graph nodes executed
    tries,      \* retries of the model call under way
    talk,       \* the conversation after the officer's request
    scored,     \* state["score"]: the event it holds, or 0
    searched,   \* whether state["searches"] has an entry
    reply       \* what the officer is answered, and what the refusal says

loop == <<nodes, tries, talk, scored, searched>>
assistantVars == <<standing, room, events, stage, ask, loop, reply>>

Refusals == {"not_found", "never_decisioned", "assistant_refused", "llm_unavailable",
             "kyc_blocked", "idempotency_conflict", "downstream_unavailable",
             "before_loop"}

(* `event` is the decision event a 200 shows, 0 for a legacy outcome;      *)
(* `scored` is the mark on the refusal, when it has one.                   *)
Reply == [status : {"none", "turned_away", "served"} \cup Refusals,
          event : 0 .. MaxEvents, scored : {"unsaid", "yes", "no"}]

NoReply == [status |-> "none", event |-> 0, scored |-> "unsaid"]

Ask == [task : {"decision", "explain"}, topic : BOOLEAN, request : Keys \cup Runs]

Event == [request : Keys \cup Runs \cup {NoRun}, outcome : Outcomes,
          by : Runs \cup {NoRun}]   \* by: history

Turn == [kind : {"use", "result"}, tool : {"score", "record", "policy"}]

RunStages == {"idle", "model", "score", "record", "policy", "validate", "write", "done"}

AssistantTypeOK ==
    /\ standing \in {"missing", "unverified", "legacy", "verified"}
    /\ room \in Rooms
    /\ events \in Seq(Event) /\ Len(events) <= MaxEvents
    /\ stage \in [Runs -> RunStages]
    /\ ask \in [Runs -> Ask]
    /\ nodes \in [Runs -> Nat]
    /\ tries \in [Runs -> 0 .. MaxRetries]
    /\ talk \in [Runs -> Seq(Turn)]
    /\ scored \in [Runs -> 0 .. MaxEvents]
    /\ searched \in [Runs -> BOOLEAN]
    /\ reply \in [Runs -> Reply]

AssistantInit ==
    /\ standing \in {"missing", "unverified", "legacy", "verified"}
    /\ room \in Rooms
    /\ events = <<>>
    /\ stage = [r \in Runs |-> "idle"]
    /\ ask = [r \in Runs |-> [task |-> "explain", topic |-> FALSE, request |-> r]]
    /\ nodes = [r \in Runs |-> 0]
    /\ tries = [r \in Runs |-> 0]
    /\ talk = [r \in Runs |-> <<>>]
    /\ scored = [r \in Runs |-> 0]
    /\ searched = [r \in Runs |-> FALSE]
    /\ reply = [r \in Runs |-> NoReply]

-----------------------------------------------------------------------------
Move(r, to) == stage' = [stage EXCEPT ![r] = to]

(* The answer is decided; the row is written before it is given.           *)
Decide(r, status, e, mark) ==
    /\ reply' = [reply EXCEPT ![r] = [status |-> status, event |-> e, scored |-> mark]]
    /\ Move(r, "write")

RefuseRun(r, status) == Decide(r, status, 0, "unsaid")

(* An AssistantError of a loop that ended without a final answer.          *)
RefuseUnfinished(r) ==
    Decide(r, "assistant_refused", 0, IF scored[r] # 0 THEN "yes" ELSE "no")

Deciding(r) == ask[r].task = "decision"

Recorded(request) == {e \in DOMAIN events : events[e].request = request}

-----------------------------------------------------------------------------
(* assistant_decide and assistant_explain                                  *)

(* Not an officer, or too many calls: no trace and no row.                 *)
NotAdmitted(r) ==
    /\ stage[r] = "idle"
    /\ Move(r, "done")
    /\ reply' = [reply EXCEPT ![r].status = "turned_away"]
    /\ UNCHANGED <<standing, room, events, ask, loop>>

(* The officer's own application, an over-long key or an unlisted topic.   *)
RefuseBeforeLoop(r) ==
    /\ stage[r] = "idle"
    /\ RefuseRun(r, "before_loop")
    /\ UNCHANGED <<standing, room, events, ask, loop>>

BeginRun(r) ==
    /\ stage[r] = "idle"
    /\ \E q \in Ask :
          /\ q.request \in Keys \cup {r}
          /\ IF q.task = "decision" THEN ~q.topic ELSE q.request = r
          /\ ask' = [ask EXCEPT ![r] = q]
    /\ Move(r, "model")
    /\ UNCHANGED <<standing, room, events, loop, reply>>

-----------------------------------------------------------------------------
(* One turn of the model *)

(* A recorded decision is the longest turn, a status and a score are short.*)
Tokens(t) == IF t.kind = "result" /\ t.tool # "policy" THEN 2 ELSE 1

Size(ts) == FoldSeq(LAMBDA t, n : Tokens(t) + n, 0, ts)

(* build_request: the oldest turns go, one at a time, until the rest fits. *)
Sent(r) ==
    LET Rest(k) == SubSeq(talk[r], k, Len(talk[r]))
        fits == {k \in 1 .. Len(talk[r]) + 1 : Size(Rest(k)) <= room}
    IN  Rest(CHOOSE k \in fits : \A l \in fits : k <= l)

(* The provider takes a tool_result only after the tool_use it answers.    *)
Paired(ts) == ts # <<>> => ts[1].kind = "use"

RecursionLimit == 2 * MaxSteps

(* The graph is stopped at a model node that leaves no node after the next.*)
OutOfSteps(r) == RecursionLimit - (nodes[r] + 1) < 2

Calling(r) == stage[r] = "model" /\ room >= 0

(* TokenBudgetExceeded: the prompt and the answer leave no room at all.    *)
NoRoom(r) ==
    /\ stage[r] = "model" /\ room < 0
    /\ RefuseRun(r, "llm_unavailable")
    /\ UNCHANGED <<standing, room, events, ask, loop>>

RetryCall(r) ==
    /\ Calling(r) /\ tries[r] < MaxRetries
    /\ tries' = [tries EXCEPT ![r] = @ + 1]
    /\ UNCHANGED <<standing, room, events, stage, ask, nodes, talk, scored, searched, reply>>

(* A timeout, an error not to be retried (an unpaired result is one), or   *)
(* the last retry's.                                                       *)
CallFails(r) ==
    /\ Calling(r)
    /\ RefuseRun(r, "llm_unavailable")
    /\ UNCHANGED <<standing, room, events, ask, nodes, tries, talk, scored, searched>>

(* The provider answers, and the call is over.                             *)
Completes(r) ==
    /\ Calling(r) /\ Paired(Sent(r))
    /\ tries' = [tries EXCEPT ![r] = 0]
    /\ nodes' = [nodes EXCEPT ![r] = @ + 1]

(* Two tool calls or an unbound one, an action written as text, an answer  *)
(* that fails its schema or the leak guard: LLMError, nothing is run.      *)
Misspeaks(r) ==
    /\ Completes(r)
    /\ RefuseRun(r, "llm_unavailable")
    /\ UNCHANGED <<standing, room, events, ask, talk, scored, searched>>

(* _already_scored: a result of that name is in the conversation.          *)
AlreadyScored(r) == \E i \in DOMAIN talk[r] :
    talk[r][i] = [kind |-> "result", tool |-> "score"]

(* Scoring becomes a read on explain, and the second time.                 *)
Chosen(r, tool) ==
    IF tool = "score" /\ (~Deciding(r) \/ AlreadyScored(r)) THEN "record" ELSE tool

ChoosesTool(r, tool) ==
    /\ Completes(r)
    /\ IF OutOfSteps(r)
       THEN RefuseUnfinished(r) /\ UNCHANGED talk
       ELSE /\ Move(r, Chosen(r, tool))
            /\ talk' = [talk EXCEPT ![r] =
                  Append(@, [kind |-> "use", tool |-> Chosen(r, tool)])]
            /\ UNCHANGED reply
    /\ UNCHANGED <<standing, room, events, ask, scored, searched>>

(* A topic that was not searched for is not answered.                      *)
Concludes(r) ==
    /\ Completes(r)
    /\ IF ask[r].topic /\ ~searched[r]
       THEN RefuseRun(r, "assistant_refused")
       ELSE Move(r, "validate") /\ UNCHANGED reply
    /\ UNCHANGED <<standing, room, events, ask, talk, scored, searched>>

-----------------------------------------------------------------------------
(* The tools *)

(* The tool has run, and the model is asked again.                         *)
Returns(r, tool) ==
    /\ talk' = [talk EXCEPT ![r] = Append(@, [kind |-> "result", tool |-> tool])]
    /\ nodes' = [nodes EXCEPT ![r] = @ + 1]
    /\ Move(r, "model")

(* The payload's read, then the KYC gate.                                  *)
ScoreRefused(r) ==
    /\ stage[r] = "score" /\ standing \in {"missing", "unverified"}
    /\ RefuseRun(r, IF standing = "missing" THEN "not_found" ELSE "kyc_blocked")
    /\ UNCHANGED <<standing, room, events, ask, loop>>

(* Slip: every POST /decisions records, whatever the request_id has.       *)
ScoresEachTime(r, e, o) ==
    /\ stage[r] = "score" /\ standing \in {"legacy", "verified"}
    /\ Len(events) < MaxEvents /\ e = Len(events) + 1
    /\ events' = Append(events, [request |-> ask[r].request, outcome |-> o, by |-> r])

(* POST /decisions with the run's request_id records an event, or replays  *)
(* the one it has.                                                         *)
Scores(r, e, o) ==
    LET request == ask[r].request
    IN  /\ stage[r] = "score" /\ standing \in {"legacy", "verified"}
        /\ IF Recorded(request) # {}
           THEN e \in Recorded(request) /\ events' = events
           ELSE /\ Len(events) < MaxEvents /\ e = Len(events) + 1
                /\ events' = Append(events, [request |-> request, outcome |-> o, by |-> r])

ScoreTool(r, o) ==
    /\ \E e \in 1 .. MaxEvents :
          Scores(r, e, o) /\ scored' = [scored EXCEPT ![r] = e]
    /\ Returns(r, "score")
    /\ UNCHANGED <<standing, room, ask, tries, searched, reply>>

(* Slip: the failed call is told to the model instead of ending the run.   *)
ScoreLostIsTold(r, o) ==
    /\ \E e \in 1 .. MaxEvents : Scores(r, e, o)
    /\ Returns(r, "score")
    /\ UNCHANGED <<standing, room, ask, tries, scored, searched, reply>>

(* The answer is lost, or the breaker is open.                             *)
ScoreLost(r, o) ==
    /\ stage[r] = "score"
    /\ (\E e \in 1 .. MaxEvents : Scores(r, e, o)) \/ UNCHANGED events
    /\ RefuseRun(r, "downstream_unavailable")
    /\ UNCHANGED <<standing, room, ask, loop>>

(* The key was used with inputs the application has no longer.             *)
ScoreConflicts(r) ==
    /\ stage[r] = "score" /\ Recorded(ask[r].request) # {}
    /\ RefuseRun(r, "idempotency_conflict")
    /\ UNCHANGED <<standing, room, events, ask, loop>>

(* The latest record, or that there is none: both are results.             *)
RecordTool(r) ==
    /\ stage[r] = "record"
    /\ Returns(r, "record")
    /\ UNCHANGED <<standing, room, events, ask, tries, scored, searched, reply>>

(* A refusal of decision-service is an AssistantError, silence an outage.  *)
ReadFails(r) ==
    /\ stage[r] \in {"record", "validate"}
    /\ RefuseRun(r, "assistant_refused") \/ RefuseRun(r, "downstream_unavailable")
    /\ UNCHANGED <<standing, room, events, ask, loop>>

(* One retrieval a run; a decision's abstains without looking.             *)
PolicyTool(r) ==
    /\ stage[r] = "policy"
    /\ searched' = [searched EXCEPT ![r] = TRUE]
    /\ Returns(r, "policy")
    /\ UNCHANGED <<standing, room, events, ask, tries, scored, reply>>

-----------------------------------------------------------------------------
(* _validated_final, and the row *)

Newest(es) == CHOOSE e \in es : \A f \in es : f <= e

(* Slip: the application's latest event, whoever asked for it.             *)
ShownLatest(r) == DOMAIN events

(* The events the final answer may be about.                               *)
Shown(r) == IF Deciding(r) THEN Recorded(ask[r].request) ELSE DOMAIN events

(* What is served is the record's, whatever the model said.                *)
Validates(r) ==
    /\ stage[r] = "validate"
    /\ CASE Shown(r) # {} -> Decide(r, "served", Newest(Shown(r)), "unsaid")
         [] Shown(r) = {} /\ Deciding(r) -> RefuseRun(r, "assistant_refused")
         [] Shown(r) = {} /\ ~Deciding(r) ->
               IF standing = "legacy" THEN Decide(r, "served", 0, "unsaid")
               ELSE RefuseRun(r, "never_decisioned")
    /\ UNCHANGED <<standing, room, events, ask, loop>>

(* assistant_runs.record, whose failure is swallowed; the row says what    *)
(* `reply` does, and the run's own state ends with it.                     *)
WritesRow(r) ==
    /\ stage[r] = "write"
    /\ Move(r, "done")
    /\ nodes' = [nodes EXCEPT ![r] = 0]
    /\ tries' = [tries EXCEPT ![r] = 0]
    /\ talk' = [talk EXCEPT ![r] = <<>>]
    /\ scored' = [scored EXCEPT ![r] = 0]
    /\ searched' = [searched EXCEPT ![r] = FALSE]
    /\ UNCHANGED <<standing, room, events, ask, reply>>

(* Another officer re-decides through the application's own route.         *)
Redecides(o) ==
    /\ standing \in {"legacy", "verified"} /\ Len(events) < MaxEvents
    /\ events' = Append(events, [request |-> NoRun, outcome |-> o, by |-> NoRun])
    /\ UNCHANGED <<standing, room, stage, ask, loop, reply>>

RunStep(r) ==
    \/ NotAdmitted(r) \/ RefuseBeforeLoop(r) \/ BeginRun(r)
    \/ NoRoom(r) \/ RetryCall(r) \/ CallFails(r) \/ Misspeaks(r) \/ Concludes(r)
    \/ \E tool \in {"score", "record", "policy"} : ChoosesTool(r, tool)
    \/ ScoreRefused(r) \/ ScoreConflicts(r)
    \/ \E o \in Outcomes : ScoreTool(r, o) \/ ScoreLost(r, o)
    \/ RecordTool(r) \/ ReadFails(r) \/ PolicyTool(r)
    \/ Validates(r) \/ WritesRow(r)

AssistantNext ==
    \/ \E r \in Runs : RunStep(r)
    \/ \E o \in Outcomes : Redecides(o)

AssistantSpec == AssistantInit /\ [][AssistantNext]_assistantVars

-----------------------------------------------------------------------------
(* A decision's 200 shows an event of its own request, and if the run      *)
(* scored that very event, though others re-decide the application while   *)
(* the model is still talking and two runs may share an Idempotency-Key    *)
(* (_validated_final's request_id scope, state["score"]).                  *)
AnswerIsOfItsRequest ==
    \A r \in Runs :
        reply[r].status = "served" /\ Deciding(r)
            => /\ reply[r].event \in Recorded(ask[r].request)
               /\ scored[r] # 0 => scored[r] = reply[r].event

(* A refusal that says the decision went through left it on record, and    *)
(* one that says it did not recorded none, although the call that scores   *)
(* may be lost after it was carried out (`scored`, run's two refusals).    *)
MarkIsTrue ==
    \A r \in Runs :
        /\ reply[r].scored = "yes" => Recorded(ask[r].request) # {}
        /\ reply[r].scored = "no" => \A e \in DOMAIN events : events[e].by # r

(* The provider's rule, as the chat model's comments state it: a           *)
(* tool_result is sent with the tool_use block it answers.                 *)
ResultsArePaired == \A r \in Runs : Calling(r) => Paired(Sent(r))

=============================================================================
