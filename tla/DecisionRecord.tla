--------------------------- MODULE DecisionRecord ---------------------------
(***************************************************************************)
(* What decision-service promises of one application: an append-only       *)
(* record of decisions, never two of them under one request id, and the    *)
(* decisions row pointing at the outcome of the latest; and that whoever   *)
(* is told an outcome is told one that is on the record, under his own     *)
(* request id and for inputs that do not contradict his own.               *)
(***************************************************************************)
EXTENDS Integers, Sequences

CONSTANTS
    Requests, Keys, Outcomes,
    Terms,       \* the financial inputs of a request
    Borrowers,   \* keyed fingerprints of an SSN
    NoKey,       \* no request_id: an explicit re-decision
    NoPrint,     \* no fingerprint: no pepper is configured
    NoOutcome    \* no decisions row

Inputs == [terms : Terms, print : Borrowers \cup {NoPrint}]

Event == [key : Keys \cup {NoKey}, inputs : Inputs, outcome : Outcomes]

(* Two inputs conflict when they differ in what both of them state.        *)
Conflict(stored, current) ==
    \/ stored.terms # current.terms
    \/ /\ stored.print # NoPrint /\ current.print # NoPrint
       /\ stored.print # current.print

VARIABLES
    events,     \* decision_events of the application, in the order of their ids
    pointer,    \* decisions.outcome
    told        \* what each request was told: an event by number, or 0

Init ==
    /\ events = <<>>
    /\ pointer \in Outcomes \cup {NoOutcome}
    /\ told = [r \in Requests |-> 0]

Record(e) ==
    /\ e.key # NoKey => \A i \in DOMAIN events : events[i].key # e.key
    /\ events' = Append(events, e)
    /\ pointer' = e.outcome
    /\ UNCHANGED told

Tell(r, key, inputs, i) ==
    /\ told[r] = 0
    /\ i \in DOMAIN events
    /\ events[i].key = key
    /\ ~Conflict(events[i].inputs, inputs)
    /\ told' = [told EXCEPT ![r] = i]
    /\ UNCHANGED <<events, pointer>>

Next ==
    \/ \E e \in Event : Record(e)
    \/ \E r \in Requests, key \in Keys \cup {NoKey}, inputs \in Inputs :
           \E i \in DOMAIN events : Tell(r, key, inputs, i)

Spec == Init /\ [][Next]_<<events, pointer, told>>

=============================================================================
