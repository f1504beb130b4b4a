------------------------------ MODULE MCGuards ------------------------------
(***************************************************************************)
(* What tells a caller, or an operator, that the way is clear: the circuit *)
(* breaker, and the ladders of schema probes over volumes that lag behind  *)
(* the code; on small instances, one at a time.                            *)
(***************************************************************************)
EXTENDS CircuitBreaker, Schema

VARIABLE guard

(* What the services rely on as it was at a migration, or meddled with     *)
(* then; the rest of the schema up to date.                                *)
Lagging(n, behind) ==
    LET theirs == UNION {ReliesOn[s] : s \in behind}
    IN  {[o \in Objects |-> IF o \in theirs THEN v[o] ELSE "sound"] :
            v \in Meddled(n)}

Volumes ==
    Lagging(4, {"decision", "disclosure"})
    \cup Lagging(11, {"disclosure", "origination"})
    \cup Lagging(15, {"disclosure", "origination"})
    \cup Lagging(17, {"payment", "servicing"})
    \cup Lagging(19, {"payment", "origination"})

ASSUME VolumesAreDatabases == Volumes \subseteq Databases

UpToDate == {Volume(23)}

MCInit ==
    /\ guard \in {"breaker", "schema"}
    /\ Init
    /\ SchemaInit(IF guard = "schema" THEN Volumes ELSE UpToDate)

MCNext ==
    /\ \/ guard = "breaker" /\ Next /\ UNCHANGED schemaVars
       \/ guard = "schema" /\ SchemaNext /\ UNCHANGED vars
    /\ UNCHANGED guard

(* Fairness of the one that moves: SteadyLoad; and a session that goes on  *)
(* by itself and an operator who attends to a report that stays.           *)
Breaking(A) == guard = "breaker" /\ A
Migrating(A) == guard = "schema" /\ A

MCSpec ==
    /\ MCInit
    /\ [][MCNext]_<<vars, schemaVars, guard>>
    /\ \A c \in Callers : WF_vars(Breaking(Finish(c))) /\ WF_vars(Breaking(Admit(c)))
    /\ WF_vars(Breaking(Cool))
    /\ WF_schemaVars(Migrating(NextStatement \/ EndSession))
    /\ \A s \in Services : SF_schemaVars(Migrating(Follow(s)))
    /\ SF_schemaVars(Migrating(\E s \in Services : Repair(s)))

=============================================================================
