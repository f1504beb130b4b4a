------------------------------- MODULE Schema -------------------------------
(***************************************************************************)
(* The schema as the services find it: objects that migrations, applied by *)
(* hand with psql, bring to the form the code relies on, and the ladders   *)
(* of probes from which each service's /health, and the two charge routes, *)
(* tell whether they may serve.                                            *)
(*                                                                         *)
(* psql sends a file statement by statement, each committing alone, and    *)
(* goes on after an error.  IF NOT EXISTS looks at names only, so a        *)
(* same-named object of another shape is left in place; the migrations     *)
(* that assert what they left say so, the others do not.  An operator      *)
(* reads a report, applies the migration it names, repairs by hand what    *)
(* the notes of the migrations leave to him, and makes mistakes: files out *)
(* of order, files again, sessions that end half way.                      *)
(*                                                                         *)
(* A group of columns that one statement adds is one object.  The probe is *)
(* taken at one moment; ReadinessCache has what its cache does to it.      *)
(***************************************************************************)
EXTENDS Integers, SequencesExt

CONSTANT MaxMishaps     \* bound: mistakes, and rows that go bad

VARIABLES
    form,       \* object |-> what the database has by that name
    dirty,      \* tables holding rows that forbid their index or check
    psql,       \* the operator's session: the file, the statement it is at,
                \* whether one has raised an error; file 0 is no session
    had,        \* history: what was sound when the session began
    mishaps

schemaVars == <<form, dirty, psql, had, mishaps>>

Triggers ==
    {"audit_logs_append_only", "audit_logs_no_truncate",
     "decision_events_append_only", "decision_events_no_truncate",
     "disclosures_freeze_delivered", "disclosures_no_truncate"}
Tables == {"decision_events", "disclosures"}
Indexes ==
    {"uq_loans_app", "uq_offers_app", "uq_disclosures_offer",
     "uq_decision_events_request", "idempotency_key_uniq",
     "processor_idempotency_key_uniq"}
Columns ==
    {"monthly_debt", "continuation_token", "continuation_token_expires_at",
     "submitted_by_user_id", "ssn_last4", "document_body", "note_rate",
     "decision_event_id", "request_id", "amount_minor", "idempotency_columns"}
Objects ==
    Triggers \cup Tables \cup Indexes \cup Columns \cup
    {"status", "dob_readable", "assistant_runs", "payment_applications",
     "v_disclosure_provenance", "no_cvv"}

(* stand-in: the name with another definition; for the view an older body, *)
(* for the absence of payments.cvv the column, for a table other columns.  *)
(* inert: the definition, not enforced: NOT VALID, disabled, no NOT NULL   *)
(* DEFAULT, a table without its checks.                                    *)
Odd(o) ==
    CASE o \in Triggers -> {"inert"}
      [] o \in {"status", "dob_readable"} \cup Tables -> {"stand-in", "inert"}
      [] OTHER -> {"stand-in"}

There(o) == form[o] # "absent"
Sound(o) == form[o] = "sound"
SoundOnes == {o \in Objects : Sound(o)}

-----------------------------------------------------------------------------
(* A file is a sequence of statements: what one does, to which objects,    *)
(* which must be there for it to run, and the rows that make it fail.      *)

Statement(do, on, needs, rows) ==
    [do |-> do, on |-> on, needs |-> needs, rows |-> rows]

(* ADD COLUMN and CREATE INDEX, IF NOT EXISTS: each object that is absent. *)
Add(on, needs) == Statement("add", on, needs, "none")
AddOver(o, needs, rows) == Statement("add", {o}, needs, rows)
Asserted(on) == Statement("assert", on, {}, "none")

(* DROP IF EXISTS, then CREATE: the two statements of a trigger or a view. *)
Remake(o, needs) ==
    <<Statement("drop", {o}, {}, "none"), Statement("make", {o}, needs, "none")>>

Chain == {"decision_event_id", "disclosures", "decision_events"}

Migration0002 == <<Statement("put-back", {"no_cvv"}, {}, "none")>>

Migration0004 ==
    <<Statement("create", {"decision_events"}, {}, "none")>>
    \o Remake("decision_events_append_only", {"decision_events"})
    \o Remake("decision_events_no_truncate", {"decision_events"})

(* The index by its name is dropped first.                                 *)
Migration0005 ==
    <<Add({"request_id"}, {"decision_events"})>>
    \o Remake("uq_decision_events_request", {"decision_events", "request_id"})

Migration0006 == <<Add({"monthly_debt"}, {})>>
Migration0007 == <<AddOver("uq_loans_app", {}, "two-loans")>>
Migration0008 == <<Add({"continuation_token"}, {})>>
Migration0009 == <<Add({"continuation_token_expires_at"}, {})>>
Migration0010 == <<AddOver("uq_offers_app", {}, "two-offers")>>

(* Slip: the check is written so that it renders otherwise.                *)
OtherExpression ==
    <<Statement("make-old", {"dob_readable"}, {}, "none"),
      Asserted({"dob_readable"})>>

(* One block, whose handler of duplicate_object asserts what it met.       *)
Migration0011 ==
    <<AddOver("dob_readable", {}, "unreadable-dob"), Asserted({"dob_readable"})>>

(* Slip: the edge from the offer after the table.                          *)
EdgeAfterTable ==
    <<Statement("create", {"disclosures", "document_body"}, {"decision_events"},
                "none"),
      Add({"decision_event_id"}, {"decision_events"}),
      AddOver("uq_disclosures_offer", {"disclosures"}, "two-disclosures")>>
    \o Remake("disclosures_freeze_delivered", {"disclosures"})
    \o Remake("disclosures_no_truncate", {"disclosures"})
    \o Remake("v_disclosure_provenance", Chain)

(* The table has document_body when this file creates it.                  *)
Migration0012 ==
    <<Add({"decision_event_id"}, {"decision_events"}),
      Statement("create", {"disclosures", "document_body"}, {"decision_events"},
                "none"),
      AddOver("uq_disclosures_offer", {"disclosures"}, "two-disclosures")>>
    \o Remake("disclosures_freeze_delivered", {"disclosures"})
    \o Remake("disclosures_no_truncate", {"disclosures"})
    \o Remake("v_disclosure_provenance", Chain)

Migration0013 ==
    <<Add({"document_body"}, {"disclosures"}), Asserted({"document_body"})>>
Migration0014 == <<Add({"note_rate"}, {}), Asserted({"note_rate"})>>

(* A body without disclosure_decision_outcome.                             *)
Migration0015 ==
    <<Statement("drop", {"v_disclosure_provenance"}, {}, "none"),
      Statement("make-old", {"v_disclosure_provenance"}, Chain, "none")>>
Migration0016 == Remake("v_disclosure_provenance", Chain)
Migration0017 == <<Add({"submitted_by_user_id"}, {})>>

(* The statements that give status its contract work on any column of the  *)
(* name; the first assertion is of the columns, the second of the indexes. *)
Migration0018 ==
    LET columns == {"idempotency_columns", "status", "amount_minor"}
        key == "idempotency_key_uniq"
        processorKey == "processor_idempotency_key_uniq"
    IN  <<Add(columns, {}),
          Statement("enforce", {"status"}, {"status"}, "none"),
          Asserted(columns),
          Add({key}, {"idempotency_columns"}),
          Add({processorKey}, {"idempotency_columns"}),
          Asserted({key, processorKey})>>

(* The backfill of amount_minor needs the column, of its type.             *)
(* Slip: the table is taken as it is found.                                *)
ApplicationsUnasserted ==
    <<Statement("create", {"payment_applications"}, {}, "none"),
      Asserted({"amount_minor"})>>
Migration0019 ==
    <<Statement("create", {"payment_applications"}, {}, "none"),
      Asserted({"amount_minor"}), Asserted({"payment_applications"})>>

Migration0020 ==
    <<Statement("purge", {"no_cvv"}, {}, "none"), Asserted({"no_cvv"})>>
Migration0021 ==
    <<Statement("create", {"assistant_runs"}, {}, "none"),
      Asserted({"assistant_runs"})>>
Migration0022 ==
    Remake("audit_logs_append_only", {}) \o Remake("audit_logs_no_truncate", {})
Migration0023 == <<Add({"ssn_last4"}, {}), Asserted({"ssn_last4"})>>

Migrations == {2} \cup 4 .. 23
Script ==
    [m \in Migrations |->
        CASE m = 2 -> Migration0002   [] m = 4 -> Migration0004
          [] m = 5 -> Migration0005   [] m = 6 -> Migration0006
          [] m = 7 -> Migration0007   [] m = 8 -> Migration0008
          [] m = 9 -> Migration0009   [] m = 10 -> Migration0010
          [] m = 11 -> Migration0011  [] m = 12 -> Migration0012
          [] m = 13 -> Migration0013  [] m = 14 -> Migration0014
          [] m = 15 -> Migration0015  [] m = 16 -> Migration0016
          [] m = 17 -> Migration0017  [] m = 18 -> Migration0018
          [] m = 19 -> Migration0019  [] m = 20 -> Migration0020
          [] m = 21 -> Migration0021  [] m = 22 -> Migration0022
          [] m = 23 -> Migration0023]

Declares ==
    [m \in Migrations |->
        UNION {st.on : st \in {t \in ToSet(Script[m]) : t.do # "assert"}}]

(* The file to apply for an object: the newest that declares it.           *)
FileOf ==
    [o \in Objects |-> CHOOSE m \in Migrations :
        /\ o \in Declares[m]
        /\ \A n \in Migrations : o \in Declares[n] => n <= m]

-----------------------------------------------------------------------------
(* The ladders.  A rung looks at a name, or at the definition.             *)

Services == {"payment", "servicing", "origination", "disclosure", "decision"}

ByName(o) == [object |-> o, by |-> "name"]
ByShape(o) == [object |-> o, by |-> "shape"]
Shapes(s) == [i \in 1 .. Len(s) |-> ByShape(s[i])]

_payments_idempotency_ready ==
    Shapes(<<"idempotency_columns", "amount_minor", "status",
             "idempotency_key_uniq", "processor_idempotency_key_uniq">>)
_payment_applications_ready == Shapes(<<"payment_applications">>)
_no_stored_sad_ready == Shapes(<<"no_cvv">>)

PaymentLadder ==
    _payments_idempotency_ready \o _payment_applications_ready
    \o _no_stored_sad_ready
ServicingLadder == Shapes(<<"note_rate">>) \o PaymentLadder

ApplicationRungs ==
    <<ByName("monthly_debt"), ByName("uq_loans_app"),
      ByName("continuation_token"), ByName("continuation_token_expires_at")>>
    \o Shapes(<<"submitted_by_user_id", "dob_readable">>)

(* The triggers are asked whether they are enabled.                        *)
RecordRungs ==
    Shapes(<<"ssn_last4", "document_body", "note_rate", "assistant_runs",
             "audit_logs_append_only", "audit_logs_no_truncate">>)

OriginationLadder == ApplicationRungs \o RecordRungs

DisclosureLadder ==
    <<ByShape("uq_offers_app"), ByName("decision_event_id"),
      ByName("disclosures"), ByShape("uq_disclosures_offer"),
      ByName("disclosures_freeze_delivered"), ByShape("document_body"),
      ByShape("v_disclosure_provenance")>>

DecisionLadder ==
    <<ByName("request_id"), ByName("uq_decision_events_request"),
      ByName("decision_events_append_only"),
      ByName("decision_events_no_truncate")>>

Ladder ==
    [s \in Services |->
        CASE s = "payment" -> PaymentLadder
          [] s = "servicing" -> ServicingLadder
          [] s = "origination" -> OriginationLadder
          [] s = "disclosure" -> DisclosureLadder
          [] s = "decision" -> DecisionLadder]

Stands(rung) ==
    IF rung.by = "name" THEN There(rung.object) ELSE Sound(rung.object)
Ready(s) == \A rung \in ToSet(Ladder[s]) : Stands(rung)

(* schema_not_ready:<object>, the first rung that does not stand.          *)
Reported(s) ==
    Ladder[s][SelectInSeq(Ladder[s], LAMBDA rung : ~ Stands(rung))].object

(* What the service's statements use, on the ladder or not: origination    *)
(* boards from offers' edge and the disclosure's decision.                 *)
ReliesOn ==
    [s \in Services |->
        {rung.object : rung \in ToSet(Ladder[s])} \cup
        CASE s = "origination" -> Chain
          [] s = "disclosure" -> {"decision_events", "disclosures_no_truncate"}
          [] s = "decision" -> {"decision_events"}
          [] OTHER -> {}]

-----------------------------------------------------------------------------
(* A volume of the time of migration n, which db/init created then with    *)
(* all that was declared by it.                                            *)
Volume(n) ==
    [o \in Objects |->
        CASE o = "no_cvv" -> IF n < 20 THEN "stand-in" ELSE "sound"
          [] o = "document_body" -> IF n < 13 THEN "absent" ELSE "sound"
          [] o = "v_disclosure_provenance" ->
                IF n < 12 THEN "absent" ELSE IF n < 16 THEN "stand-in" ELSE "sound"
          [] OTHER -> IF FileOf[o] <= n THEN "sound" ELSE "absent"]

(* What the statements of o's migrations need of the database.             *)
HostsOf ==
    LET all == UNION {ToSet(Script[m]) : m \in Migrations}
    IN  [o \in Objects |-> UNION {st.needs : st \in {t \in all : o \in t.on}}]
Hosts == UNION {HostsOf[o] : o \in Objects}

(* The same after one hand-made change, before or after the migrations: an *)
(* object of another shape, or not enforced, or missing and nothing's host.*)
Meddled(n) ==
    LET v == Volume(n)
        hosted == {o \in Objects : \A h \in HostsOf[o] : v[h] # "absent"}
    IN  {v} \cup
        {[v EXCEPT ![c[1]] = c[2]] : c \in
            {p \in hosted \X {"absent", "stand-in", "inert"} :
                \/ p[2] \in Odd(p[1])
                \/ p[2] = "absent" /\ p[1] \notin Hosts}}

(* What a database may be found to hold: of each object one of its forms,  *)
(* a column only where the table it is in or refers to is, and disclosures *)
(* as 0012 has it only with the column of offers that 0012 makes before it.*)
Databases ==
    {f \in [Objects -> {"absent", "sound", "stand-in", "inert"}] :
        /\ \A o \in Objects : f[o] \in {"absent", "sound"} \cup Odd(o)
        /\ \A p \in {<<"request_id", "decision_events">>,
                      <<"decision_event_id", "decision_events">>,
                      <<"document_body", "disclosures">>} :
               f[p[1]] # "absent" => f[p[2]] # "absent"
        /\ f["disclosures"] = "sound" => f["decision_event_id"] # "absent"}

RowsUnder ==
    [r \in {"two-loans", "two-offers", "unreadable-dob", "two-disclosures"} |->
        CASE r = "two-loans" -> "uq_loans_app"
          [] r = "two-offers" -> "uq_offers_app"
          [] r = "unreadable-dob" -> "dob_readable"
          [] r = "two-disclosures" -> "uq_disclosures_offer"]

NoSession == [file |-> 0, at |-> 0, raised |-> FALSE]
Idle == psql.file = 0

SchemaInit(volumes) ==
    /\ form \in volumes
    /\ dirty = {}
    /\ psql = NoSession /\ had = {} /\ mishaps = 0

-----------------------------------------------------------------------------
Begin(m) ==
    /\ Idle
    /\ psql' = [file |-> m, at |-> 1, raised |-> FALSE]
    /\ had' = SoundOnes
    /\ UNCHANGED <<form, dirty>>

Running == ~ Idle /\ psql.at <= Len(Script[psql.file])

(* IF NOT EXISTS finds the name.                                           *)
Skipped(st) ==
    \/ st.do = "create" /\ \E o \in st.on : There(o)
    \/ st.do = "add" /\ \A o \in st.on : There(o)

(* A table of other columns takes one more, or a trigger; what refers to   *)
(* its columns is refused.                                                 *)
Referring == {"decision_event_id", "disclosures", "uq_decision_events_request",
              "uq_disclosures_offer", "v_disclosure_provenance"}

Refused(st) ==
    /\ st.on \cap Referring # {} /\ st.do # "drop"
    /\ \E o \in st.needs \cap Tables : form[o] = "stand-in"

Raises(st) ==
    \/ \E o \in st.needs : ~ There(o) /\ ~ (st.do = "create" /\ Skipped(st))
    \/ ~ Skipped(st) /\ (Refused(st) \/ (st.do = "add" /\ st.rows \in dirty))
    \/ st.do = "assert" /\ ~ (\A o \in st.on : Sound(o))

(* What a statement that does not raise leaves of an object it names.      *)
Left(st, o) ==
    CASE st.do = "add" /\ ~ There(o) -> "sound"
      [] st.do = "create" /\ \A p \in st.on : ~ There(p) -> "sound"
      [] st.do = "enforce" /\ form[o] = "inert" -> "sound"
      [] st.do = "drop" -> "absent"
      [] st.do \in {"make", "purge"} -> "sound"
      [] st.do \in {"make-old", "put-back"} -> "stand-in"
      [] OTHER -> form[o]

NextStatement ==
    /\ Running
    /\ LET st == Script[psql.file][psql.at]
       IN  /\ psql' = [psql EXCEPT !.at = @ + 1, !.raised = @ \/ Raises(st)]
           /\ form' = IF Raises(st) THEN form
                      ELSE [o \in Objects |->
                                IF o \in st.on THEN Left(st, o) ELSE form[o]]
    /\ UNCHANGED <<dirty, had, mishaps>>

EndSession ==
    /\ ~ Idle /\ ~ Running
    /\ psql' = NoSession /\ had' = {}
    /\ UNCHANGED <<form, dirty, mishaps>>

(* The operator acts on a report: he applies the file it names ...         *)
Follow(s) ==
    /\ ~ Ready(s)
    /\ Begin(FileOf[Reported(s)])
    /\ UNCHANGED mishaps

(* ... or does by hand what the file's notes and errors ask of him: he     *)
(* converts or drops what is there by that name, and repairs the rows in   *)
(* its way.                                                                *)
Repair(s) ==
    /\ Idle /\ ~ Ready(s)
    /\ LET o == Reported(s)
           rows == {r \in dirty : RowsUnder[r] = o}
       IN  /\ o # "no_cvv"
           /\ There(o) \/ rows # {}
           /\ \E f \in {"sound"} \cup (IF o \in Hosts THEN {} ELSE {"absent"}) :
                  form' = IF There(o) THEN [form EXCEPT ![o] = f] ELSE form
           /\ dirty' = dirty \ rows
    /\ UNCHANGED <<psql, had, mishaps>>

(* Any file, for no reason.                                                *)
Stray(m) ==
    /\ mishaps < MaxMishaps
    /\ Begin(m)
    /\ mishaps' = mishaps + 1

SessionLost ==
    /\ Running /\ mishaps < MaxMishaps
    /\ psql' = NoSession /\ had' = {}
    /\ mishaps' = mishaps + 1
    /\ UNCHANGED <<form, dirty>>

(* The rows an index or a check would have refused.                        *)
RowsGoBad(r) ==
    /\ mishaps < MaxMishaps /\ r \notin dirty
    /\ ~ Sound(RowsUnder[r])
    /\ dirty' = dirty \cup {r}
    /\ mishaps' = mishaps + 1
    /\ UNCHANGED <<form, psql, had>>

(* Nothing is reported, and nobody acts.                                   *)
Settled ==
    /\ Idle /\ \A s \in Services : Ready(s)
    /\ UNCHANGED schemaVars

SchemaNext ==
    \/ Settled
    \/ NextStatement \/ EndSession \/ SessionLost
    \/ \E s \in Services : Follow(s) \/ Repair(s)
    \/ \E m \in Migrations : Stray(m)
    \/ \E r \in DOMAIN RowsUnder : RowsGoBad(r)

SchemaSpec == SchemaInit(Databases) /\ [][SchemaNext]_schemaVars

-----------------------------------------------------------------------------
NameOnly ==
    {<<"origination", o>> : o \in
        {"monthly_debt", "uq_loans_app", "continuation_token",
         "continuation_token_expires_at"} \cup Chain}
    \cup {<<"disclosure", o>> : o \in Chain \cup {"disclosures_freeze_delivered"}}
    \cup {<<"decision", o>> : o \in
        {"request_id", "uq_decision_events_request", "decision_events",
         "decision_events_append_only", "decision_events_no_truncate"}}

(* A service that reports itself ready finds every object it relies on     *)
(* there, whatever has been applied, swallowed, dropped half way or made   *)
(* by hand; and in the form it relies on, except where its rung asks for a *)
(* name only, or it has none but that of an object made after it.  There   *)
(* is no rung for the truncate trigger of disclosures; and origination,    *)
(* which has none for offers.decision_event_id either, may miss it beside  *)
(* a hand-made disclosures (disclosure-service config.py 214-233,          *)
(* origination-service config.py 233-467, decision-service config.py       *)
(* 224-255).                                                               *)
ReadyIsSound ==
    \A s \in Services : Ready(s) =>
        \A o \in ReliesOn[s] \ {"disclosures_no_truncate"} :
            \/ Sound(o)
            \/ There(o) /\ <<s, o>> \in NameOnly
            \/ /\ s = "origination" /\ o \in Chain \ {"disclosures"}
               /\ ~ Sound("disclosures")

(* IF NOT EXISTS without an assertion behind it.                           *)
Unasserted == {"monthly_debt", "uq_loans_app", "continuation_token",
               "continuation_token_expires_at", "uq_offers_app",
               "decision_event_id", "uq_disclosures_offer",
               "submitted_by_user_id", "request_id", "decision_events",
               "disclosures"}

(* The column that 0012 has in its CREATE TABLE and leaves to 0013 where   *)
(* the table is there already.                                             *)
LeftToNext == IF psql.file = 12 THEN {"document_body"} ELSE {}

(* A file that ended without an error has left what it declares in the     *)
(* declared form, unless it swallowed a stand-in it does not assert, and   *)
(* has undone nothing: not so 0002, and 0015 after 0016 (the migrations'   *)
(* RAISE EXCEPTION "never a NOTICE", 0018, 0019, 0021).                    *)
CleanRunConverges ==
    ~ Idle /\ ~ Running /\ ~ psql.raised /\ psql.file \notin {2, 15} =>
        /\ \A o \in (Declares[psql.file] \ LeftToNext) :
               Sound(o) \/ (o \in Unasserted /\ There(o))
        /\ had \subseteq SoundOnes

(* On a volume that has decision_events, and where neither it nor          *)
(* disclosures is a table of other columns, the reports lead an operator   *)
(* who attends to each of them to one over which every service is ready:   *)
(* each names an object whose file makes it, what the file needs is        *)
(* reported by some service, and no file a report names undoes another's   *)
(* ("the first thing reported is the first thing to apply",                *)
(* disclosure-service config.py 121).                                      *)
ReportsLeadToReady ==
    (\A o \in Tables : form[o] # "stand-in") => <>[](\A s \in Services : Ready(s))

=============================================================================
