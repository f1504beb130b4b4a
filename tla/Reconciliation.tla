--------------------------- MODULE Reconciliation ---------------------------
(***************************************************************************)
(* One run of the settlement reconciliation beside live intake: the        *)
(* settlement file is read whole or not at all, the payments table is read *)
(* twice in separate statements, rows are paired with captures in two      *)
(* greedy passes, double charges are looked for on the ledger side alone,  *)
(* and the run ends with a report and an exit code, or aborts with nothing.*)
(*                                                                         *)
(* Amounts are minor units.  An instant stands for a time of day: a day    *)
(* has DayLength of them.  Whatever makes a file, a row or a setting       *)
(* unusable is one step, Abort: the parsers refuse and never repair.       *)
(***************************************************************************)
EXTENDS Integers, FiniteSetsExt

CONSTANTS
    Entries,     \* what may be posted: records of a loan, an amount, an instant
    Settlements, \* the files: sets of records ref, loan, amount, day, type; a ref is
                 \* the processor's and, among rows that share it, the row's place
    Windows,     \* explicit from/to pairs an operator may give
    DayLength,
    Tolerance,   \* --tolerance-days
    Gap,         \* DUPLICATE_SUSPECT_WINDOW_SECONDS, in instants
    Alert,       \* RECONCILIATION_ALERT_THRESHOLD_MINOR
    MaxRows      \* bound: rows of the payments table

SettlementRow == [ref : Int, loan : Int, amount : Int, day : Int,
                  type : {"capture", "refund"}]

ASSUME ReconciliationAssumption ==
    /\ DayLength \in Nat \ {0} /\ Tolerance \in Nat
    /\ Gap \in Nat \ {0} /\ Alert \in Nat \ {0}
    /\ Entries \subseteq [loan : Int, amount : Int, at : Int]
    /\ Windows \subseteq [from : Int, to : Int]
    /\ \A f \in Settlements :
        /\ f # {} /\ IsFiniteSet(f) /\ f \subseteq SettlementRow
        /\ \A c, d \in f : c.ref = d.ref => c = d

VARIABLES
    payments,    \* the table, its rows numbered as they were inserted
    file,        \* the settlement file's rows, once read
    job,         \* "idle", "loaded", "pooled", "reported", "aborted"
    window,
    pool,        \* the first read: candidates for matching
    report

reconciliationVars == <<payments, file, job, window, pool, report>>

-----------------------------------------------------------------------------
(* Days, windows and the keys rows are sorted by.                          *)

DayOf(row) == row.at \div DayLength

Distance(m, n) == IF m < n THEN n - m ELSE m - n

InWindow(day) == window.from <= day /\ day <= window.to

Widened(days) == [from |-> window.from - days, to |-> window.to + days]

(* A tuple of the order Python gives tuples; False sorts before True.      *)
Before(s, t) ==
    \E i \in DOMAIN s : s[i] < t[i] /\ \A j \in 1..(i - 1) : s[j] = t[j]

Bit(b) == IF b THEN 1 ELSE 0

(* What comes last of S in the order of its keys.  A loop over a sorted    *)
(* list is a fold whose last element is folded in over all before it.      *)
LastBy(S, key) == CHOOSE x \in S : \A y \in S \ {x} : Before(key[y], key[x])

(* load_ledger                                                             *)
LoadLedger(w) ==
    {row \in payments : w.from <= DayOf(row) /\ DayOf(row) <= w.to}

-----------------------------------------------------------------------------
(* _match                                                                  *)

Within(row, c) == Distance(c.day, DayOf(row)) <= Tolerance

(* Slip: the first candidate in date order, not the nearest.               *)
RankByDate(row, c) == <<c.day, c.ref>>

Rank(row, c) ==
    <<Distance(c.day, DayOf(row)), Bit(~InWindow(c.day)), c.day, c.ref>>

Best(row, S) == CHOOSE c \in S : \A d \in S \ {c} : Before(Rank(row, c), Rank(row, d))

RowsOf(pairs) == {p.row : p \in pairs}
CapturesOf(pairs) == {p.capture : p \in pairs}

(* A row takes the best of what is still unclaimed.                        *)
Take(row, pairs, captures, eligible) ==
    LET free == {c \in captures \ CapturesOf(pairs) : <<row, c>> \in eligible}
    IN IF free = {} THEN pairs ELSE pairs \cup {[row |-> row, capture |-> Best(row, free)]}

Claim(rows, captures, eligible, key) ==
    MapThenFoldSet(LAMBDA row, pairs : Take(row, pairs, captures, eligible), {},
                   LAMBDA row : row, LAMBDA S : LastBy(S, key), rows)

SameTuple(row, c) == row.loan = c.loan /\ row.amount = c.amount /\ Within(row, c)
SameLoan(row, c) == row.loan = c.loan /\ Within(row, c)

Exact(rows, captures) ==
    Claim(rows, captures, {p \in rows \X captures : SameTuple(p[1], p[2])},
          [r \in rows |-> <<r.loan, r.amount, Bit(~InWindow(DayOf(r))), r.at, r.id>>])

Mismatched(rows, captures) ==
    Claim(rows, captures, {p \in rows \X captures : SameLoan(p[1], p[2])},
          [r \in rows |-> <<r.loan, Bit(~InWindow(DayOf(r))), r.at, r.id>>])

-----------------------------------------------------------------------------
(* _find_duplicate_suspects                                                *)

(* Neighbours among the rows of one loan and amount, close in time.        *)
Retries(rows) ==
    {p \in rows \X rows :
        LET key(r) == <<r.at, r.id>> IN
        /\ p[1].loan = p[2].loan /\ p[1].amount = p[2].amount
        /\ Before(key(p[1]), key(p[2]))
        /\ p[2].at - p[1].at <= Gap
        /\ ~\E r \in rows :
            /\ r.loan = p[1].loan /\ r.amount = p[1].amount
            /\ Before(key(p[1]), key(r)) /\ Before(key(r), key(p[2]))}

Touches(p, rows) == p[1] \in rows \/ p[2] \in rows

Disjoint(p, q) == {p[1], p[2]} \cap {q[1], q[2]} = {}

(* A pair is claimed unless one of its rows already is.                    *)
Join(p, claimed) ==
    IF \A q \in claimed : Disjoint(p, q) THEN claimed \cup {p} ELSE claimed

ClaimPairs(pairs, key) ==
    MapThenFoldSet(Join, {}, LAMBDA p : p, LAMBDA S : LastBy(S, key), pairs)

(* Slip: claimed from left to right.                                       *)
SuspectsInOrder(rows, inWindow) ==
    ClaimPairs(Retries(rows), [p \in Retries(rows) |-> <<p[1].at, p[1].id>>])

(* Pairs that touch the window claim their rows first.                     *)
Suspects(rows, inWindow) ==
    ClaimPairs(Retries(rows),
        [p \in Retries(rows) |-> <<Bit(~Touches(p, inWindow)), p[1].at, p[1].id>>])

-----------------------------------------------------------------------------
(* The figures and the status of a report.                                 *)

Total(rows) == SumFunction([r \in rows |-> r.amount])

Captures(rows) == {r \in rows : r.type = "capture"}
Refunds(rows) == {r \in rows : r.type = "refund"}
OfLoan(rows, l) == {r \in rows : r.loan = l}

(* Slip: a refund counts like a capture.                                   *)
VarianceUnsigned(ledger, settled, l) ==
    Total(OfLoan(ledger, l)) - Total(OfLoan(settled, l))

Variance(ledger, settled, l) ==
    Total(OfLoan(ledger, l))
        - (Total(OfLoan(Captures(settled), l)) - Total(OfLoan(Refunds(settled), l)))

LoansOf(rows) == {r.loan : r \in rows}

PerLoanAbsolute(ledger, settled) ==
    SumFunction([l \in LoansOf(ledger) \cup LoansOf(settled) |->
                    Distance(Variance(ledger, settled, l), 0)])

Breaks(r) == r.inLedgerOnly \cup r.inFileOnly \cup r.refunds \cup r.mismatched

(* Slip: the duplicates do not reach the status.                           *)
ExitOnBreaks(r) ==
    IF Breaks(r) # {} \/ r.variance > Alert THEN "breaks" ELSE "clean"

Exit(r) ==
    IF Breaks(r) # {} \/ r.duplicates # {} \/ r.variance > Alert
    THEN "breaks" ELSE "clean"

(* A mismatch is this window's when either side of it is.                  *)
Reportable(p) == InWindow(DayOf(p.row)) \/ InWindow(p.capture.day)

InWindowRows(rows) == {r \in rows : InWindow(DayOf(r))}
InWindowFile == {c \in file : InWindow(c.day)}

Report(rows, again) ==
    LET candidates == {c \in Captures(file) :
                        LET w == Widened(Tolerance) IN w.from <= c.day /\ c.day <= w.to}
        exact == Exact(rows, candidates)
        left == rows \ RowsOf(exact)
        unclaimed == candidates \ CapturesOf(exact)
        mismatched == Mismatched(left, unclaimed)
    IN [exact |-> exact,
        mismatched |-> {p \in mismatched : Reportable(p)},
        inLedgerOnly |-> InWindowRows(left \ RowsOf(mismatched)),
        inFileOnly |-> {c \in unclaimed \ CapturesOf(mismatched) : InWindow(c.day)},
        refunds |-> Refunds(InWindowFile),
        duplicates |-> {p \in Suspects(again, InWindowRows(rows)) :
                            Touches(p, InWindowRows(rows))},
        variance |-> PerLoanAbsolute(InWindowRows(rows), InWindowFile)]

-----------------------------------------------------------------------------
NoWindow == [from |-> 0, to |-> 0]
NoReport == <<>>

ReconciliationInit ==
    /\ payments = {} /\ file = {}
    /\ job = "idle" /\ window = NoWindow /\ pool = {} /\ report = NoReport

(* Intake posts a payment.  Its created_at is when its transaction began,  *)
(* which may be before that of a row that was visible earlier.             *)
Post(e) ==
    LET id == Cardinality(payments) + 1 IN
    /\ id <= MaxRows
    /\ job \notin {"reported", "aborted"}
    /\ payments' = payments \cup
        {[id |-> id, loan |-> e.loan, amount |-> e.amount, at |-> e.at]}
    /\ UNCHANGED <<file, job, window, pool, report>>

(* load_settlement, and the window: given, or the file's own range.        *)
Load ==
    /\ job = "idle"
    /\ job' = "loaded"
    /\ file' \in Settlements
    /\ LET days == {c.day : c \in file'}
       IN window' \in Windows \cup {[from |-> Min(days), to |-> Max(days)]}
    /\ UNCHANGED <<payments, pool, report>>

ReadPool ==
    /\ job = "loaded"
    /\ job' = "pooled"
    /\ pool' = LoadLedger(Widened(Tolerance))
    /\ UNCHANGED <<payments, file, window, report>>

(* The second read, for the double charges, and all that is computed.      *)
Conclude ==
    /\ job = "pooled"
    /\ job' = "reported"
    /\ report' = Report(pool, LoadLedger(Widened(Gap \div DayLength + 1)))
    /\ UNCHANGED <<payments, file, window, pool>>

(* An unusable file, window, row or setting, or a query that fails: the    *)
(* run exits 2 and writes nothing.                                         *)
Abort ==
    /\ job \in {"idle", "loaded", "pooled"}
    /\ job' = "aborted"
    /\ file' = {} /\ window' = NoWindow /\ pool' = {}
    /\ UNCHANGED <<payments, report>>

ReconciliationNext ==
    \/ \E e \in Entries : Post(e)
    \/ Load
    \/ ReadPool
    \/ Conclude
    \/ Abort

ReconciliationSpec == ReconciliationInit /\ [][ReconciliationNext]_reconciliationVars

-----------------------------------------------------------------------------
Ledger == InWindowRows(pool)
InWindowCaptures == Captures(InWindowFile)
Pairs == report.exact \cup report.mismatched

EachRowExplainedOnce ==
    job = "reported" =>
        /\ \A p, q \in Pairs : p.row = q.row <=> p.capture = q.capture
        /\ \A r \in Ledger : r \in RowsOf(Pairs) <=> r \notin report.inLedgerOnly
        /\ \A c \in InWindowCaptures :
            c \in CapturesOf(Pairs) <=> c \notin report.inFileOnly
        /\ \A r \in report.inLedgerOnly, c \in report.inFileOnly : ~SameLoan(r, c)
        /\ \A p \in report.exact : \A c \in report.inFileOnly :
            SameTuple(p.row, c) =>
                Distance(p.capture.day, DayOf(p.row)) <= Distance(c.day, DayOf(p.row))

(* What crosses the edge of the window counts on one side only.            *)
Crossing(l) ==
    {p \in Pairs : p.row.loan = l
        /\ (InWindow(DayOf(p.row)) # InWindow(p.capture.day))}

VarianceIsExplained ==
    job = "reported" =>
        \A l \in LoansOf(Ledger) \cup LoansOf(InWindowFile) :
            LET inside == {p \in report.mismatched :
                            p.row.loan = l /\ p \notin Crossing(l)}
                early == {p \in Crossing(l) : InWindow(DayOf(p.row))}
            IN Variance(Ledger, InWindowFile, l) =
                Total(OfLoan(report.inLedgerOnly, l))
                - Total(OfLoan(report.inFileOnly, l))
                + Total(OfLoan(report.refunds, l))
                + SumFunction([p \in inside |-> p.row.amount - p.capture.amount])
                + SumFunction([p \in early |-> p.row.amount])
                - SumFunction([p \in Crossing(l) \ early |-> p.capture.amount])

(* Every row of the window is explained once: paired or reported missing,  *)
(* never both and never twice; no two rows are reported missing that the   *)
(* tolerance would have paired, nor is a nearer capture of the same amount *)
(* left for one across the window's edge (_match).  And a loan's variance  *)
(* is its breaks and the pairs across that edge, to the cent: nothing else *)
(* can make it, so a variance with no break has only a boundary match      *)
(* behind it (ReconciliationResult.exit_code).                             *)
ReportAddsUp == EachRowExplainedOnce /\ VarianceIsExplained

(* Whenever a row of the window follows or precedes its like within the    *)
(* bound, one of the two is in a reported pair: a pair outside the window  *)
(* does not take the row that the window's own retry needed.               *)
RetryIsReported ==
    \A p \in Retries(payments) :
        Touches(p, Ledger) => \E q \in report.duplicates : ~Disjoint(p, q)

(* Every row has its capture and every capture its row, of the same loan   *)
(* and amount; no refund and no retry was in the window; and the loans are *)
(* off by no more than the threshold between them.                         *)
AllIsWell ==
    /\ \A r \in Ledger : \E c \in Captures(file) : SameTuple(r, c)
    /\ \A c \in InWindowFile : \E r \in pool : SameTuple(r, c) /\ c.type = "capture"
    /\ \A p \in Retries(payments) : ~Touches(p, Ledger)
    /\ \A L \in SUBSET (LoansOf(Ledger) \cup LoansOf(InWindowFile)) :
        Distance(SumFunction([l \in L |-> Variance(Ledger, InWindowFile, l)]), 0) <= Alert

(* A retry is never hidden by another pair's (_find_duplicate_suspects),   *)
(* and a clean exit is not a matter of netting, of a tolerance or of what  *)
(* was posted while the job ran (exit_code).                               *)
NothingIsHidden ==
    job = "reported" => RetryIsReported /\ (Exit(report) = "clean" => AllIsWell)

=============================================================================
