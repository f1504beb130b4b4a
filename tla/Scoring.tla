------------------------------- MODULE Scoring -------------------------------
(***************************************************************************)
(* The figures of a retrieval run (rag_eval/metrics.py, and the threshold  *)
(* of run.py): which rows of the gold set count, when one is right, the    *)
(* threshold calibrated on them, and what is added up.                     *)
(*                                                                         *)
(* A row of the run is the gold row, the ids of the chunks ranked for it,  *)
(* and the score of the first.  Scores are even, so that the midpoint of   *)
(* two is a whole number and the next float after s is s + 1.              *)
(***************************************************************************)
EXTENDS Integers, Sequences, FiniteSetsExt

Unscorable == "clarification"

(* A row that names no class has the class its answerability implies.      *)
ClassOf(row) ==
    IF row.class # "none" THEN row.class
    ELSE IF row.unanswerable THEN "no_match" ELSE "answer"

Scorable(row) == ClassOf(row) # Unscorable

CutOffs == {1, 3, 5}

Upto(s, k) == {s[i] : i \in {j \in DOMAIN s : j <= k}}

(* Whether an expected chunk is among the first k.                         *)
HitAt(e, k) ==
    /\ Scorable(e.row) /\ ~e.row.unanswerable
    /\ Upto(e.ids, k) \cap e.expected # {}

(* An abstention is right below the threshold, an answer by its rank.      *)
Correct(e, threshold) ==
    /\ Scorable(e.row)
    /\ IF e.row.unanswerable THEN e.ids = <<>> \/ e.top < threshold ELSE HitAt(e, 5)

(* The position of the first expected chunk, 0 if there is none.           *)
Rank(e) ==
    IF ~HitAt(e, 5) THEN 0
    ELSE Min({i \in DOMAIN e.ids : e.ids[i] \in e.expected})

-----------------------------------------------------------------------------
Answerable(evals) == {i \in DOMAIN evals : Scorable(evals[i].row) /\ ~evals[i].row.unanswerable}
Unanswerable(evals) == {i \in DOMAIN evals : Scorable(evals[i].row) /\ evals[i].row.unanswerable}

WrongAbstain(evals, threshold) == Cardinality({i \in Answerable(evals) : evals[i].top < threshold})

FalseConfident(evals, threshold) ==
    Cardinality({i \in Unanswerable(evals) : evals[i].top >= threshold})

Errors(evals, threshold) == WrongAbstain(evals, threshold) + FalseConfident(evals, threshold)

Tops(evals) == {evals[i].top : i \in Answerable(evals) \cup Unanswerable(evals)}

Neighbours(points) ==
    {p \in points \X points : p[1] < p[2] /\ \A q \in points : ~(p[1] < q /\ q < p[2])}

Middles(points) == {[cut |-> (p[1] + p[2]) \div 2, gap |-> p[2] - p[1]] : p \in Neighbours(points)}

(* Slip: the midpoints alone are tried.                                    *)
CandidatesInside(points) == Middles(points)

(* One cutoff per region: between two scores, at the lowest, and above the *)
(* highest.                                                                *)
Candidates(points) ==
    Middles(points) \cup {[cut |-> Min(points), gap |-> 0], [cut |-> Max(points) + 1, gap |-> 0]}

(* The fewest errors, then the widest gap, then the first in order.        *)
Calibrated(evals) ==
    LET points == Tops(evals)
        Better(c, d) ==
            \/ Errors(evals, c.cut) < Errors(evals, d.cut)
            \/ Errors(evals, c.cut) = Errors(evals, d.cut) /\ c.gap > d.gap
        best == {c \in Candidates(points) : \A d \in Candidates(points) : ~Better(d, c)}
    IN  IF Cardinality(points) < 2 THEN 0 ELSE Min({c.cut : c \in best})

-----------------------------------------------------------------------------
CountOf(evals, Is(_)) == Cardinality({i \in DOMAIN evals : Is(evals[i])})

(* What is added up of one set of verdicts, of which two states count.     *)
Tally(evals, axis, good, bad) ==
    [good |-> CountOf(evals, LAMBDA e : e[axis] = good),
     graded |-> CountOf(evals, LAMBDA e : e[axis] \in {good, bad})]

Classes == {"answer", "manager_escalation", "clarification", "no_match"}

(* aggregate: every figure of the report.                                  *)
Figures(evals, threshold) ==
    LET right == {i \in DOMAIN evals : Correct(evals[i], threshold)}
    IN  [answerable   |-> Cardinality(Answerable(evals)),
         unanswerable |-> Cardinality(Unanswerable(evals)),
         unscorable   |-> CountOf(evals, LAMBDA e : ~Scorable(e.row)),
         hits         |-> [k \in CutOffs |-> CountOf(evals, LAMBDA e : HitAt(e, k))],
         firstAt      |-> [r \in 1 .. 5 |-> CountOf(evals, LAMBDA e : Rank(e) = r)],
         abstained    |-> Cardinality(Unanswerable(evals) \cap right),
         byClass      |-> [c \in Classes \ {Unscorable} |->
                              [n |-> CountOf(evals, LAMBDA e : ClassOf(e.row) = c),
                               correct |-> Cardinality({i \in right : ClassOf(evals[i].row) = c})]],
         conclusion   |-> Tally(evals, "conclusion", "supported", "unsupported"),
         summary      |-> Tally(evals, "summary", "supported", "unsupported"),
         prohibited   |-> Tally(evals, "prohibited", "avoided", "asserted")]

=============================================================================
