---------------------------- MODULE MCDecisions -----------------------------
(***************************************************************************)
(* Decisions on small instances.                                           *)
(***************************************************************************)
EXTENDS Decisions, TLC

Symmetry == Permutations(Requests) \cup Permutations(Keys)
                \cup Permutations(Outcomes) \cup Permutations(Borrowers)
                \cup Permutations(Terms)

=============================================================================
