---------------------------- MODULE MCDocuments ----------------------------
(***************************************************************************)
(* The documents the lender hands out and those it goes by, on small       *)
(* instances, one part at a time: the statements of disclosure-service on  *)
(* one offer; the pipeline in origination that calls it; the search of the *)
(* policy corpus; and the harness that search is calibrated with.          *)
(***************************************************************************)
EXTENDS Disclosures, Coordinator, PolicyIndex, Evaluation, CorpusSamples

VARIABLE side

corpusVars == <<policyIndexVars, evaluationVars>>

MCInit ==
    /\ side \in {"service", "pipeline", "search", "harness"}
    /\ Init /\ (side # "service" => edge = NoEvent /\ row = Absent /\ loan = "none")
    /\ CoordinatorInit /\ (side # "pipeline" => decided = <<>> /\ minted = Absence)
    /\ PolicyIndexInit /\ (side # "search" => disk = <<>> /\ declared = NoLines)
    /\ EvaluationInit /\ (side # "harness" => tree = <<>>)

MCNext ==
    /\ \/ side = "service" /\ Next /\ UNCHANGED <<coordinatorVars, corpusVars>>
       \/ side = "pipeline" /\ CoordinatorNext /\ UNCHANGED <<vars, corpusVars>>
       \/ side = "search" /\ PolicyIndexNext
            /\ UNCHANGED <<vars, coordinatorVars, evaluationVars>>
       \/ /\ side = "harness"
          /\ EvaluationNext \/ (phase = "idle" /\ UNCHANGED evaluationVars)
          /\ UNCHANGED <<vars, coordinatorVars, policyIndexVars>>
    /\ UNCHANGED side

MCSpec == MCInit /\ [][MCNext]_<<vars, coordinatorVars, corpusVars, side>>

Symmetry == Permutations(Creators) \cup Permutations(Reviewers)
                \cup Permutations(Acceptors) \cup Permutations(Documents)
                \cup Permutations(Officers) \cup Permutations(Searches)

=============================================================================
