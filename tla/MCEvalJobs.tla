------------------------------ MODULE MCEvalJobs ------------------------------
(***************************************************************************)
(* A small instance of EvalJobs: two configurations, of which the trace    *)
(* can match one, two creator jobs and two executors.                      *)
(***************************************************************************)
EXTENDS EvalJobs, TLC

CONSTANTS c1, c2, j1, j2, e1, e2

UpdatesMC == {{}, {c1}}

Symmetry == Permutations(Jobs) \cup Permutations(Executors)
=============================================================================
