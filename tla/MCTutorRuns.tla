---------------------------- MODULE MCTutorRuns ----------------------------
(***************************************************************************)
(* TLC instances of TutorRuns: one or two runs of one thread.              *)
(***************************************************************************)
EXTENDS TutorRuns, TLC

\* Runs and calls are only compared for equality.
Symmetry == Permutations(Runs) \cup Permutations(Calls)
=============================================================================
