--------------------------- MODULE MCRunLifecycle ---------------------------
(* RunLifecycle with the sets TLC needs to identify symmetric states.       *)
EXTENDS RunRefinement, TLC

\* Operators, runs and processes differ in nothing but their names.
Symmetry ==
    Permutations(Operators) \cup Permutations(Runs) \cup Permutations(Pids)

=============================================================================
