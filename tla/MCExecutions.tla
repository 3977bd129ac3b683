---------------------------- MODULE MCExecutions ----------------------------
(***************************************************************************)
(* Instances of Executions for TLC.                                        *)
(***************************************************************************)
EXTENDS ExecutionsInv, TLC

\* Ids of one kind are interchangeable (used in runs of safety properties only).
Symmetry ==
  Permutations(Execs) \cup Permutations(Jobs) \cup Permutations(Calls)
    \cup Permutations(Processors) \cup Permutations(TestWorkers)

\* Bound: an execution of two tests meets no crash, and only one of the processors.
OneProcessor == CHOOSE p \in Processors : TRUE
LongerRunsAlone ==
  (\E e \in Execs : rows[e].total > 1) =>
    /\ crashes = 0
    /\ \A p \in Processors \ {OneProcessor} : workers[p].pc = "idle"

RecoverySpec == Init /\ [][Next /\ LongerRunsAlone']_vars /\ Fairness
=============================================================================
