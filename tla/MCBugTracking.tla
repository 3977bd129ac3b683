---------------------------- MODULE MCBugTracking ----------------------------
(***************************************************************************)
(* Instances of BugTracking for TLC.                                       *)
(***************************************************************************)
EXTENDS BugTracking, TLC

\* Bugs are interchangeable, and so are calls and columns.
Symmetry == Permutations(Bugs) \cup Permutations(Requests) \cup Permutations(Columns)
=============================================================================
