-------------------------- MODULE MCJobCoordinator --------------------------
(***************************************************************************)
(* Instances of JobCoordinator for TLC.                                    *)
(***************************************************************************)
EXTENDS JobCoordinator

\* Every dependency graph on three of the jobs, cycles, self-loops and repeats included.
Three == {"tests", "security", "ai"}
UpTo2(S) == UNION {[1..n -> S] : n \in 0..2}
Graphs ==
  {[jobs |-> list, deps |-> [t \in ToSet(Types) |-> IF t \in Three THEN g[t] ELSE <<>>]] :
     list \in {<<"tests", "security", "ai">>, <<"tests", "security">>},
     g \in [Three -> UpTo2(Three)]}

\* Every choice of test types orchestrateExecution may be given.
ExecutionRequests == {Selected(options) : options \in SUBSET ToSet(Types)}

TypeJobs == ToSet(Types)
AllRequests == Graphs \cup ExecutionRequests

\* Two coordinations interleave when one is of tests and their security scan and the other of
\* any execution; other graphs are asked for alone, by one and the same call.
TestsAndScan == Selected({"tests", "security"})
AnyGraph == CHOOSE c \in Coords : TRUE
Askable(c) ==
  LET others == {coords[b].request : b \in {b \in Coords \ {c} : coords[b].pc # "new"}}
  IN CASE others = {} -> IF c = AnyGraph THEN AllRequests ELSE ExecutionRequests
       [] others = {TestsAndScan} -> ExecutionRequests
       [] others \subseteq ExecutionRequests \ {TestsAndScan} -> {TestsAndScan}
       [] OTHER -> {}

GraphsNext ==
  \/ \E c \in Coords : \/ \E r \in Askable(c) : CoordinateJobs(c, r)
                       \/ Poll(c) \/ Register(c) \/ Timeout(c)
  \/ \E j \in Jobs, s \in Statuses : UpdateJobStatus(j, s)
  \/ CancelAllInCoordination

GraphsSpec == Init /\ [][GraphsNext]_vars /\ Fairness
=============================================================================
