-------------------------- MODULE MCExecutionEngine --------------------------
(***************************************************************************)
(* Instances of ExecutionEngine for TLC.                                   *)
(***************************************************************************)
EXTENDS ExecutionEngine

\* Bound: a request for several tests, or for more workers than there are, is the only one;
\* with others there is one and the same test in each.
OneTest == CHOOSE t \in Tests : TRUE
Small(r) == r.tests \in {<<>>, <<OneTest>>} /\ r.width <= PoolSize
LargeRunsAlone ==
  \A e \in Execs : requests[e] # NoRequest /\ ~Small(requests[e]) =>
    \A f \in Execs \ {e} : requests[f] = NoRequest

EngineSpec == Init /\ [][Next /\ LargeRunsAlone']_vars /\ Fairness
=============================================================================
