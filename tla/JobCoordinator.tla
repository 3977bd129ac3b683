--------------------------- MODULE JobCoordinator ---------------------------
(***************************************************************************)
(* JobCoordinatorService: a coordination sorts its jobs by dependency and  *)
(* registers them one after the other, and before a job with dependencies  *)
(* it polls until they are completed or 300000 ms are over.  Coordinations *)
(* share the map executingJobs and interleave at the awaits.               *)
(***************************************************************************)
EXTENDS Naturals, Sequences, SequencesExt

CONSTANTS
  Coords,    \* calls of coordinateJobs
  Jobs,      \* job ids
  Requests,  \* the job lists that are coordinated
  Reported   \* what updateJobStatus is called with: nothing, in this repository

Statuses == {"pending", "running", "completed", "failed", "cancelled"}
None == "none"

ASSUME CoordinatorAssumption ==
  /\ Reported \subseteq Statuses
  /\ \A r \in Requests : /\ r.jobs \in Seq(Jobs)
                         /\ r.deps \in [Jobs -> Seq(Jobs)]

VARIABLES
  executingJobs,  \* the status of each registered job
  coords          \* where each coordinateJobs is

vars == <<executingJobs, coords>>

Init ==
  /\ executingJobs = [j \in Jobs |-> None]
  /\ coords = [c \in Coords |-> [pc |-> "new", order |-> <<>>, at |-> 0,
                 request |-> [jobs |-> <<>>, deps |-> [j \in Jobs |-> <<>>]]]]

-----------------------------------------------------------------------------
(* orchestrateExecution: a job for each selected type, in this order; the  *)
(* security scan and the AI analysis depend on the tests if there are any. *)

Types == <<"tests", "security", "performance", "accessibility", "ai">>

Selected(options) ==
  [jobs |-> SelectSeq(Types, LAMBDA t : t \in options),
   deps |-> [t \in ToSet(Types) |->
               IF t \in {"security", "ai"} /\ "tests" \in options THEN <<"tests">> ELSE <<>>]]

-----------------------------------------------------------------------------
(* topologicalSort.  visited is the set of the jobs sorted so far.         *)

\* Calls of visit for the jobs left, one after the other, made by the calls for the jobs
\* inProgress.
Visits(r) ==
  [left : Seq(Jobs), inProgress : SUBSET ToSet(r.jobs), sorted : Seq(ToSet(r.jobs))]

\* The next job is found, and neither sorted nor in progress.
Unseen(r, v) == Head(v.left) \in ToSet(r.jobs) \ (v.inProgress \cup ToSet(v.sorted))

\* The calls for its dependencies, and those for the jobs after it.
OfDeps(r, v) == [left |-> r.deps[Head(v.left)],
                 inProgress |-> v.inProgress \cup {Head(v.left)}, sorted |-> v.sorted]
OfRest(v, sorted) == [left |-> Tail(v.left), inProgress |-> v.inProgress, sorted |-> sorted]

\* Mutant: a job goes before the jobs it depends on.
VisitEarly(visit, r, v) ==
  IF v.left = <<>> THEN v.sorted
  ELSE visit[OfRest(v,
         IF Unseen(r, v)
         THEN visit[OfDeps(r, [v EXCEPT !.sorted = Append(v.sorted, Head(v.left))])]
         ELSE v.sorted)]

\* What is sorted after the calls: a job comes after those its own dependencies add.
Visit(visit, r, v) ==
  IF v.left = <<>> THEN v.sorted
  ELSE visit[OfRest(v, IF Unseen(r, v) THEN Append(visit[OfDeps(r, v)], Head(v.left))
                       ELSE v.sorted)]

Visited(r) == LET visit[v \in Visits(r)] == Visit(visit, r, v) IN visit

Sorted(r) == Visited(r)[[left |-> r.jobs, inProgress |-> {}, sorted |-> <<>>]]

-----------------------------------------------------------------------------
(* waitForDependencies: an unregistered dependency is not waited for.      *)

\* Mutant: a dependency that has failed is over, too.
BlockedUnlessOver(deps, jobs) ==
  \E d \in ToSet(deps) : jobs[d] \notin {None, "completed", "failed"}

Blocked(deps, jobs) == \E d \in ToSet(deps) : jobs[d] \notin {None, "completed"}

\* Registers the jobs from first on, up to the next one with dependencies, and asks after
\* those for the first time, all in one go (first 0: it has just begun).
Proceed(c, order, r, first) ==
  LET waits == {i \in DOMAIN order : i > first /\ r.deps[order[i]] # <<>>}
      stop  == IF waits = {} THEN Len(order) + 1
               ELSE CHOOSE i \in waits : \A k \in waits : i <= k
      jobs  == [j \in Jobs |-> IF \E i \in DOMAIN order : order[i] = j /\ first <= i /\ i < stop
                               THEN "pending" ELSE executingJobs[j]]
  IN /\ executingJobs' = jobs
     /\ coords' = [coords EXCEPT ![c] =
          [pc    |-> IF stop > Len(order) THEN "resolved"
                     ELSE IF Blocked(r.deps[order[stop]], jobs) THEN "waiting"
                     ELSE "register",
           order |-> order, at |-> stop, request |-> r]]

DepsOf(c) == coords[c].request.deps[coords[c].order[coords[c].at]]

GoTo(c, pc) ==
  /\ coords' = [coords EXCEPT ![c].pc = pc]
  /\ UNCHANGED executingJobs

CoordinateJobs(c, r) ==
  /\ coords[c].pc = "new"
  /\ Proceed(c, Sorted(r), r, 0)

\* The 100 ms poll finds the dependencies completed; the promise resolves, and the job is
\* registered in a later turn of the event loop, without another look at them.
Poll(c) ==
  /\ coords[c].pc = "waiting" /\ ~Blocked(DepsOf(c), executingJobs)
  /\ GoTo(c, "register")

Register(c) ==
  /\ coords[c].pc = "register"
  /\ Proceed(c, coords[c].order, coords[c].request, coords[c].at)

\* Mutant: the wait has no end.
TimeoutNever(c) ==
  /\ coords[c].pc = "waiting" /\ Blocked(DepsOf(c), executingJobs) /\ DepsOf(c) = <<>>
  /\ GoTo(c, "rejected")

\* The poll finds them unfinished and maxWait over: coordinateJobs rejects half way.
Timeout(c) ==
  /\ coords[c].pc = "waiting" /\ Blocked(DepsOf(c), executingJobs)
  /\ GoTo(c, "rejected")

-----------------------------------------------------------------------------
(* What the rest of the system may report of the jobs.  That a job ends    *)
(* once is assumed of it: updateJobStatus does not look at what was there, *)
(* and nothing in the repository calls it.                                 *)

Ended == {"completed", "failed", "cancelled"}

UpdateJobStatus(j, s) ==
  /\ s \in Reported \ {"cancelled"} /\ executingJobs[j] \notin Ended \cup {None}
  /\ executingJobs' = [executingJobs EXCEPT ![j] = s]
  /\ UNCHANGED coords

\* All ids begin with exec-: every job of every coordination is cancelled.
CancelAllInCoordination ==
  /\ "cancelled" \in Reported
  /\ executingJobs' = [j \in Jobs |-> IF executingJobs[j] = None THEN None ELSE "cancelled"]
  /\ UNCHANGED coords

Next ==
  \/ \E c \in Coords : \/ \E r \in Requests : CoordinateJobs(c, r)
                       \/ Poll(c) \/ Register(c) \/ Timeout(c)
  \/ \E j \in Jobs, s \in Statuses : UpdateJobStatus(j, s)
  \/ CancelAllInCoordination

Spec == Init /\ [][Next]_vars

\* The timers and promises of a coordination go on.
Fairness == \A c \in Coords : WF_vars(Poll(c) \/ Register(c) \/ Timeout(c))

-----------------------------------------------------------------------------
(* Properties.                                                             *)

\* Every variable keeps its type, and a coordination that is held up is at a job of its
\* list with dependencies (coordinateJobs never awaits anything else).
TypeOK ==
  /\ executingJobs \in [Jobs -> Statuses \cup {None}]
  /\ \A c \in Coords :
       /\ coords[c].pc \in {"new", "waiting", "register", "resolved", "rejected"}
       /\ coords[c].pc \in {"waiting", "register", "rejected"} =>
            coords[c].at \in DOMAIN coords[c].order /\ DepsOf(c) # <<>>

\* j depends on d, however indirectly: every set that has the dependencies of j, and with a
\* job its dependencies, has d.
Needs(r, j, d) ==
  \A S \in SUBSET ToSet(r.jobs) :
    (\A k \in S \cup {j} : ToSet(r.deps[k]) \cap ToSet(r.jobs) \subseteq S) => d \in S

\* topologicalSort lists every job once, and a job after each job it depends on unless the
\* two are on a cycle together.
OrderRespectsDeps ==
  \A c \in Coords : coords[c].pc # "new" =>
    LET r == coords[c].request
        Place(j) == {i \in DOMAIN coords[c].order : coords[c].order[i] = j}
    IN \A j \in ToSet(r.jobs) :
         /\ \E i \in DOMAIN coords[c].order : Place(j) = {i}
         /\ \A d \in ToSet(r.jobs) \cap ToSet(r.deps[j]) :
              ~Needs(r, d, j) => \A i \in Place(j), k \in Place(d) : k < i

\* The others have jobs of their own: one that shares a job sets it back to pending.
Apart(c) ==
  \A b \in Coords \ {c} : coords[b].pc # "new" =>
    ToSet(coords[b].request.jobs) \cap ToSet(coords[c].request.jobs) = {}

\* A coordination lets no job in before those of its jobs that it depends on are completed,
\* whatever other coordinations do at the awaits and whatever order the statuses are
\* reported in (cycles apart; a completed job may be cancelled with all the others).
DependenciesFirst ==
  \A c \in Coords : coords[c].pc # "new" /\ Apart(c) =>
    \A i, k \in DOMAIN coords[c].order :
      LET j == coords[c].order[i]  d == coords[c].order[k]
      IN k < i /\ i < coords[c].at /\ d \in ToSet(coords[c].request.deps[j]) =>
           executingJobs[d] \in {"completed", "cancelled"}

\* Every call of coordinateJobs is answered, with a result or the timeout's error.
EveryCoordinationEnds ==
  \A c \in Coords : coords[c].pc # "new" ~> coords[c].pc \in {"resolved", "rejected"}
=============================================================================
