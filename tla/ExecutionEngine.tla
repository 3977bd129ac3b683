-------------------------- MODULE ExecutionEngine --------------------------
(***************************************************************************)
(* The automation app's ExecutionEngine: executions share a pool of        *)
(* workers (WorkerManager), each assigned worker runs a chunk of the tests *)
(* in a loop of its own, a failed test is retried (RetryEngine), and the   *)
(* results are collected by the ExecutionMonitor.  The loops of all the    *)
(* executions interleave at their awaits, and cancelExecution with them.   *)
(***************************************************************************)
EXTENDS Naturals, Sequences, FiniteSets

CONSTANTS
  Execs,       \* execution ids
  Tests,       \* test ids
  PoolSize,    \* maxWorkers of the WorkerManager
  Widths,      \* values of maxWorkers in a request
  MaxTests,    \* bound: longest testIds of a request
  MaxCancels   \* bound: calls of cancelExecution

ASSUME EngineAssumption ==
  /\ IsFiniteSet(Execs) /\ "none" \notin Execs
  /\ PoolSize \in Nat \ {0} /\ Widths \subseteq Nat \ {0}
  /\ MaxTests \in Nat /\ MaxCancels \in Nat

VARIABLES
  requests,  \* ExecutionEngine.executions
  phase,     \* what startExecution's promise is
  pool,      \* WorkerManager.workers, in the order of its Map
  loops,     \* executeTestsOnWorker, by execution and worker
  results,   \* ExecutionMonitor: the result of each test of an execution
  status,    \* ExecutionMonitor: the status of an execution
  cancels

vars == <<requests, phase, pool, loops, results, status, cancels>>

-----------------------------------------------------------------------------
Workers == 1..PoolSize
None == "none"

TestIds == UNION {[1..n -> Tests] : n \in 0..MaxTests}

\* retries: off; enabled; enabled with maxAttempts 0.  executeTest never throws, so that
\* retryWithBackoff is over after one attempt whatever maxAttempts says.
Request   == [tests : TestIds, parallel : BOOLEAN, width : Widths,
              retries : {"off", "on", "zero"}]
NoRequest == [tests |-> <<>>, parallel |-> FALSE, width |-> 1, retries |-> None]

Allocation == [status : {"idle", "allocated", "busy"}, exec : Execs \cup {None}]
Idle       == [status |-> "idle", exec |-> None]

Loop   == [pc : {"none", "ready", "test", "retry", "ended", "threw"},
           tests : TestIds, at : 0..MaxTests]
NoLoop == [pc |-> "none", tests |-> <<>>, at |-> 0]

Init ==
  /\ requests = [e \in Execs |-> NoRequest]
  /\ phase = [e \in Execs |-> "new"]
  /\ pool = [w \in Workers |-> Idle]
  /\ loops = [e \in Execs |-> [w \in Workers |-> NoLoop]]
  /\ results = [e \in Execs |-> [t \in Tests |-> "none"]]
  /\ status = [e \in Execs |-> "pending"]
  /\ cancels = 0

-----------------------------------------------------------------------------
(* WorkerManager.                                                          *)

\* Mutant: a worker that is not busy yet is taken again.
FreeNotBusy == {w \in Workers : pool[w].status # "busy"}

Free == {w \in Workers : pool[w].status = "idle"}

Rank(w, S) == Cardinality({v \in S : v <= w})

\* assignWorkers: the first idle workers of the Map, at most as many as asked for.
Assigned(width) == {w \in Free : Rank(w, Free) <= width}

\* releaseWorkers: whatever the worker is doing.
Released(e) == [w \in Workers |-> IF pool[w].exec = e THEN Idle ELSE pool[w]]

-----------------------------------------------------------------------------
(* ExecutionMonitor.                                                       *)

\* Mutant: the worst result does not win.
StatusOfSome(rs) ==
  IF \E t \in Tests : rs[t] = "passed" THEN "passed"
  ELSE IF \E t \in Tests : rs[t] = "failed" THEN "failed" ELSE "pending"

\* calculateStatus: of the tests that have a result.
StatusOf(rs) ==
  IF \E t \in Tests : rs[t] = "failed" THEN "failed"
  ELSE IF \E t \in Tests : rs[t] = "passed" THEN "passed" ELSE "pending"

\* updateTestStatus: the latest result of a test replaces the one before.
Record(e, t, ok) ==
  LET rs == [results[e] EXCEPT ![t] = IF ok THEN "passed" ELSE "failed"] IN
  /\ results' = [results EXCEPT ![e] = rs]
  /\ status' = [status EXCEPT ![e] = StatusOf(rs)]

-----------------------------------------------------------------------------
(* ExecutionEngine.                                                        *)

\* Mutant: rounded down.
ChunkFloor(n, k) == IF n < k THEN 1 ELSE n \div k

\* Math.ceil(tests.length / chunks)
ChunkSize(n, k) == (n + k - 1) \div k

\* chunkTests: the i-th of k chunks, empty when there are fewer.
Chunk(tests, i, k) ==
  LET size == ChunkSize(Len(tests), k)
      last == i * size
  IN SubSeq(tests, (i - 1) * size + 1, IF last < Len(tests) THEN last ELSE Len(tests))

ReadyLoop(tests) == [pc |-> "ready", tests |-> tests, at |-> 0]

\* runParallel: a loop on each worker; runSequential: one on the first, or an error.
LoopsOf(r, S) ==
  [w \in Workers |->
     IF w \notin S THEN NoLoop
     ELSE IF r.parallel /\ r.width > 1
          THEN ReadyLoop(Chunk(r.tests, Rank(w, S), Cardinality(S)))
          ELSE IF Rank(w, S) = 1 THEN ReadyLoop(r.tests) ELSE NoLoop]

\* startExecution, up to the loops' first statement.
Start(e, r) ==
  LET S == Assigned(r.width) IN
  /\ phase[e] = "new"
  /\ requests' = [requests EXCEPT ![e] = r]
  /\ pool' = [w \in Workers |->
                IF w \in S THEN [status |-> "allocated", exec |-> e] ELSE pool[w]]
  /\ loops' = [loops EXCEPT ![e] = LoopsOf(r, S)]
  /\ phase' = [phase EXCEPT ![e] =
       IF S = {} /\ ~(r.parallel /\ r.width > 1) THEN "rejected" ELSE "running"]
  /\ status' = [status EXCEPT ![e] = "queued"]
  /\ UNCHANGED <<results, cancels>>

\* executeTestsOnWorker, before the first test.
Begin(e, w) ==
  /\ loops[e][w].pc = "ready"
  /\ loops' = [loops EXCEPT ![e][w].pc = "test"]
  /\ pool' = [pool EXCEPT ![w].status = "busy"]
  /\ UNCHANGED <<requests, phase, results, status, cancels>>

Current(e, w) == loops[e][w].tests[loops[e][w].at + 1]

Continue(e, w) ==
  loops' = [loops EXCEPT ![e][w] = [@ EXCEPT !.pc = "test", !.at = loops[e][w].at + 1]]

\* executeTest: the spec, its timeout and its errors come down to passed or failed.
RunTest(e, w) ==
  /\ loops[e][w].pc = "test" /\ loops[e][w].at < Len(loops[e][w].tests)
  /\ \E ok \in BOOLEAN :
       /\ Record(e, Current(e, w), ok)
       /\ IF ok \/ requests[e].retries = "off"
          THEN Continue(e, w)
          ELSE loops' = [loops EXCEPT ![e][w].pc = "retry"]
  /\ UNCHANGED <<requests, phase, pool, cancels>>

\* retryWithBackoff around executeTest, which reports a failure and does not throw.
Retry(e, w) ==
  /\ loops[e][w].pc = "retry" /\ requests[e].retries = "on"
  /\ \E ok \in BOOLEAN : Record(e, Current(e, w), ok)
  /\ Continue(e, w)
  /\ UNCHANGED <<requests, phase, pool, cancels>>

\* 'All retry attempts failed' when there is none: startExecution rejects at once, and
\* the loops on the other workers go on.
RetryThrows(e, w) ==
  /\ loops[e][w].pc = "retry" /\ requests[e].retries = "zero"
  /\ loops' = [loops EXCEPT ![e][w].pc = "threw"]
  /\ phase' = [phase EXCEPT ![e] = "rejected"]
  /\ UNCHANGED <<requests, pool, results, status, cancels>>

\* Mutant: the worker is not given back.
EndLoopBusy(e, w) ==
  /\ loops[e][w].pc = "test" /\ loops[e][w].at = Len(loops[e][w].tests)
  /\ loops' = [loops EXCEPT ![e][w].pc = "ended"]
  /\ UNCHANGED <<requests, phase, pool, results, status, cancels>>

\* The worker is idle again, whoever it has been assigned to in the meantime.
EndLoop(e, w) ==
  /\ loops[e][w].pc = "test" /\ loops[e][w].at = Len(loops[e][w].tests)
  /\ loops' = [loops EXCEPT ![e][w].pc = "ended"]
  /\ pool' = [pool EXCEPT ![w].status = "idle"]
  /\ UNCHANGED <<requests, phase, results, status, cancels>>

\* Mutant: waits for the workers that were assigned, not for the loops.
FinishIdle(e) ==
  /\ phase[e] = "running"
  /\ \A w \in Workers : pool[w].exec = e => pool[w].status = "idle"
  /\ status' = [status EXCEPT ![e] = StatusOf(results[e])]
  /\ phase' = [phase EXCEPT ![e] = "resolved"]
  /\ UNCHANGED <<requests, pool, loops, results, cancels>>

\* All the loops have ended: stopTracking, and startExecution resolves.
Finish(e) ==
  /\ phase[e] = "running"
  /\ \A w \in Workers : loops[e][w].pc \in {"none", "ended"}
  /\ status' = [status EXCEPT ![e] = StatusOf(results[e])]
  /\ phase' = [phase EXCEPT ![e] = "resolved"]
  /\ UNCHANGED <<requests, pool, loops, results, cancels>>

\* cancelExecution: frees the workers and leaves the loops alone.
Cancel(e) ==
  /\ phase[e] # "new" /\ cancels < MaxCancels
  /\ cancels' = cancels + 1
  /\ pool' = Released(e)
  /\ status' = [status EXCEPT ![e] = StatusOf(results[e])]
  /\ UNCHANGED <<requests, phase, loops, results>>

-----------------------------------------------------------------------------
Step(e, w) ==
  Begin(e, w) \/ RunTest(e, w) \/ Retry(e, w) \/ RetryThrows(e, w) \/ EndLoop(e, w)

Next ==
  \E e \in Execs :
    \/ \E r \in Request : Start(e, r)
    \/ \E w \in Workers : Step(e, w)
    \/ Finish(e) \/ Cancel(e)

Spec == Init /\ [][Next]_vars

\* A promise that can go on does: nothing else holds the event loop for ever.
Fairness ==
  \A e \in Execs : WF_vars(Finish(e)) /\ \A w \in Workers : WF_vars(Step(e, w))

-----------------------------------------------------------------------------
(* Properties.                                                             *)

\* 'running' and 'cancelled' are statuses the monitor never reports.
TypeOK ==
  /\ requests \in [Execs -> Request \cup {NoRequest}]
  /\ phase \in [Execs -> {"new", "running", "resolved", "rejected"}]
  /\ pool \in [Workers -> Allocation]
  /\ loops \in [Execs -> [Workers -> Loop]]
  /\ results \in [Execs -> [Tests -> {"none", "passed", "failed"}]]
  /\ status \in [Execs -> {"queued", "pending", "passed", "failed"}]
  /\ cancels \in 0..MaxCancels

Live(e, w) == loops[e][w].pc \in {"ready", "test", "retry"}
LoopsOn(w) == {e \in Execs : Live(e, w)}

\* A worker runs the tests of one execution at a time, and one more for every cancel:
\* a cancelled loop goes on while its worker is handed to the next execution, and
\* when it ends it frees the worker under that one.
OneLoopPerWorker ==
  \A w \in Workers :
    Cardinality(LoopsOn(w)) <= cancels + (IF pool[w].status = "idle" THEN 0 ELSE 1)

\* An execution whose promise has resolved has a result for each of its tests, however
\* they were spread over the workers, unless no worker was to be had.
ResolvedIsComplete ==
  \A e \in Execs :
    phase[e] = "resolved" /\ (\E w \in Workers : loops[e][w].pc # "none") =>
      /\ \A i \in DOMAIN requests[e].tests : results[e][requests[e].tests[i]] # "none"
      /\ status[e] = StatusOf(results[e])

\* A worker no loop uses is free again, but for those a sequential execution took
\* beyond the first, and those whose loop threw.
WorkersComeBack ==
  \A w \in Workers : pool[w].status # "idle" /\ LoopsOn(w) = {} =>
    \E e \in Execs :
      \/ ~requests[e].parallel /\ requests[e].width > 1 /\ pool[w].exec = e
      \/ loops[e][w].pc = "threw"

Distinct(s) == \A i, j \in DOMAIN s : s[i] = s[j] => i = j

\* A failure that is not retried stays: no other worker's result of the execution hides
\* it, nor a cancel, unless the request lists a test twice.
FailureSticks ==
  [][\A e \in Execs :
       status[e] = "failed" /\ requests[e].retries = "off" /\ Distinct(requests[e].tests)
         => status'[e] = "failed"]_status

\* Every execution is answered: what it shares with others never holds it up for ever.
EveryStartAnswered ==
  \A e \in Execs : phase[e] = "running" ~> phase[e] \in {"resolved", "rejected"}
=============================================================================
