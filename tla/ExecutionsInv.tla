---------------------------- MODULE ExecutionsInv ----------------------------
(***************************************************************************)
(* The inductive invariant of Executions: why a verdict is earned.         *)
(***************************************************************************)
EXTENDS Executions

\* Requests and jobs name executions whose rows were created (and perhaps deleted).
Known(e) == e \in Execs /\ rows[e].status # "none"
CallsKnown == \A c \in Calls : calls[c].op # "idle" => Known(calls[c].exec)
JobsKnown  == \A j \in Jobs : jobs[j].state # "free" => Known(jobs[j].exec)
AtKnownJob ==
  \A w \in Workers : Busy(w) => /\ workers[w].job \in Jobs
                                /\ jobs[workers[w].job].state # "free"

\* Nothing is reported of an execution that was never created.
NewUnreported == \A e \in Execs : rows[e].status = "none" => reports[e] = 0

\* A worker on its way through the tests: the tests it is done with, its counts, and
\* the test runs of those tests.
Looping(w) == workers[w].pc \in {"begin", "loop", "running"}
Finished(w) == IF workers[w].pc = "running" THEN workers[w].begun - 1 ELSE workers[w].begun
NoneFailed(w) ==
  IF w \in Processors THEN workers[w].passed = Finished(w) ELSE workers[w].failed = 0

CountsOk(w) ==
  /\ workers[w].begun <= Total(w)
  /\ workers[w].pc = "running" => workers[w].begun > 0
  /\ workers[w].passed <= Finished(w)
  /\ Finished(w) <= workers[w].passed + workers[w].failed

RunsOk(w) ==
  /\ \A t \in 1..Finished(w) : HasRun(ExecOf(w), t, {"PASSED", "FAILED"})
  /\ NoneFailed(w) => \A t \in 1..Finished(w) : HasRun(ExecOf(w), t, {"PASSED"})

LoopOk == \A w \in Workers : Looping(w) => CountsOk(w) /\ RunsOk(w)

\* The test run a worker is busy with is its own, RUNNING, and of its current test.
CurrentOk ==
  \A w \in Workers : workers[w].pc = "running" =>
    /\ workers[w].run \in DOMAIN runs[ExecOf(w)]
    /\ runs[ExecOf(w)][workers[w].run].status = "RUNNING"
    /\ runs[ExecOf(w)][workers[w].run].test = workers[w].begun
    /\ \A v \in Workers : v # w /\ workers[v].pc = "running" /\ ExecOf(v) = ExecOf(w)
                            => workers[v].run # workers[w].run

\* What a processor that has published its verdict may say in a report.
ReportingOk ==
  \A w \in Workers : workers[w].pc = "report" =>
    /\ \A t \in Tests(ExecOf(w)) : HasRun(ExecOf(w), t, {"PASSED", "FAILED"})
    /\ workers[w].passed <= Total(w)

IInv ==
  /\ TypeOK /\ CallsKnown /\ JobsKnown /\ AtKnownJob /\ NewUnreported
  /\ LoopOk /\ CurrentOk /\ ReportingOk
  /\ PassedIsEarned /\ ReportedIsRun

\* Who works on a job whose lock has never expired holds the lock, unless BullMQ
\* allows no expiry at all and has failed the job.
LockHeld ==
  \A w \in Workers : Busy(w) /\ jobs[workers[w].job].stalls = 0 =>
    \/ jobs[workers[w].job].state = "active" /\ jobs[workers[w].job].owner = w
    \/ jobs[workers[w].job].state = "failed"

LockInv == LockHeld /\ LockedUnlessStalled

\* Why an execution is FAILED: its worker has stored a failed run, or something broke.
Broken == faults + crashes > 0
SomeFailed(e) == \E t \in Tests(e) : HasRun(e, t, {"FAILED"})
Blamed(w) ==
  /\ Looping(w) => Broken \/ NoneFailed(w) \/ SomeFailed(ExecOf(w))
  /\ workers[w].pc = "fail" => Broken \/ ~Exists(ExecOf(w))
  /\ workers[w].pc = "down" => Broken
BlameInv == FailedIsExplained /\ \A w \in Workers : Blamed(w)

\* A TestWorker counts a test twice only when storing its result has failed.
CountInv ==
  /\ CountsAddUp
  /\ \A w \in TestWorkers :
       Looping(w) => workers[w].passed + workers[w].failed <= Finished(w) + faults

\* A processor that is about to file bugs has one report, or failed report, of its own.
Filing(e) == {w \in Workers : workers[w].pc = "bugs" /\ ExecOf(w) = e}
BugInv ==
  \A e \in Execs :
    /\ IsFiniteSet(Filing(e)) /\ Cardinality(Filing(e)) <= reports[e] + faults
    /\ \A k \in DOMAIN runs[e] :
         /\ runs[e][k].bugs > 0 => runs[e][k].status = "FAILED"
         /\ runs[e][k].bugs + Cardinality(Filing(e)) <= reports[e] + faults

\* Every test run that is left RUNNING has its own error or dead process.
AbandonInv == IsFiniteSet(Abandoned) /\ NoRunAbandoned
=============================================================================
