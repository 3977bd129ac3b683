----------------------------- MODULE Executions -----------------------------
(***************************************************************************)
(* The life of a test execution: the row of table "executions", the        *)
(* BullMQ queue "execution", and the two kinds of worker that compete for  *)
(* its jobs, the backend's ExecutionProcessor and the automation engine's  *)
(* TestWorker.  Every await of a handler ends an action, so reads and      *)
(* writes of different requests and workers interleave as in the code.     *)
(***************************************************************************)
EXTENDS Naturals, Sequences, FiniteSets

CONSTANTS
  Execs,          \* execution ids
  Jobs,           \* BullMQ job ids: bounds how often executions are started
  Calls,          \* API requests in flight at once
  Processors,     \* backend processes, each with an ExecutionProcessor
  TestWorkers,    \* automation processes, each with a TestWorker
  WorkerEnabled,  \* AUTOMATION_WORKER_ENABLED = 'true' in the automation app
  MaxTests,       \* longest testIds of an execution
  Attempts,       \* the job option "attempts"
  MaxStalls,      \* BullMQ's maxStalledCount
  MaxFaults,      \* bound: Prisma, Redis or browser calls that throw
  MaxCrashes      \* bound: processes that die

ASSUME ExecutionsAssumption ==
  /\ Processors \cap TestWorkers = {}
  /\ WorkerEnabled \in BOOLEAN
  /\ MaxTests \in Nat /\ Attempts \in Nat \ {0} /\ MaxStalls \in Nat
  /\ MaxFaults \in Nat /\ MaxCrashes \in Nat

VARIABLES
  rows,     \* execution rows, by id
  runs,     \* test_runs of an execution, in order of creation
  reports,  \* how many TEST_SUMMARY reports an execution has
  jobs,     \* the queue
  workers,  \* what each worker process is doing
  calls,    \* the API requests that are between two awaits
  faults, crashes

vars == <<rows, runs, reports, jobs, workers, calls, faults, crashes>>

-----------------------------------------------------------------------------
Workers == Processors \cup TestWorkers
None == "none"  \* no execution, job or worker

RowStatus == {"none", "PENDING", "RUNNING", "PASSED", "FAILED", "CANCELLED", "deleted"}
Row  == [status : RowStatus, total : 0..MaxTests, passed : Nat, failed : Nat]
Run  == [test : 1..MaxTests, status : {"RUNNING", "PASSED", "FAILED"}, bugs : Nat]
Job  == [state : {"free", "waiting", "active", "completed", "failed"},
         exec : Execs \cup {None}, owner : Workers \cup {None}, made : Nat, stalls : Nat]
Proc == [pc : {"idle", "begin", "loop", "running", "report", "bugs", "fail", "throw",
               "done", "down"},
         job : Jobs \cup {None}, begun : Nat, passed : Nat, failed : Nat, run : Nat]
Call == [op : {"idle", "start", "enqueue", "cancel"}, exec : Execs \cup {None}]

NoRow   == [status |-> "none", total |-> 0, passed |-> 0, failed |-> 0]
FreeJob == [state |-> "free", exec |-> None, owner |-> None, made |-> 0, stalls |-> 0]
Resting(pc) == [pc |-> pc, job |-> None, begun |-> 0, passed |-> 0, failed |-> 0, run |-> 0]
NoCall  == [op |-> "idle", exec |-> None]

Exists(e) == rows[e].status \notin {"none", "deleted"}
SetStatus(e, s) == rows' = [rows EXCEPT ![e].status = s]

\* A Prisma, Redis or browser call throws; the bound is the model's only limit on it.
Throws == faults < MaxFaults /\ faults' = faults + 1

\* The API answers as long as some backend process is up.
ApiUp == \E p \in Processors : workers[p].pc # "down"

\* Model bound: every start in progress still finds a free job id.
SpareJob ==
  Cardinality({c \in Calls : calls[c].op \in {"start", "enqueue"}})
    < Cardinality({j \in Jobs : jobs[j].state = "free"})

Init ==
  /\ rows = [e \in Execs |-> NoRow]
  /\ runs = [e \in Execs |-> <<>>]
  /\ reports = [e \in Execs |-> 0]
  /\ jobs = [j \in Jobs |-> FreeJob]
  /\ workers = [w \in Workers |-> Resting("idle")]
  /\ calls = [c \in Calls |-> NoCall]
  /\ faults = 0 /\ crashes = 0

-----------------------------------------------------------------------------
(* ExecutionsService, called by ExecutionsController.                      *)

NewRow(e, n) == rows' = [rows EXCEPT ![e] = [NoRow EXCEPT !.status = "PENDING", !.total = n]]

Create(e) ==
  /\ ApiUp /\ rows[e].status = "none"
  /\ \E n \in 0..MaxTests : NewRow(e, n)
  /\ UNCHANGED <<runs, reports, jobs, workers, calls, faults, crashes>>

\* start(id), up to its update: whatever the row's status was, it is PENDING again.
StartMark(c, e) ==
  /\ IF Exists(e)
     THEN /\ SetStatus(e, "PENDING")
          /\ calls' = [calls EXCEPT ![c] = [op |-> "enqueue", exec |-> e]]
     ELSE /\ calls' = [calls EXCEPT ![c] = NoCall]
          /\ UNCHANGED rows
  /\ UNCHANGED <<runs, reports, jobs, workers, faults, crashes>>

Start(c, e) == ApiUp /\ calls[c] = NoCall /\ Exists(e) /\ SpareJob /\ StartMark(c, e)

\* The nested start(newExecution.id) of retry and of the tests controller.
StartCreated(c) == calls[c].op = "start" /\ StartMark(c, calls[c].exec)

\* retry(id): a new row with the same testIds, whatever the old row's status is.
Retry(c, e, f) ==
  /\ ApiUp /\ calls[c] = NoCall /\ SpareJob
  /\ Exists(e) /\ rows[f].status = "none"
  /\ NewRow(f, rows[e].total)
  /\ calls' = [calls EXCEPT ![c] = [op |-> "start", exec |-> f]]
  /\ UNCHANGED <<runs, reports, jobs, workers, faults, crashes>>

\* POST tests/:id/run: an execution of one test, created and started.
RunOneTest(c, f) ==
  /\ ApiUp /\ calls[c] = NoCall /\ SpareJob /\ MaxTests > 0
  /\ rows[f].status = "none"
  /\ NewRow(f, 1)
  /\ calls' = [calls EXCEPT ![c] = [op |-> "start", exec |-> f]]
  /\ UNCHANGED <<runs, reports, jobs, workers, faults, crashes>>

\* executionQueue.add: no jobId, so nothing stops a second job for the same row.
Enqueue(c) ==
  /\ calls[c].op = "enqueue"
  /\ calls' = [calls EXCEPT ![c] = NoCall]
  /\ \/ /\ \E j \in Jobs :
             /\ jobs[j].state = "free"
             /\ jobs' = [jobs EXCEPT ![j] = [@ EXCEPT !.state = "waiting", !.exec = calls[c].exec]]
        /\ UNCHANGED faults
     \/ Throws /\ UNCHANGED jobs
  /\ UNCHANGED <<rows, runs, reports, workers, crashes>>

\* cancel(id), up to its guard on the status it has read.
Cancellable(e) == Exists(e) /\ rows[e].status \notin {"PASSED", "FAILED"}

CancelCheck(c, e) ==
  /\ ApiUp /\ calls[c] = NoCall /\ Cancellable(e)
  /\ calls' = [calls EXCEPT ![c] = [op |-> "cancel", exec |-> e]]
  /\ UNCHANGED <<rows, runs, reports, jobs, workers, faults, crashes>>

\* The update: it neither looks at the status again nor touches the queue.
CancelWrite(c) ==
  /\ calls[c].op = "cancel"
  /\ calls' = [calls EXCEPT ![c] = NoCall]
  /\ IF Exists(calls[c].exec) THEN SetStatus(calls[c].exec, "CANCELLED") ELSE UNCHANGED rows
  /\ UNCHANGED <<runs, reports, jobs, workers, faults, crashes>>

\* The row goes; its test runs stay (executionId: SetNull), and so do its jobs.
Delete(e) ==
  /\ ApiUp /\ Exists(e)
  /\ SetStatus(e, "deleted")
  /\ UNCHANGED <<runs, reports, jobs, workers, calls, faults, crashes>>

-----------------------------------------------------------------------------
(* BullMQ, as the workers use it.                                          *)

Pick(w, j) ==
  /\ workers[w].pc = "idle" /\ jobs[j].state = "waiting"
  /\ jobs' = [jobs EXCEPT ![j] = [@ EXCEPT !.state = "active", !.owner = w]]
  /\ workers' = [workers EXCEPT ![w] = [Resting("begin") EXCEPT !.job = j]]
  /\ UNCHANGED <<rows, runs, reports, calls, faults, crashes>>

\* The lock of an active job has expired: the job goes back to the queue, or fails
\* for good when that has happened too often.  The worker is not told.
Stalled(job) ==
  IF job.stalls < MaxStalls
  THEN [job EXCEPT !.state = "waiting", !.owner = None, !.stalls = @ + 1]
  ELSE [job EXCEPT !.state = "failed", !.owner = None]

Stall(j, expired) ==
  /\ jobs[j].state = "active" /\ expired
  /\ jobs' = [jobs EXCEPT ![j] = Stalled(@)]
  /\ UNCHANGED <<rows, runs, reports, workers, calls, faults, crashes>>

\* The process that held the lock has died.
StallDead(j) == Stall(j, workers[jobs[j].owner].job # j)

\* execSync of a Playwright spec (up to 120s) keeps the event loop from renewing
\* the lock (30s): the worker is alive and goes on when the spec has ended.
StallBlocked(j) ==
  Stall(j, workers[jobs[j].owner].job = j /\ workers[jobs[j].owner].pc = "running")

\* process() has resolved or rejected.  Without the lock the job is not touched.
Settle(w, job) ==
  LET j == workers[w].job IN
  /\ jobs' = IF jobs[j].owner = w THEN [jobs EXCEPT ![j] = job] ELSE jobs
  /\ workers' = [workers EXCEPT ![w] = Resting("idle")]
  /\ UNCHANGED <<rows, runs, reports, calls, faults, crashes>>

Complete(w) ==
  /\ workers[w].pc = "done"
  /\ Settle(w, [jobs[workers[w].job] EXCEPT !.state = "completed", !.owner = None])

\* Mutants: attempts are not counted; the job has no further attempts.
AttemptUncounted(w) ==
  /\ workers[w].pc = "throw"
  /\ Settle(w, [jobs[workers[w].job] EXCEPT !.owner = None, !.state = "waiting"])
AttemptLast(w) ==
  /\ workers[w].pc = "throw"
  /\ Settle(w, [jobs[workers[w].job] EXCEPT !.made = @ + 1, !.owner = None, !.state = "failed"])

AttemptFailed(w) ==
  LET job == jobs[workers[w].job] IN
  /\ workers[w].pc = "throw"
  /\ Settle(w, [job EXCEPT !.made = @ + 1, !.owner = None,
                           !.state = IF job.made + 1 < Attempts THEN "waiting" ELSE "failed"])

-----------------------------------------------------------------------------
(* ExecutionProcessor.process with executeTestsInline, and                 *)
(* TestWorker.processExecution: one action per await that writes.          *)

ExecOf(w) == jobs[workers[w].job].exec
Total(w)  == rows[ExecOf(w)].total
Goto(w, pc) == workers' = [workers EXCEPT ![w].pc = pc]
Leave(w, pc) == workers' = [workers EXCEPT ![w] = [Resting(pc) EXCEPT !.job = workers[w].job]]

\* The processor catches an error to write FAILED; the TestWorker lets it go.
OnError(w) == IF w \in Processors THEN "fail" ELSE "throw"

\* A write to the execution row, or one that needs it, does not go through.
Rejected(w) ==
  /\ \/ ~Exists(ExecOf(w)) /\ UNCHANGED faults
     \/ Exists(ExecOf(w)) /\ Throws
  /\ Leave(w, OnError(w))
  /\ UNCHANGED <<rows, runs>>

Begin(w) ==
  /\ workers[w].pc = "begin"
  /\ \/ /\ w \in TestWorkers /\ ~WorkerEnabled
        /\ Leave(w, "throw")
        /\ UNCHANGED <<rows, runs, faults>>
     \/ /\ w \in Processors \/ WorkerEnabled
        /\ \/ /\ Exists(ExecOf(w))
              /\ SetStatus(ExecOf(w), "RUNNING")
              /\ Goto(w, "loop")
              /\ UNCHANGED <<runs, faults>>
           \/ Rejected(w)
  /\ UNCHANGED <<reports, jobs, calls, crashes>>

\* testRun.create; its foreign key needs the execution row.
CreateRun(w) ==
  LET e == ExecOf(w)  k == workers[w].begun + 1 IN
  /\ workers[w].pc = "loop" /\ workers[w].begun < Total(w)
  /\ \/ /\ Exists(e)
        /\ runs' = [runs EXCEPT ![e] =
             Append(@, [test |-> k, status |-> "RUNNING", bugs |-> 0])]
        /\ workers' = [workers EXCEPT ![w] =
             [@ EXCEPT !.pc = "running", !.begun = k, !.run = Len(runs[e]) + 1]]
        /\ UNCHANGED <<rows, faults>>
     \/ Rejected(w)
  /\ UNCHANGED <<reports, jobs, calls, crashes>>

\* Mutants: the result goes to the newest run of the execution; a failure is not stored.
StoreLatest(w, s) == runs' = [runs EXCEPT ![ExecOf(w)][Len(runs[ExecOf(w)])].status = s]
StorePassed(w, s) ==
  runs' = IF s = "PASSED" THEN [runs EXCEPT ![ExecOf(w)][workers[w].run].status = s] ELSE runs

\* The test run's row gets its result.
Store(w, s) == runs' = [runs EXCEPT ![ExecOf(w)][workers[w].run].status = s]

Counted(w, ok, more) ==
  LET passed == workers[w].passed + (IF ok THEN 1 ELSE 0)
      failed == workers[w].failed + (IF ok THEN 0 ELSE 1) + more
  IN workers' = [workers EXCEPT ![w] =
       [@ EXCEPT !.pc = "loop", !.run = 0, !.passed = passed, !.failed = failed]]

\* What running a test returns: both kinds of worker catch what the browser, a spec or
\* a step throws and make it a failure.
RunTest == BOOLEAN
RunSingleTest == BOOLEAN
Outcomes(w) == IF w \in Processors THEN RunTest ELSE RunSingleTest

\* runTest returns passed or failed; the processor's may also throw (closing the
\* browser after a failure), as the update may, and the TestWorker counts that as a
\* failure.  Its catch counts the test as failed after a failed update too, on top
\* of what the test was counted as.
RecordRun(w) ==
  /\ workers[w].pc = "running"
  /\ \E ok \in Outcomes(w) :
       \/ /\ Store(w, IF ok THEN "PASSED" ELSE "FAILED")
          /\ Counted(w, ok, 0)
          /\ UNCHANGED faults
       \/ /\ Throws
          /\ IF w \in Processors
             THEN Leave(w, "fail") /\ UNCHANGED runs
             ELSE Store(w, "FAILED") /\ Counted(w, ok, 1)
       \/ /\ w \in TestWorkers       \* the update in the catch throws as well
          /\ faults + 1 < MaxFaults /\ faults' = faults + 2
          /\ Leave(w, "throw") /\ UNCHANGED runs
  /\ UNCHANGED <<rows, reports, jobs, calls, crashes>>

\* Mutants: all tests have been counted; an execution without tests has not passed.
AllCounted(w) == workers[w].passed + workers[w].failed = Total(w)
AllPassedOfSome(w) == workers[w].passed = Total(w) /\ Total(w) > 0

\* passed === testIds.length in the processor, failed === 0 in the TestWorker.
AllPassed(w) ==
  IF w \in Processors THEN workers[w].passed = Total(w) ELSE workers[w].failed = 0

FailedCount(w) ==
  IF w \in Processors THEN Total(w) - workers[w].passed ELSE workers[w].failed

\* Mutant: the counts are added to those of an earlier attempt.
VerdictAdded(w) ==
  [rows[ExecOf(w)] EXCEPT !.status = IF AllPassed(w) THEN "PASSED" ELSE "FAILED",
                          !.passed = @ + workers[w].passed, !.failed = @ + FailedCount(w)]

Verdict(w) ==
  [rows[ExecOf(w)] EXCEPT !.status = IF AllPassed(w) THEN "PASSED" ELSE "FAILED",
                          !.passed = workers[w].passed, !.failed = FailedCount(w)]

\* Mutant: the loop ends a test early.
LoopDoneEarly(w) == workers[w].begun + 1 >= Total(w)

LoopDone(w) == workers[w].begun = Total(w)

\* The final update overwrites whatever status the row has by now.
Publish(w) ==
  /\ workers[w].pc = "loop" /\ LoopDone(w)
  /\ \/ /\ Exists(ExecOf(w))
        /\ rows' = [rows EXCEPT ![ExecOf(w)] = Verdict(w)]
        /\ IF w \in Processors THEN Goto(w, "report") ELSE Leave(w, "done")
        /\ UNCHANGED <<runs, faults>>
     \/ Rejected(w)
  /\ UNCHANGED <<reports, jobs, calls, crashes>>

\* autoCreateReport: an error is logged and swallowed.
Report(w) ==
  /\ workers[w].pc = "report"
  /\ \/ reports' = [reports EXCEPT ![ExecOf(w)] = @ + 1] /\ UNCHANGED faults
     \/ Throws /\ UNCHANGED reports
  /\ Leave(w, IF workers[w].passed < Total(w) THEN "bugs" ELSE "done")
  /\ UNCHANGED <<rows, runs, jobs, calls, crashes>>

WithBugs(rs, filed) ==
  [k \in DOMAIN rs |-> IF k \in filed THEN [rs[k] EXCEPT !.bugs = @ + 1] ELSE rs[k]]

\* Mutant: a run that has no result yet counts as a failure.
NotPassed(e) == {k \in DOMAIN runs[e] : runs[e][k].status # "PASSED"}

Failures(e) == {k \in DOMAIN runs[e] : runs[e][k].status = "FAILED"}

\* autoCreateBugs: a bug for every FAILED run the execution has, of this attempt
\* or an earlier one; an error part of the way is swallowed.
FileBugs(w) ==
  LET e == ExecOf(w)
      failed == IF Exists(e) THEN Failures(e) ELSE {}
  IN
  /\ workers[w].pc = "bugs"
  /\ \E filed \in SUBSET failed :
       /\ \/ filed = failed /\ UNCHANGED faults
          \/ filed # failed /\ Throws
       /\ runs' = [runs EXCEPT ![e] = WithBugs(runs[e], filed)]
  /\ Leave(w, "done")
  /\ UNCHANGED <<rows, reports, jobs, calls, crashes>>

\* Mutant: the catch puts the job back into the queue as well.
HandleErrorRequeue(w) ==
  /\ workers[w].pc = "fail"
  /\ jobs' = [jobs EXCEPT ![workers[w].job] = [@ EXCEPT !.state = "waiting", !.owner = None]]
  /\ IF Exists(ExecOf(w)) THEN SetStatus(ExecOf(w), "FAILED") ELSE UNCHANGED rows
  /\ Leave(w, "throw")
  /\ UNCHANGED <<runs, reports, calls, faults, crashes>>

\* The processor's catch: updateStatus(FAILED), then the error is rethrown.
HandleError(w) ==
  /\ workers[w].pc = "fail"
  /\ \/ /\ Exists(ExecOf(w))
        /\ SetStatus(ExecOf(w), "FAILED")
        /\ UNCHANGED faults
     \/ ~Exists(ExecOf(w)) /\ UNCHANGED <<rows, faults>>
     \/ Exists(ExecOf(w)) /\ Throws /\ UNCHANGED rows
  /\ Leave(w, "throw")
  /\ UNCHANGED <<runs, reports, jobs, calls, crashes>>

-----------------------------------------------------------------------------
(* Processes die and come back.                                            *)

\* A backend process takes the requests it was serving with it: all there are,
\* when no other one is up.
Lost(w) ==
  CASE w \in TestWorkers -> {{}}
    [] \E p \in Processors \ {w} : workers[p].pc # "down" -> SUBSET Calls
    [] OTHER -> {Calls}

Crash(w) ==
  /\ workers[w].pc # "down" /\ crashes < MaxCrashes
  /\ workers' = [workers EXCEPT ![w] = Resting("down")]
  /\ \E lost \in Lost(w) :
       calls' = [c \in Calls |-> IF c \in lost THEN NoCall ELSE calls[c]]
  /\ crashes' = crashes + 1
  /\ UNCHANGED <<rows, runs, reports, jobs, faults>>

\* Mutant: executions that wait in the queue are taken for stuck.
CleanupUnfinished ==
  \E stale \in SUBSET {e \in Execs : rows[e].status \in {"PENDING", "RUNNING"}} :
    rows' = [e \in Execs |-> IF e \in stale THEN [rows[e] EXCEPT !.status = "FAILED"] ELSE rows[e]]

\* cleanupStaleExecutions: any RUNNING row may have been RUNNING for 15 minutes.
CleanupStale ==
  \E stale \in SUBSET {e \in Execs : rows[e].status = "RUNNING"} :
    rows' = [e \in Execs |-> IF e \in stale THEN [rows[e] EXCEPT !.status = "FAILED"] ELSE rows[e]]

Restart(w) ==
  /\ workers[w].pc = "down"
  /\ workers' = [workers EXCEPT ![w] = Resting("idle")]
  /\ IF w \in Processors THEN CleanupStale ELSE UNCHANGED rows
  /\ UNCHANGED <<runs, reports, jobs, calls, faults, crashes>>

-----------------------------------------------------------------------------
Api ==
  \/ \E e \in Execs : Create(e) \/ Delete(e)
  \/ \E c \in Calls, e \in Execs : Start(c, e) \/ CancelCheck(c, e) \/ RunOneTest(c, e)
  \/ \E c \in Calls, e, f \in Execs : Retry(c, e, f)

Serve(c) == StartCreated(c) \/ Enqueue(c) \/ CancelWrite(c)

Work(w) ==
  \/ Begin(w) \/ CreateRun(w) \/ RecordRun(w) \/ Publish(w) \/ Report(w) \/ FileBugs(w)
  \/ HandleError(w) \/ Complete(w) \/ AttemptFailed(w)

Next ==
  \/ Api
  \/ \E c \in Calls : Serve(c)
  \/ \E w \in Workers, j \in Jobs : Pick(w, j)
  \/ \E j \in Jobs : StallDead(j) \/ StallBlocked(j)
  \/ \E w \in Workers : Work(w) \/ Crash(w) \/ Restart(w)

Spec == Init /\ [][Next]_vars

\* Handlers and workers go on as long as their process lives; a process that died
\* is restarted (the Deployments of k8s/base/platform.yaml); BullMQ hands out waiting jobs
\* and, every 30s, the jobs of dead workers.
Fairness ==
  /\ \A c \in Calls : WF_vars(Serve(c))
  /\ \A w \in Workers : WF_vars(Work(w)) /\ WF_vars(Restart(w))
  /\ \A j \in Jobs : WF_vars(\E w \in Workers : Pick(w, j)) /\ WF_vars(StallDead(j))

FairSpec == Spec /\ Fairness

-----------------------------------------------------------------------------
(* Properties.                                                             *)

TypeOK ==
  /\ rows \in [Execs -> Row]
  /\ runs \in [Execs -> Seq(Run)]
  /\ reports \in [Execs -> Nat]
  /\ jobs \in [Jobs -> Job]
  /\ workers \in [Workers -> Proc]
  /\ calls \in [Calls -> Call]
  /\ faults \in Nat /\ crashes \in Nat

Tests(e) == 1..rows[e].total
HasRun(e, t, s) == \E k \in DOMAIN runs[e] : runs[e][k].test = t /\ runs[e][k].status \in s

\* A PASSED execution has counted every test as passed and none as failed, and
\* for each of them a test run that passed, however many jobs, attempts, workers
\* and requests were at it.
PassedIsEarned ==
  \A e \in Execs : rows[e].status = "PASSED" =>
    /\ rows[e].passed = rows[e].total /\ rows[e].failed = 0
    /\ \A t \in Tests(e) : HasRun(e, t, {"PASSED"})

\* No execution is FAILED without a failed test run, unless something did break.
FailedIsExplained ==
  \A e \in Execs : rows[e].status = "FAILED" =>
    faults + crashes > 0 \/ \E t \in Tests(e) : HasRun(e, t, {"FAILED"})

\* The counts of a row are those of one attempt: together they are the number of
\* tests, but for results the TestWorker counted twice because storing them failed.
CountsAddUp ==
  \A e \in Execs : LET n == rows[e].passed + rows[e].failed IN
    n = 0 \/ (rows[e].total <= n /\ n <= rows[e].total + faults)

\* Test runs are left RUNNING by errors and dead processes only.
Busy(w) == workers[w].pc \notin {"idle", "down"}
Abandoned ==
  {r \in UNION {{e} \X DOMAIN runs[e] : e \in Execs} :
     /\ runs[r[1]][r[2]].status = "RUNNING"
     /\ \A w \in Workers :
          ~(workers[w].pc = "running" /\ ExecOf(w) = r[1] /\ workers[w].run = r[2])}
NoRunAbandoned == Cardinality(Abandoned) <= faults + crashes

\* Two workers are at the same job only after its lock has expired.
LockedUnlessStalled ==
  \A v, w \in Workers :
    v # w /\ Busy(v) /\ Busy(w) /\ workers[v].job = workers[w].job
      => jobs[workers[v].job].stalls > 0

\* Bugs are filed for FAILED runs only, and for each of them at most once for
\* each report (or failed report) of the execution.
BugsFollowReports ==
  \A e \in Execs : \A k \in DOMAIN runs[e] :
    /\ runs[e][k].bugs > 0 => runs[e][k].status = "FAILED"
    /\ runs[e][k].bugs <= reports[e] + faults

\* An execution has a report only when all its tests have been run to an end.
ReportedIsRun ==
  \A e \in Execs : reports[e] > 0 => \A t \in Tests(e) : HasRun(e, t, {"PASSED", "FAILED"})

\* The result of a test run never changes, and runs are only added: neither a second
\* worker on the same execution nor a later attempt writes to a run of another's.
RunsGrow ==
  \A e \in Execs : \A k \in DOMAIN runs[e] :
    /\ k \in DOMAIN runs'[e] /\ runs'[e][k].test = runs[e][k].test
    /\ runs[e][k].status # "RUNNING" => runs'[e][k].status = runs[e][k].status

ResultsAreFinal == [][RunsGrow]_runs

\* Every execution that is started comes to rest: from some point on it is not
\* RUNNING, and PENDING only if it was never started.
EventuallySettled ==
  \A e \in Execs : <>[](/\ rows[e].status # "RUNNING"
                        /\ rows[e].status = "PENDING" => \A j \in Jobs : jobs[j].exec # e)

\* While fewer calls fail than the job has attempts, an execution does not stay RUNNING
\* for ever when its worker dies or fails, unless BullMQ has given up on a job of it
\* because its lock expired too often.
NeverStuckRunning ==
  \A e \in Execs :
    <>[](rows[e].status = "RUNNING" =>
           \E j \in Jobs : /\ jobs[j].exec = e /\ jobs[j].state = "failed"
                           /\ jobs[j].made < Attempts /\ jobs[j].stalls = MaxStalls)

\* The documented state machine has no transition out of CANCELLED; only an
\* explicit start may take a cancelled execution up again.
CancelledStaysCancelled ==
  [][\A e \in Execs : rows[e].status = "CANCELLED" =>
       rows'[e].status \in {"CANCELLED", "PENDING", "deleted"}]_rows

\* cleanupStaleExecutions is for executions "stuck in RUNNING state": none that it
\* fails is being worked on.
CleanupHitsStuckOnly ==
  [][\A e \in Execs, p \in Processors :
       /\ workers[p].pc = "down" /\ workers'[p].pc = "idle"
       /\ rows[e].status = "RUNNING" /\ rows'[e].status = "FAILED"
       => \A w \in Workers : Busy(w) => ExecOf(w) # e]_<<rows, workers>>

\* start: "backend ExecutionProcessor OR automation TestWorker will pick it up":
\* an execution that is queued gets to run.
QueuedGetsToRun ==
  \A e \in Execs : (\E j \in Jobs : jobs[j].exec = e /\ jobs[j].state = "waiting")
                     ~> rows[e].status # "PENDING"

\* The abstract specification: work is owed on e while a start, a job or a worker
\* is at it.
Owed ==
  {e \in Execs :
     \/ \E c \in Calls : calls[c].exec = e /\ calls[c].op \in {"start", "enqueue"}
     \/ \E j \in Jobs : jobs[j].exec = e /\ jobs[j].state \in {"waiting", "active"}
     \/ \E w \in Workers : Busy(w) /\ ExecOf(w) = e}

Lifecycle == INSTANCE ExecutionLifecycle
               WITH status <- [e \in Execs |-> rows[e].status], owed <- Owed

\* Every step of the system is a step of the abstract one.
ImplementsLifecycle == Lifecycle!Spec

\* A start is always dealt with in the end, one way or the other, and leaves the execution
\* neither PENDING nor RUNNING.
EveryStartServed == Lifecycle!Served /\ EventuallySettled
=============================================================================
