# QADash in TLA+

QADash is a test-management product. This directory holds the formal model of its core,
the configurations that model-check it, and machine-checked proofs about it. Source
paths are relative to the repository; `modules/` stands for
`apps/backend/src/modules/`, `automation/` for `apps/automation/src/`.

## 1. The system

| process | what it does | state |
| --- | --- | --- |
| backend (NestJS, several replicas) | REST API and socket gateway; also runs tests itself (`ExecutionProcessor`) | Postgres through Prisma; in memory: live previews, orchestrated jobs |
| Redis | BullMQ queues, among them `execution` | jobs, attempts, locks |
| automation app | `TestWorker`, a second consumer of queue `execution`; `ExecutionEngine`, an in-process pool of workers | in memory |
| ai-engine (Python) | parses documents, generates tests, explains failures | none |
| frontend (Next.js) | pages over the API | the tokens and the user in localStorage, and what each page has fetched |

The parts that carry logic of their own, with their state, their operations, what is hard
about them and what makes them correct:

| component | state | operations | hard behaviour | correct when |
| --- | --- | --- | --- | --- |
| Executions (`modules/executions`) | rows `executions`, `test_runs`, `reports`, `bugs` | create, start, cancel, retry, delete, stale sweep, the loop over the tests | two kinds of worker, double starts, retries, crashes, writes that do not look at the status | a verdict is earned by test runs; results are final; no execution hangs |
| queue `execution` (BullMQ) | jobs with attempts and locks | add, take, complete, fail, stall | locks that expire under a blocked worker, dead workers, replicas | one worker per job unless its lock expired; every start comes to an end |
| ExecutionEngine (`automation/orchestration`) | requests, worker pool, results | startExecution, cancelExecution, the loops, retry | loops of several executions interleave; cancel frees workers whose loops go on | no test left out, no failure hidden, every start answered, workers come back |
| JobCoordinator (`modules/orchestration`) | map `executingJobs` | coordinateJobs, waiting, reporting of statuses | dependency cycles, timeouts, statuses reported while it polls | jobs ordered by dependency; every call answered |
| Bugs (`modules/bugs`) | rows `bugs`, activity log, attachments | create, update, assign, addAttachment, delete | check and write are awaits apart | a status can be traced in the log; moves follow the flow; attachments are kept |
| Security, accessibility scans | scan rows, vulnerabilities, score | start, process, save, cancel | cancel against completion, retries that insert again, a queue nobody serves | a scan ends; its counts are those of one try |
| Performance tests | test row, k6 processes, realtime collection, alerts | run, cancel, close handler, timer | one map entry per test, a timer that fires after the end | no process and no collection is left; verdict and alerts are earned |
| Mobile farm | devices, reservations, executions, all in memory | register, reserve, release, refresh, update, run, cancel | an unawaited run, devices that go and come back | a reservation is held by its user; sessions are closed; a verdict is about all devices |
| File import | import row, mappings, errors, tests | parse, map, process, AI pipeline, delete | every call ignores the status; mappings are replaced one by one | row, errors and tests agree; every field is mapped |
| Queue administration | jobs of the queues | retry one, retry all, remove, pause, resume, drain | a list that is read and worked off later | a job is not tried without bound; it ends |
| Scheduler | schedule rows, repeatable jobs | create, update, delete | row and repeatable job are two writes, and the pattern is read at the second | a readable schedule has its job in the queue, and no job is there that never was scheduled |
| Sessions (`modules/auth`) | refresh tokens | login, refresh, logout, change of the password | revoke and store are two writes; tokens of one second are equal | a login has one session; a sweep leaves none |
| Browser session (`apps/frontend/src/lib`) | localStorage, the user of each tab | request, 401, exchange, login, logout | tabs and late answers share localStorage | requests go out as the user who is shown; a session ends for a reason |
| Test cases (service and page) | rows `tests`, `test_versions`; the list each browser has | upload, edit, delete, bulk delete, generate | work on a list fetched earlier; read the last version, then add the next | nothing hidden is left; the versions tell the history |
| Executions page | list, dialog, polls, requests in flight | click, run, delete, intervals | answers in any order, one interval for two purposes | the dialog shows what was clicked, and its end |

`PROJECT.json` lists these and the remaining components (libraries for test authors, text
processing, pure I/O, generated or declarative code) with the reason why they are or are
not modelled, and under `hazards` the places where each can go wrong. Interactions: the API
writes rows and adds jobs; workers take jobs and write the same rows; the restart of a
backend process sweeps rows that other processes are working on; running a single test from
the tests page creates and starts an execution; the end of a run writes a report and files
bugs; the coordinator, the engine and the rest share nothing with these but the database.

## 2. Modules

| module | what it is |
| --- | --- |
| `Executions` | rows, test runs, queue, both kinds of worker, API requests, crashes |
| `ExecutionLifecycle` | the abstract specification of an execution: status, and work that is owed |
| `ExecutionsInv` | the inductive invariants of `Executions` |
| `ExecutionsProofs` | the proofs of type correctness, and of what a verdict, a report and a lock mean |
| `LifecycleProofs` | the refinement of `ExecutionLifecycle`, and the proofs about failures, counts, bugs and abandoned runs |
| `ExecutionEngine` | the automation app's engine: pool, loops, retry, monitor |
| `JobCoordinator`, `CoordinatorProofs` | coordinateJobs with its sort and its waits, and the job lists it is given; proofs |
| `BugTracking`, `BugTrackingProofs` | bugs, their log and attachments; proofs |
| `LoadTests`, `SecurityScans`, `AxeScans` | a performance test with its k6 processes; a security scan with its queue; an accessibility test |
| `QueueAdmin` | a queue of BullMQ under the calls of its administrators |
| `MobileFarm`, `FileImport`, `Sessions` | the modules `mobile`, `import` and `auth` of the backend |
| `Schedules` | schedule rows and repeatable jobs |
| `TestLibrary` | test cases and their versions, with the page that works on them |
| `BrowserSession` | localStorage, tabs and requests of one browser |
| `ExecutionsPage` | the page of the executions |
| `MC...` | instances for TLC: symmetry sets, sets of requests, sums of modules |
| `ExecutionEngineProofs` | proofs about the engine |
| `ScansProofs`, `ServicesProofs`, `RecordsProofs` | proofs about the parts of `MCScans`, `MCServices` and `MCRecords`, and about their sums |

In every module an action ends where the code awaits: what runs between two awaits is one
step of a single-threaded event loop. An operator whose comment begins with "Mutant" is a
plausible mistake in the definition below it; each property has been seen to fail when such
a mutant takes its place, so that it does depend on the code. They are used nowhere else.

### Executions

| in the model | in the code |
| --- | --- |
| `rows` | table `executions` (status, totalTests, passedTests, failedTests) |
| `runs` | table `test_runs` of each execution in order of creation, and the bugs filed for each |
| `reports` | what `autoCreateReport` has written |
| `jobs` | queue `execution`: state, lock owner, attempts made, stalls |
| `workers` | what each `ExecutionProcessor` and `TestWorker` is at, with its local counts |
| `calls` | API requests between two awaits (start, retry, cancel) |
| `faults`, `crashes` | how many calls have thrown and how many processes have died |

`Begin`, `CreateRun`, `RecordRun`, `Publish`, `Report`, `FileBugs` and `HandleError` are the
awaits of `executeTestsInline` with `ExecutionProcessor.process`, and of
`TestWorker.processExecution`. The two differ where the code does: the processor counts
failures as the tests that did not pass, writes FAILED on an error and throws it again, and
writes reports and bugs; the TestWorker counts failures, lets errors go, and counts a test
twice when storing its result failed. `Pick`, `StallDead`, `StallBlocked`, `Complete` and
`AttemptFailed` are BullMQ (5.76) as the code configures it: three attempts
(`Attempts`), one stall (`MaxStalls`), a lock of 30 s that `execSync` of up to
120 s keeps from being renewed.

Left out: the browser work of a test (`runTest`, `runSingleTest`: either verdict may come
back, whatever was executed), live previews, and the inline mode that runs without a queue.
The backoff between attempts is part of waiting. The TestWorker's lookup of the row and its
update to RUNNING are one step. Jobs that BullMQ has removed after completion are kept: no
code looks at them. Deleting a project or a test cascades to rows in the database; the
model deletes executions only.

### ExecutionEngine

`pool` is `WorkerManager.workers` in the order of its Map, `loops` the running
`executeTestsOnWorker` calls, `results` and `status` the `ExecutionMonitor`, `phase` the
promise of `startExecution`. A spec's run is one nondeterministic verdict. Two facts of the
code shape the model: `executeTest` catches everything, so `retryWithBackoff` runs once more
and is done, whatever `maxAttempts` says, except 0, which makes it throw; and
`startExecution` of a parallel request that found no idle worker resolves at once.

### JobCoordinator

`executingJobs` is the service's map, `coords` the calls of `coordinateJobs`. `Sorted` is
`topologicalSort`, with its recursion as a function of what a loop over calls of visit starts
with: the jobs left, the jobs in progress and the jobs sorted so far (`Visits`). `Visit` is one
turn of such a loop, made of the values at lesser calls: those for the dependencies of the next
job (`OfDeps`), and those for the jobs after it (`OfRest`). `Proceed` registers jobs up to the
next one with dependencies without an await in between, as the code does. `Reported` is what
other parts report of jobs: nothing in this repository calls `updateJobStatus` or
`cancelAllInCoordination`, and the run lets all of it happen to check the design.

### BugTracking

A call keeps what it has read (`seen`, `files`) and writes after later awaits. `Update` is
findById, `CheckLifecycle` the second findById with the check of `updateLifecycle`,
`LogChange` its entry in `activities`, `WriteUpdate` the write. The duplicate check and the
guess of a severity at creation write nothing and are left out, as are Jira and Excel.

### LoadTests, SecurityScans, AxeScans

One row each, and the calls and handlers that share it. In `LoadTests` a run is `pc` (the
request `runTest`), `proc` (its k6 process), `timer` (the `setTimeout` that starts the
realtime collection) and `close` (the close handler up to its alerts); `loadOwner` is the
entry of `runningProcesses`, of which there is one per test, `loadCollecting` that of
`realtimeIntervals`. A restart (`LoadCrash`) takes maps, timers and handlers with it and
leaves the row. In `SecurityScans` a job goes through `TakeScan`, `BeginScan`, `SaveScan`,
`InsertVuln` (once per finding) and `EndScan`, and `FailScan` is the catch, which writes
FAILED and throws on, so that BullMQ tries again; `scanProvided` says whether the processor is
in some module's providers: in this repository it is not, and the run has it both ways. In
`AxeScans` the score is computed as the code does, rounding included. What the scanners and
rules find is a nondeterministic number. Left out: the schedules of the three, whose rows
never get a `nextRunAt`, the dependency scan, and the definitions of the tests, which are
single writes.

### QueueAdmin and Schedules

`QueueAdmin` is one queue: `AddJob`, `TakeJob`, `JobEnds`, `StallJob` and `Due` are BullMQ,
the rest the calls of `QueueController`. `retryAllFailed` reads a list (`ListFailed`), with
the attempts its jobs had then, and retries one job after the other (`RetryNext`); the first
that is not failed any more makes it throw. `Schedules` keeps the rows of table `jobs` and
what BullMQ has for each cron pattern; `scheduleJob` gives every repeatable job one name, so
that of two with one pattern one is kept (the first while its date is to come, the new one
afterwards: `JobsAfter`), and nothing ever removes one. A pattern is any string, as in the
DTOs; cron-parser throws on those in `Malformed`, when the job is added and the row is
written (`RejectPattern`). A job in the queue is all there is to a schedule: nothing in the
repository consumes the queue.

### MobileFarm, FileImport, Sessions

`MobileFarm` has the maps of the two services, keyed as the code keys them: `reservations`
is asked to delete a device id when a device goes. `refreshDevices` is two steps, as it
awaits a fetch: `RefreshDevices` clears the map, `DiscoverDevices` is an answer of Appium,
which sets each of its sessions to available under the session's id, over what is there; it
may list nothing, as when the fetch fails, and the constructor's own call is one more of
them. A device from Appium can so return under its id, a registered one has a new id each
time (`from`). `reset` notes in a reservation that its device was discovered again or set by
hand (`updateDeviceStatus`, `updateDevice`); the code keeps no such note, and no route of
the repository leads to the refresh and the updates. An execution takes its devices in turn,
which may be out of the map by then. `FileImport` has the five calls about one import, none
of which looks at the status first; parsing and the pipeline are nondeterministic numbers of
rows. `Sessions` is the refresh tokens of one user by the second they are signed in (a JWT's
only varying claim), with every await of login, refreshToken, logout and changePassword;
passwords, roles and the user row are left out.

### TestLibrary, BrowserSession, ExecutionsPage

The state of a page is per browser (`libLists`, `libCalls`; `pageList`, `pageDialog`,
`pageRequests`), the backend's is shared. In `TestLibrary` a test's `kind` is what
`_isGroup` and `_sourceFileName` of its config make of it; an upload sends its creations at
once and a deletion its cases at once, each of which may fail alone. The page's AI mapping
(`handleMapAI`, one more update with the configuration of the list) is left out. `BrowserSession` has one
localStorage; `now` says of a tab or of a request whether the session is still the one it
began with. The backend is there what it is to a client: a token is accepted until it
expires, and a refresh token is exchanged once (`Sessions` has the details). In
`ExecutionsPage` requests are a set, answered in any order; `pagePoll` is the interval in
`pollIntervalRef`.

## 3. Runs

| run | asks | bounds |
| --- | --- | --- |
| `exec_double_start` | is a verdict earned, a count consistent, a report complete, and every start served, when two requests start, cancel and delete one execution? | 1 execution of 0-2 tests, 2 jobs, 2 requests, a processor, a TestWorker; no failures |
| `exec_recovers` | do two workers share a job, are runs abandoned, are bugs filed for failures only, are results final, and does an execution stay RUNNING when something dies? | 2 processors, a TestWorker, 1 job, 0-2 tests, a crash, a stall, a failing call, 3 attempts; an execution of two tests meets no crash (`RecoverySpec`) |
| `exec_lifecycle` | does the system implement `ExecutionLifecycle`? | 2 executions, 2 jobs, a crash; retry and single-test runs included |
| `engine` | how many loops run on a worker, which workers come back, is every start answered, does every test get a result, does a failure stay? | 2 executions, 2 workers, requests of 0-3 tests for 1-2 workers, all retry settings, a cancel; a request of several tests runs alone (`EngineSpec`) |
| `coord_graphs` | is the order by dependency, are dependencies completed first, is the call answered? | every graph with at most 2 dependencies per job on 2 and 3 jobs, alone; every choice of test types beside tests with a security scan (`GraphsSpec`) |
| `scans` | does a row say in the end what happened, what is left running, which rows belong to the result, how often is a job tried? | 2 runs and a cancel of a load test, a security scan or an accessibility test, a failing call, 1-2 restarts; 2 jobs under 2 calls of administrators, 2 stalls |
| `services` | are reservations held, sessions closed, imports counted, tokens accounted for, dialogs right? | 1 device, registered or Appium's, 2 users, 2 bookings, a refresh besides the discovery at the start, an update by hand, an execution of up to 2 devices; 2 calls on an import of 2 rows and fields; 3 calls in 3 seconds; 2 executions on a page, 2 clicks; a failure each |
| `records` | what does the log of bugs explain, which attachments are lost, what is left of the tests, whose tokens do requests carry, which schedules have a job? | 2 bugs, 3 calls; 2 browsers, 4 tests, 3 clicks; 2 tabs, 2 users, 2 requests, 2 logins, an exchange; 2 schedules, 3 patterns, one of them malformed, 3 calls; a failure each |
| `exec_cancelled`, `exec_cleanup`, `exec_disabled_queue`, `bugs_flow` | see section 5 | the smallest that show it |

Why these are enough. The code treats executions independently but for the queue and the
worker processes, so that one execution with two jobs, or two executions with one each, show
the interference there is; a third job adds a third worker to the same two races. Two tests
are the least at which the loop has a first and a last test, three the least at which
`chunkTests` divides unevenly. One crash and one failing call, at every point, cover each
single failure; `Attempts` exceeds the number of failures where a property depends on it.
Three calls on bugs are a reader, a writer and one that comes between. Three jobs with
all graphs contain every cycle, self-loop, shared dependency and repetition up to that
size. Two runs of one scan, or two calls on one import, are what can cross; the third call of
`Sessions` is the sweep under two refreshes, the third click of `TestLibrary` the edit
between an upload and a deletion.

`scans`, `services` and `records` are sums: in its initial state a behaviour is one of one of
the modules, the others standing still (`service` says whose). These parts share no state,
so that interleaving them would show nothing, and one run has one set of options for all.

What is bounded: executions, jobs, calls, bugs and coordinations by their identifier
sets, each used once (`CHECK_DEADLOCK FALSE` because they are then used up and the
system stops), `MaxTests`, `MaxFaults`, `MaxCrashes`, `MaxCancels`. `SpareJob` keeps a
start from being made when no job identifier is left. Symmetry is used in
`exec_lifecycle` and `bugs_flow` only, which check no liveness.

What the passing runs show, in the terms of the code:

- `PassedIsEarned`, `ReportedIsRun`: neither a second job on the same row, nor a later
  attempt over the runs of an earlier one, nor a cancel or a delete in between makes an
  execution PASSED, or puts it into a report, without a run for each of its tests.
- `CountsAddUp`: the counts of a row are those of one attempt, except that the TestWorker
  counts a test twice when the update of its run throws (`test.worker.ts:98`).
- `FailedIsExplained`, `NoRunAbandoned`, `BugsFollowReports`: FAILED without a failed run,
  runs left RUNNING and bugs beyond the reports are due to failures and crashes, and no more
  of them than there were.
- `LockedUnlessStalled`, `ResultsAreFinal`: only an expired lock puts two workers on a job,
  and even then they never write to each other's test runs.
- `EveryStartServed`, `NeverStuckRunning`: without failures a started
  execution leaves PENDING and RUNNING; with fewer failing calls than attempts it does not
  stay RUNNING, unless BullMQ gave the job up for its stalls. A TestWorker all of whose
  attempts fail leaves the row RUNNING until a backend process restarts: it has no catch
  that writes FAILED.
- `OneLoopPerWorker`: each cancel may put one loop more on a worker (`releaseWorkers` frees
  workers whose loops go on), and nothing else does. `WorkersComeBack`: a sequential request
  for several workers keeps all but the first for ever (`execution-engine.ts:123`), and so
  does a loop that throws.
- `ResolvedIsComplete`, `FailureSticks`, `EveryStartAnswered`: see their comments; the first
  excludes executions that found no idle worker, which resolve without a test.
- `OrderRespectsDeps`, `DependenciesFirst`, `EveryCoordinationEnds`: the sort is right on
  every graph, cycles apart; a failed dependency holds the call up until its timeout. The
  middle one is about a coordination that shares no job with another (`Apart`): a second one
  of the same execution sets completed jobs back to pending, and without that premise TLC
  finds it violated. `OrderRespectsDeps` compares with `Needs`, which is no recursion: the
  jobs that are in every set closed under dependencies.
- `StatusInLog`, `LostInOverlapOnly`: both are proved below; the second says which
  attachments get lost.
- `ScansSettle`, `ScansEnd`: a load test, a scan, an accessibility test that nothing is at
  work on any more has ended, but for failures and restarts, a second restart in the case of
  a scan. `LoadSound`: a process can be cancelled, unless a second run of the test replaced
  its entry (`k6-execution.service.ts:77`); the collection stops, unless its timer fired
  after the end (`metrics-collector.service.ts:214`); COMPLETED is an exit with 0 or, as
  `null || 0` is 0, the signal of a cancel. `ResultsOfOneTry`: vulnerabilities and score are
  those of one try, unless the scan was tried again, which inserts them again.
- `RetriesBounded`: two overlapping retryAllFailed retry a job twice; on queues of three or
  more attempts it retries only jobs whose worker was lost twice.
- `ReservationsHold`: until its device is released, discovered again or set by hand, a
  reservation has it busy for its user, or outlives it, and no second one has it. An answer
  of Appium makes a reserved device available under its old id while the reservation stays
  (`device-management.service.ts:53`), so that the next user gets it too. `FarmRunsSound`,
  `ImportSound`: see their comments.
- `TokensAccounted`: overlapping refreshes of one token give it two successors; a token
  signed in the same second as another of the user is lost. `SweepLeavesNone`: a token that
  is stored after a change of the password stays, as the code stores it without looking.
- `DialogSound`: five ways in which answers cross are exempted by name, and no other shows
  the wrong execution or leaves a dialog RUNNING.
- `LibrarySound`: a case nobody can reach is left by an edit of its group
  (`page.tsx:837` drops the list of cases) or by a failure, which the page swallows; versions
  have no gaps, and the last is the test, overlapping updates apart.
- `ActsAsShown`, `EndsExplained`: only the late answer to an exchange begun in an earlier
  session mixes two users' tokens (`client.ts:61`); a session ends at its second exchange,
  as the client keeps the refresh token it has used up (`client.ts:60`).
- `SchedulesHaveJobs`: a row with a readable pattern has a repeatable job in the queue, its
  own or another's with that pattern, unless the call that wrote it is on its way or failed at
  Redis; one with a malformed pattern has none, Redis healthy or not, and its caller got an
  error; a pattern's job is one, for a row that was given the pattern. That a job is
  worked off is not said: nothing consumes the queue.

A property that the code can break in a known way names that way and exempts it, so that it
says that there is no other: retries and tests listed twice in `FailureSticks`,
coordinations that share jobs in `DependenciesFirst`, second runs and cancels in `LoadSound`,
repeated tries in `ResultsOfOneTry`, overlapping refreshes in `TokensAccounted`, tokens stored
after the sweep in `SweepLeavesNone`, the crossings of `DialogSound`, late exchanges in
`ActsAsShown`. The hazard is in these cases the exemption, and is not reported by a run.
`JobCoordinator` assumes that whoever reports statuses does not report a second end of a job:
`updateJobStatus` does not look, and has no caller. The expiry of a refresh token after seven
days and its revocation by a change of the password are, in `BrowserSession`, a failing
exchange.

### Fairness

`Executions!Fairness`: handlers and workers go on while their process lives (they wait for
the database, for Redis and for browsers with timeouts); a dead process is restarted (the
Deployments of `k8s/base/platform.yaml`); BullMQ hands out waiting jobs, and moves those
of dead workers when their lock has expired. Requests, crashes, failing calls and
`StallBlocked` are not fair: nothing forces them. `ExecutionEngine!Fairness`: the loops'
promises go on; a spec ends by its timeout. `JobCoordinator!Fairness`: the poll runs every
100 ms and rejects after 300000 ms, so that one of its three steps is always taken in the
end; the reports of statuses are not fair. `LoadFair`: promises and the events of processes
are served, and k6 ends, as a run has a duration or a number of iterations. `ScanFair`,
`QueueFair`: workers take jobs and come to an end with them, delays pass and stalled jobs
are looked for. `FarmFair`, `ImportFair`: promises go on; Appium, the database and the
pipeline answer or time out. `PageFair`: the server works on what is queued, the requests of
the list are answered and the timers of a browser fire; users need do nothing more.
`BrowserSession`, `TestLibrary`, `Sessions`, `Schedules` and `BugTracking` have properties of
safety only, and no fairness.

## 4. Proofs

TLAPS checks, for every value of the constants (every number of executions, jobs, requests,
workers, tests, job lists, bugs, calls, devices, rows, tabs, attempts, failures and crashes):

| module | theorem | property |
| --- | --- | --- |
| `ExecutionsProofs` | `TypeCorrect` | `TypeOK` |
| | `VerdictsEarned` | `PassedIsEarned` |
| | `ReportsComplete` | `ReportedIsRun` |
| | `LockKeepsApart` | `LockedUnlessStalled` |
| | `ResultsFinal` | `ResultsAreFinal` |
| `LifecycleProofs` | `LifecycleImplemented` | `ImplementsLifecycle` |
| | `FailuresExplained` | `FailedIsExplained` |
| | `CountsAgree` | `CountsAddUp` |
| | `BugsFollow` | `BugsFollowReports` |
| | `AbandonedByFailures` | `NoRunAbandoned` |
| `ExecutionEngineProofs` | `EngineTypeCorrect` | `TypeOK` |
| | `WorkersNeverShared` | `OneLoopPerWorker` |
| | `WorkersAlwaysComeBack` | `WorkersComeBack` |
| | `ResolvedAlwaysComplete` | `ResolvedIsComplete` |
| | `FailureAlwaysSticks` | `FailureSticks` |
| `CoordinatorProofs` | `CoordinatorTypeCorrect` | `TypeOK` |
| | `OrderAlwaysRight` | `OrderRespectsDeps` |
| | `AcyclicInOrder` | of `Sorted` itself: without cycles no exception |
| | `DependenciesAlwaysFirst` | `DependenciesFirst` |
| `BugTrackingProofs` | `BugsTypeCorrect` | `TypeOK` |
| | `StatusTraceable` | `StatusInLog` |
| | `AttachmentsAccounted` | `LostInOverlapOnly` |
| `ScansProofs` | `ScansKeepTheirTypes` | `ScansTypeOK` |
| | `ScansAlwaysSettle` | `ScansSettle` |
| | `LoadAlwaysSound` | `LoadSound` |
| | `ResultsAlwaysOfOneTry` | `ResultsOfOneTry` |
| | `RetriesAlwaysBounded` | `RetriesBounded` |
| `ServicesProofs` | `ServicesKeepTheirTypes` | `ServicesTypeOK` |
| | `ReservationsAlwaysHold` | `ReservationsHold` |
| | `FarmRunsAlwaysSound` | `FarmRunsSound` |
| | `ImportAlwaysSound` | `ImportSound` |
| | `TokensAlwaysAccounted` | `TokensAccounted` |
| | `NoneSurvivesASweep` | `SweepLeavesNone` |
| | `DialogAlwaysSound` | `DialogSound` |
| `RecordsProofs` | `RecordsKeepTheirTypes` | `RecordsTypeOK` |
| | `LibraryAlwaysSound` | `LibrarySound` |
| | `AlwaysActsAsShown` | `ActsAsShown` |
| | `EndsAlwaysExplained` | `EndsExplained` |
| | `SchedulesAlwaysHaveJobs` | `SchedulesHaveJobs` |

All that is assumed of the constants are the `...Assumption`s of the modules: bounds are
natural numbers, a placeholder is not one of the things it stands in for, and the sets whose
members are counted (executions of the engine, calls of `Sessions`) are finite; where a proof
counts members of another set, such as workers that file bugs, it proves that there are
finitely many. The runs whose specification is narrower (`EngineSpec`, `RecoverySpec`,
`GraphsSpec`) are instances of the theorems too, since each of their behaviours is one of
`Spec`; the theorems about one part of a sum are about that part's own specification, or about
the sum.

Every proof has the same shape: an inductive invariant, of which TLC has checked each part
first, one lemma for what one step may do at all (a frame), one lemma per action and
conjunct it can disturb, and a theorem that combines them.

**Executions.** `PassedIsEarned` is not inductive: it says nothing of the worker that is
about to publish. `IInv` adds what that worker knows. `CallsKnown`, `JobsKnown`,
`AtKnownJob` tie requests, jobs and workers to rows that exist or existed, `NewUnreported`
keeps reports off rows that do not. `LoopOk` relates the counts of a worker in its loop to
the test runs it has finished (for a processor, as many passed as finished means that each
has a passed run; for a TestWorker, none failed does). `CurrentOk` says that the run a worker
is busy with is its own: RUNNING, of its current test, and nobody else's. `ReportingOk`
carries the verdict's evidence from the row to the report. `LockInv` needs in addition that
a worker on a job that never stalled still holds its lock, or the job has failed for good.

On `IInv` rest four smaller invariants. `BlameInv`: a worker in its loop that has counted
a failure has a failed run to show for it, and one that is about to write FAILED, or is down,
has an error behind it. `CountInv`: what a TestWorker has counted exceeds what it has
finished by at most the calls that threw. `BugInv`: the bugs of a run and the workers that
are still filing bugs are together at most the reports and failures; it is inductive because
a worker files for each run once per report. `AbandonInv` says that each abandoned run has
its own error or dead process, by counting: a step abandons at most the one run its worker
was at (`CurrentOk`), and pays for it.

The refinement (`LifecycleImplemented`) shows that every step of the whole system, with the
status of each row and `Owed`, the executions some request, job or worker still owes work
on, is one step of `ExecutionLifecycle` or a stutter. What is owed is the hard part: a step
that takes it from one of the three has to give it to another, or leave it with a second
worker or a second job.

**Engine.** `EngInv` adds two facts to the properties. `LoopKnown`: a loop has a result
for each test of its list it has been through, and is through when it has ended. `Covers`:
the lists of an execution's loops hold all its tests. The first is kept by every step of a
loop (`StepKeeps`, of which each action is an instance), the second is made at the start:
workers are numbered without gaps (`EveryRank`), `Math.ceil` makes k chunks of n tests long
enough for all (`ChunksCover`), and a request for one worker gets one (`OnlyOne`). Counting
loops on a worker against the cancels is arithmetic on cardinalities. `FailureSticks` needs
the converse, that chunks do not overlap (`ChunksApart`), and `StickInv`: the tests the loops
have still before them are in one loop each and have no result yet, so that a result that
says failed is never written over.

**Coordinator.** What `topologicalSort` returns is an induction over its recursion, and the
provers cannot use the library's theorems about induction and recursive definitions, whose
parameter is an operator. Both can be had from facts about sets. A set of natural numbers has
a least member (`LeastNumber`), so that of the calls for which a claim is wrong one has least
left to do, and the claim is right for the calls it makes. And that a recursive function
exists (`Recursion`) is proved of a functional G that is a function itself, by choosing at
each argument from the functions that follow G up to there. `Within` is the order: a call
has fewer jobs that are not in progress than the one that makes it, or as many and fewer left
(`VisitsFounded`, `CallsAreLess`); so `Visited` is what its definition says, a function into
lists of the jobs given, and visit terminates on every list (`VisitedIs`). The induction
(`VisitedAfter`) carries what makes the sort right: a call is made for jobs that all those in
progress depend on (`Before`), and what it adds is in order, not in progress, and has each
job it is made for that is not in progress (`After`). A dependency that is not before its job
is in progress, hence on a cycle with it. `CoordInv` then ties each coordination to the order
of its request (`Listed`) and says of one that is apart from the others that what it has
registered stays registered and what the jobs let in depend on is over (`Passed`). The first
half is needed for the second: an unregistered dependency is not waited for, so that the wait
means something only because the order has put dependencies first, and each job once.

**Bugs.** The history only grows (`HistoryGrows`), so that what it explained stays explained
(`StillExplained`); `Pending` says of each call between two awaits that the status it is about
to write is one the log already explains. Note what makes it work: the code writes the log
entry before the row, so that a failure in between leaves an entry too many and never one
too few. For attachments `FilesDone` says that a column, and whoever has read it, has those
of calls that are done: a write takes away only what was stored after its read, by a call
that had not read its own.

**Scans.** `LoadInv` says where a run, its process, its timer and its handler are (`RunKnown`),
that a status which is not final has a run that will still write it, and counts the alerts'
events that are still to be counted. `ScanInv` has for each job what its place says of its
tries and stalls (`ScanJobKnown`) and, before anything fails, how many rows are inserted
(`RowsInv`). `AxeInv` keeps the run whose findings the row holds; `ScoreRounds` is the
arithmetic of `Math.round`. `QueueInv` bounds a job's tries by those it has had and those
the calls that have it on their list may still give it (`MostBounded`), which a step that
retries moves from one side to the other.

**Services.** For the refresh tokens, `StoredByCall` and `KnownCall` give every valid token
to a call that has stored it and every exchanged one to a call that has revoked it, so that
counting calls counts sessions. `FarmInv` has the results of an execution one for each
device it is done with, and of each reservation that its device has been in the map and,
unless it was reset, is busy for the user or gone (`HeldFor`): one that is available has
then none that is held, which is what makes the next reservation the only one. In
`ImportInv`, `Anchor` is the call since whose deletion nobody has deleted mappings: its own
are all there up to where it is, whoever else creates some; `ErrorsInv` counts the errors of
each call. `PageInv` says what each request in flight may bring (`AnswerKnown`, `ListKnown`)
and what the dialog waits for or shows (`Opening`, `Showing`, `Following`), as long as none
of the crossings has happened.

**Records.** For the browser, `StoredKnown` says whose tokens localStorage has, `RequestsKnown`
and `TabKnown` what a request in flight and a tab remember of them, and `Ordered` that tokens
are issued in turn, so that an answer never brings a token already known. `DeniedInv` adds
that a request refused in the session it began in was refused for a token that is used up.
For schedules `AddsWritten` says that a call adds only what it has written; a call that has
begun to add stays findable by its row and pattern until it says how it ended (`CallAt`), which
ties a row without a job to the call that failed or was rejected. The library's
`LibInv` is about old lists: a list may be stale, but every case it hides was one of a group
(`ListKnown`, `OneGroup`), a case is in a group, an upload or a deletion (`Reached`), who
deletes a group deletes its cases and the other way round (`Together`), the numbers of
versions are 1 to n (`Counted`), and unless updates overlapped one writes at a time (`Told`).

What the proofs changed in the model. A job of `QueueAdmin` can be stalled as often as a worker
is lost, since a retry gives it to a worker again: a bound of two, which the run's two losses
never showed to be wrong, is no type of it. `MobileFarm` and `ExecutionsPage` did not say that
`Nobody` is no user and `Nothing` no execution; they do now. The sort of `JobCoordinator` is
one recursion over calls instead of folds within a recursion, and `Needs` the least closed set
instead of a transitive closure of the community modules, about which the provers know nothing;
TLC has found both equal to what they replace on all graphs of the run. `DependenciesFirst` was
checked for one coordination and is false of two that share a job; it says now what it is true
of, and the run has two.

Model-checked only is everything temporal under fairness, which is out of the prover's reach:
`EveryStartServed`, `NeverStuckRunning`, `EveryStartAnswered`, `EveryCoordinationEnds`,
`ScansEnd`, `ServicesEnd`. That the code contradicts its documents (section 5) is shown by
counterexamples and needs no proof.

## 5. What the code does otherwise

Four runs show the code contradict what it or its documentation says:

- `exec_cancelled` (`CancelledStaysCancelled`): cancel does not take the job out of the
  queue, and the worker that takes it sets RUNNING and later the verdict
  (`executions.service.ts:258`). ENTERPRISE_ARCHITECTURE.md:1333 has no way out of CANCELLED.
- `exec_cleanup` (`CleanupHitsStuckOnly`): any starting replica fails whatever has been
  RUNNING for 15 minutes, also what another replica is at work on.
- `exec_disabled_queue` (`QueuedGetsToRun`): a TestWorker that is not enabled still takes jobs
  and throws them. When it gets all the attempts the execution stays PENDING.
- `bugs_flow` (`StatusMovesByFlow`): two updates that were both allowed when they were
  checked make a transition together that is not.

Met while modelling, and without a run of their own, as no document or test of the
repository speaks of them; the properties above carry them as exemptions:

- executions: a cancel that read a running status overwrites a verdict written meanwhile
  (`executions.service.ts:187-190`).
- bugs: two overlapping `addAttachment` calls lose a url (`bugs.service.ts:147`).
- coordinator: nothing reports statuses to it, so that a security scan or an AI analysis
  selected together with tests is never registered and the call rejects after five minutes
  (`job-coordinator.service.ts:104`, against API_CONTRACTS.yaml:241); a second coordination
  of an execution sets its completed jobs back to pending.
- security: no module provides `SecurityScanProcessor` (`security.module.ts`), so that every
  scan stays PENDING; a retry inserts the vulnerabilities again (`security-queue.service.ts:97`).
- performance, security and accessibility schedules: their rows never get a `nextRunAt`, which
  is what the poll looks for.
- accessibility: axe's impacts are in lower case and the column's enum in upper case: the
  first issue that is stored makes the run throw, after the row says COMPLETED.
- mobile: `reservations.delete` is given a device id, the map's keys are reservation ids
  (`device-management.service.ts:149`), and a refresh makes a reserved device available
  (lines 53 and 80); executions do not ask for reservations.
- sessions: the client keeps a refresh token the backend has revoked, and its logout is not
  told to the backend.
- test cases: a group that is edited forgets its cases (`page.tsx:837`); a failed deletion is
  reported as a success.
- scheduler: repeatable jobs are never removed, and nothing consumes the queue `scheduler`; a
  pattern that cannot be read is stored and then rejected (`scheduler.service.ts:46`), which
  leaves a row without a job.
- queues: `retryAllFailed` finds nothing to retry on the queue of the executions, as their
  failed jobs have made three attempts (`queue-health.service.ts:166`).
- sockets: pages listen to events nobody emits, and join rooms named by an object.

## 6. Not modelled, and what is next

Not modelled, with reasons by component in `PROJECT.json`: code nothing calls (the report, AI and
notification processors, the realtime gateway and the scaling of the automation app, the
registry, in which only the backend registers itself); single reads and writes (users,
projects, environments, analytics, most pages of the frontend); text processing (requirements,
validation, the generator, the ai-engine), where the words decide everything; I/O on browsers and
layouts (page objects, self-healing locators, reports). They are most of the repository's
lines, and there is no state in them a step of another actor could disturb.

Next: the schedules of the three kinds of scan, should they get a `nextRunAt`; `QueueAdmin`
composed with the queue of `Executions`, and the refinement of a queue they share.
