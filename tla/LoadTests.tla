----------------------------- MODULE LoadTests -----------------------------
(***************************************************************************)
(* The performance module: runs of one test.  A request starts a k6        *)
(* process and returns; the process's close handler, a timer and the calls *)
(* of cancelTest then share the test's row, the map of running processes,  *)
(* which holds one process per test, and the realtime collection.          *)
(***************************************************************************)
EXTENDS Naturals

CONSTANTS
  LoadRuns,        \* calls of runTest, by a user or a due schedule
  LoadCancels,     \* calls of cancelTest
  MaxLoadFaults,   \* bound: calls (to the database, of mkdir or writeFile) that fail
  MaxLoadCrashes   \* bound: restarts of the backend

ASSUME LoadAssumption == MaxLoadFaults \in Nat /\ MaxLoadCrashes \in Nat

VARIABLES
  loadStatus,      \* the row's status
  loadRuns,        \* each call of runTest, with its process, timer and close handler
  loadOwner,       \* runningProcesses.get(testId)
  loadCollecting,  \* realtimeIntervals.has(testId)
  loadCancels,     \* each call of cancelTest
  loadAlert,       \* an alert's events and its triggeredCount
  loadFaults,
  loadCrashes

loadVars == <<loadStatus, loadRuns, loadOwner, loadCollecting, loadCancels, loadAlert,
              loadFaults, loadCrashes>>

-----------------------------------------------------------------------------
NoRun == "none"

\* pc is the request, proc the k6 process, timer the 2 s timer, close the close handler.
LoadRun ==
  [pc : {"new", "found", "queued", "running", "returned", "threw", "dead"},
   proc : {"none", "live", "signalled", "ended"}, code : {"none", "zero", "error", "null"},
   timer : {"none", "armed", "fired", "late"},
   close : {"none", "reading", "written", "event", "rescue", "done"}]

LoadInit ==
  /\ loadStatus = "DRAFT"
  /\ loadRuns = [r \in LoadRuns |->
       [pc |-> "new", proc |-> "none", code |-> "none", timer |-> "none", close |-> "none"]]
  /\ loadOwner = NoRun /\ loadCollecting = FALSE
  /\ loadCancels = [c \in LoadCancels |-> "new"]
  /\ loadAlert = [events |-> 0, counted |-> 0]
  /\ loadFaults = 0 /\ loadCrashes = 0

Fault == loadFaults < MaxLoadFaults /\ loadFaults' = loadFaults + 1

-----------------------------------------------------------------------------
(* runTest and executeTest.                                                *)

\* findUnique; its status is not looked at.
FindTest(r) ==
  /\ loadRuns[r].pc = "new"
  /\ loadRuns' = [loadRuns EXCEPT ![r].pc = "found"]
  /\ UNCHANGED <<loadStatus, loadOwner, loadCollecting, loadCancels, loadAlert, loadFaults,
                 loadCrashes>>

QueueTest(r) ==
  /\ loadRuns[r].pc = "found"
  /\ loadRuns' = [loadRuns EXCEPT ![r].pc = "queued"]
  /\ loadStatus' = "QUEUED"
  /\ UNCHANGED <<loadOwner, loadCollecting, loadCancels, loadAlert, loadFaults, loadCrashes>>

\* mkdir, then the row is RUNNING.
StartTest(r) ==
  /\ loadRuns[r].pc = "queued"
  /\ loadRuns' = [loadRuns EXCEPT ![r].pc = "running"]
  /\ loadStatus' = "RUNNING"
  /\ UNCHANGED <<loadOwner, loadCollecting, loadCancels, loadAlert, loadFaults, loadCrashes>>

\* Mutant: the process of a test that was cancelled meanwhile is not noted.
SpawnUnnoted(r) ==
  /\ loadRuns[r].pc = "running"
  /\ loadRuns' = [loadRuns EXCEPT ![r] =
       [@ EXCEPT !.pc = "returned", !.proc = "live", !.timer = "armed"]]
  /\ loadOwner' = IF loadStatus = "CANCELLED" THEN loadOwner ELSE r
  /\ UNCHANGED <<loadStatus, loadCollecting, loadCancels, loadAlert, loadFaults, loadCrashes>>

\* writeFile, spawn, the map's entry, the handlers and the timer; the request returns.
Spawn(r) ==
  /\ loadRuns[r].pc = "running"
  /\ loadRuns' = [loadRuns EXCEPT ![r] =
       [@ EXCEPT !.pc = "returned", !.proc = "live", !.timer = "armed"]]
  /\ loadOwner' = r
  /\ UNCHANGED <<loadStatus, loadCollecting, loadCancels, loadAlert, loadFaults, loadCrashes>>

\* A call of the request fails: nothing undoes what was written.
RunTestThrows(r) ==
  /\ loadRuns[r].pc \in {"new", "found", "queued", "running"}
  /\ Fault
  /\ loadRuns' = [loadRuns EXCEPT ![r].pc = "threw"]
  /\ UNCHANGED <<loadStatus, loadOwner, loadCollecting, loadCancels, loadAlert, loadCrashes>>

\* The timer of 2 s: startRealtimeCollection, whether or not the process still runs.
TimerFires(r) ==
  /\ loadRuns[r].timer = "armed"
  /\ loadRuns' = [loadRuns EXCEPT ![r].timer =
       IF loadRuns[r].close = "none" THEN "fired" ELSE "late"]
  /\ loadCollecting' = TRUE
  /\ UNCHANGED <<loadStatus, loadOwner, loadCancels, loadAlert, loadFaults, loadCrashes>>

-----------------------------------------------------------------------------
(* The process and its handlers.                                           *)

\* k6 ends by itself with a code, or after SIGTERM with one or with none.
ProcessEnds(r) ==
  /\ loadRuns[r].proc \in {"live", "signalled"}
  /\ \E code \in {"zero", "error", "null"} :
       /\ code = "null" => loadRuns[r].proc = "signalled"
       /\ loadRuns' = [loadRuns EXCEPT ![r] = [@ EXCEPT !.proc = "ended", !.code = code]]
  /\ UNCHANGED <<loadStatus, loadOwner, loadCollecting, loadCancels, loadAlert, loadFaults,
                 loadCrashes>>

\* k6 cannot be started: the error handler, whose update may fail; 'close' follows.
SpawnFails(r) ==
  /\ loadRuns[r].proc = "live" /\ loadRuns[r].timer = "armed"
  /\ loadRuns' = [loadRuns EXCEPT ![r] = [@ EXCEPT !.proc = "ended", !.code = "error"]]
  /\ loadOwner' = NoRun
  /\ \/ loadStatus' = "FAILED" /\ UNCHANGED loadFaults
     \/ Fault /\ UNCHANGED loadStatus
  /\ UNCHANGED <<loadCollecting, loadCancels, loadAlert, loadCrashes>>

\* 'close': the test's entry goes, whoever's it is, and the collection stops.
Close(r) ==
  /\ loadRuns[r].proc = "ended" /\ loadRuns[r].close = "none"
  /\ loadRuns' = [loadRuns EXCEPT ![r].close = "reading"]
  /\ loadOwner' = NoRun /\ loadCollecting' = FALSE
  /\ UNCHANGED <<loadStatus, loadCancels, loadAlert, loadFaults, loadCrashes>>

\* Mutant: only a good end is written.
VerdictOfSuccess(code) == IF code = "error" THEN loadStatus ELSE "COMPLETED"

\* handleTestCompletion(testId, code || 0)
Verdict(code) == IF code = "error" THEN "FAILED" ELSE "COMPLETED"

\* The results and metrics have been read: the verdict is written over any status.
Complete(r) ==
  /\ loadRuns[r].close = "reading"
  /\ loadRuns' = [loadRuns EXCEPT ![r].close = "written"]
  /\ loadStatus' = Verdict(loadRuns[r].code)
  /\ UNCHANGED <<loadOwner, loadCollecting, loadCancels, loadAlert, loadFaults, loadCrashes>>

\* checkThresholds: the alert does not trigger, or its event is created ...
CheckThresholds(r) ==
  /\ loadRuns[r].close = "written"
  /\ \/ loadRuns' = [loadRuns EXCEPT ![r].close = "done"] /\ UNCHANGED loadAlert
     \/ /\ loadRuns' = [loadRuns EXCEPT ![r].close = "event"]
        /\ loadAlert' = [loadAlert EXCEPT !.events = loadAlert.events + 1]
  /\ UNCHANGED <<loadStatus, loadOwner, loadCollecting, loadCancels, loadFaults, loadCrashes>>

\* ... and then counted, by an increment in the database.
CountAlert(r) ==
  /\ loadRuns[r].close = "event"
  /\ loadRuns' = [loadRuns EXCEPT ![r].close = "done"]
  /\ loadAlert' = [loadAlert EXCEPT !.counted = loadAlert.counted + 1]
  /\ UNCHANGED <<loadStatus, loadOwner, loadCollecting, loadCancels, loadFaults, loadCrashes>>

\* A call of handleTestCompletion fails, the alerts' included ...
CompletionThrows(r) ==
  /\ loadRuns[r].close \in {"reading", "written", "event"}
  /\ Fault
  /\ loadRuns' = [loadRuns EXCEPT ![r].close = "rescue"]
  /\ UNCHANGED <<loadStatus, loadOwner, loadCollecting, loadCancels, loadAlert, loadCrashes>>

\* ... and its catch writes FAILED, or fails too and the rejection is logged.
Rescue(r) ==
  /\ loadRuns[r].close = "rescue"
  /\ loadRuns' = [loadRuns EXCEPT ![r].close = "done"]
  /\ \/ loadStatus' = "FAILED" /\ UNCHANGED loadFaults
     \/ Fault /\ UNCHANGED loadStatus
  /\ UNCHANGED <<loadOwner, loadCollecting, loadCancels, loadAlert, loadCrashes>>

-----------------------------------------------------------------------------
(* cancelTest.                                                             *)

\* The status is read; DRAFT and what has ended cannot be cancelled.
ReadForCancel(c) ==
  /\ loadCancels[c] = "new"
  /\ loadCancels' = [loadCancels EXCEPT ![c] =
       IF loadStatus \in {"QUEUED", "RUNNING"} THEN "read" ELSE "done"]
  /\ UNCHANGED <<loadStatus, loadRuns, loadOwner, loadCollecting, loadAlert, loadFaults,
                 loadCrashes>>

\* K6ExecutionService.cancelTest: the process of the entry is told to end, and the row is
\* CANCELLED; without an entry nothing happens here.
KillTest(c) ==
  /\ loadCancels[c] = "read"
  /\ loadCancels' = [loadCancels EXCEPT ![c] = "killed"]
  /\ loadOwner' = NoRun
  /\ IF loadOwner = NoRun THEN UNCHANGED <<loadStatus, loadRuns>>
     ELSE /\ loadStatus' = "CANCELLED"
          /\ loadRuns' = [loadRuns EXCEPT ![loadOwner].proc =
               IF loadRuns[loadOwner].proc = "live" THEN "signalled"
               ELSE loadRuns[loadOwner].proc]
  /\ UNCHANGED <<loadCollecting, loadAlert, loadFaults, loadCrashes>>

\* The service's own update, on the status of the first step.
WriteCancel(c) ==
  /\ loadCancels[c] = "killed"
  /\ loadCancels' = [loadCancels EXCEPT ![c] = "done"]
  /\ loadStatus' = "CANCELLED"
  /\ UNCHANGED <<loadRuns, loadOwner, loadCollecting, loadAlert, loadFaults, loadCrashes>>

\* A restart: requests, handlers, timers and the map are gone, the row stays; a process
\* that is left has nobody to tell.  Only calls that have not begun go on.
LoadCrash ==
  /\ loadCrashes < MaxLoadCrashes /\ loadCrashes' = loadCrashes + 1
  /\ loadRuns' = [r \in LoadRuns |->
       IF loadRuns[r].pc = "new" THEN loadRuns[r]
       ELSE [pc |-> "dead", proc |-> "none", code |-> loadRuns[r].code, timer |-> "none",
             close |-> "none"]]
  /\ loadCancels' = [c \in LoadCancels |->
       IF loadCancels[c] = "new" THEN "new" ELSE "done"]
  /\ loadOwner' = NoRun /\ loadCollecting' = FALSE
  /\ UNCHANGED <<loadStatus, loadAlert, loadFaults>>

-----------------------------------------------------------------------------
LoadStep(r) ==
  \/ QueueTest(r) \/ StartTest(r) \/ Spawn(r) \/ ProcessEnds(r) \/ Close(r)
  \/ Complete(r) \/ CheckThresholds(r) \/ CountAlert(r) \/ Rescue(r)

LoadNext ==
  \/ \E r \in LoadRuns :
       \/ FindTest(r) \/ LoadStep(r) \/ TimerFires(r)
       \/ RunTestThrows(r) \/ SpawnFails(r) \/ CompletionThrows(r)
  \/ \E c \in LoadCancels : ReadForCancel(c) \/ KillTest(c) \/ WriteCancel(c)
  \/ LoadCrash

LoadSpec == LoadInit /\ [][LoadNext]_loadVars

\* Promises and events are served, and k6 ends: a run has a duration or a number of
\* iterations.
LoadFair == \A r \in LoadRuns : WF_loadVars(LoadStep(r))

-----------------------------------------------------------------------------
(* Properties.                                                             *)

LoadTypeOK ==
  /\ loadStatus \in {"DRAFT", "QUEUED", "RUNNING", "COMPLETED", "FAILED", "CANCELLED"}
  /\ loadRuns \in [LoadRuns -> LoadRun]
  /\ loadOwner \in LoadRuns \cup {NoRun}
  /\ loadCollecting \in BOOLEAN
  /\ loadCancels \in [LoadCancels -> {"new", "read", "killed", "done"}]
  /\ loadAlert \in [events : Nat, counted : Nat]
  /\ loadFaults \in 0..MaxLoadFaults /\ loadCrashes \in 0..MaxLoadCrashes

\* A process that has not been told to end can be cancelled, as the map holds it, unless
\* another run of the test has had a process: starting one replaces the entry, and its
\* end or its cancel removes it.
LiveIsTracked ==
  \A r \in LoadRuns : loadRuns[r].proc = "live" /\ loadOwner # r =>
    \E q \in LoadRuns \ {r} : loadRuns[q].proc # "none"

\* The realtime collection of a test (k6-execution.service.ts:108) runs only beside a
\* process or its pending close, or for ever: when a run's timer fired after its end.
CollectionStops ==
  loadCollecting => \E r \in LoadRuns :
    \/ loadRuns[r].timer = "fired" /\ loadRuns[r].close = "none"
    \/ loadRuns[r].timer = "late"

Quiet ==
  /\ \A r \in LoadRuns :
       \/ loadRuns[r].pc \in {"new", "threw", "dead"}
       \/ loadRuns[r].pc = "returned" /\ loadRuns[r].close = "done"
  /\ \A c \in LoadCancels : loadCancels[c] \in {"new", "done"}

\* When no request, process or handler of the test is left, the test has ended, however
\* its runs and cancels crossed, unless a call failed or the backend was restarted.
SettledWhenQuiet ==
  Quiet /\ loadFaults = 0 /\ loadCrashes = 0 => loadStatus \notin {"QUEUED", "RUNNING"}

\* COMPLETED is earned by a process that exited with 0, or ended by the signal of a
\* cancel: its code is null, and null || 0 is a success (k6-execution.service.ts:92).
CompletedIsEarned ==
  loadStatus = "COMPLETED" =>
    \E r \in LoadRuns : loadRuns[r].code \in {"zero", "null"}

\* An alert's count is the number of its events, but for those whose counting is pending
\* or was cut short by a failure or a restart.
AlertsAreCounted ==
  LET Pending == {r \in LoadRuns : loadRuns[r].close = "event"} IN
  /\ loadAlert.counted <= loadAlert.events
  /\ Pending = {} /\ loadFaults = 0 /\ loadCrashes = 0 =>
       loadAlert.counted = loadAlert.events

\* What a run leaves behind is under someone's control: its process and its collection.
LoadLeavesNothing == LiveIsTracked /\ CollectionStops

\* What is reported of the runs: the row's verdict and the alert's count.
LoadAccounts == CompletedIsEarned /\ AlertsAreCounted

\* A test that is queued or running ends, whichever handlers have the last word, unless
\* a call failed or the backend was restarted.
LoadEnds ==
  loadStatus \in {"QUEUED", "RUNNING"} ~>
    \/ loadStatus \notin {"QUEUED", "RUNNING"}
    \/ loadFaults > 0 \/ loadCrashes > 0
=============================================================================
