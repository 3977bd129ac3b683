------------------------------ MODULE AxeScans ------------------------------
(***************************************************************************)
(* The accessibility module: runs of one test.  The request of runTest     *)
(* waits for the scan of all the pages and for its results to be stored;   *)
(* runs and cancels share the test's row.                                  *)
(***************************************************************************)
EXTENDS Naturals

CONSTANTS
  AxeRuns,        \* calls of runTest
  AxeCancels,     \* calls of cancelTest
  AxePasses,      \* numbers of passed rules a scan may sum up to
  MaxIssues,      \* bound: issues a scan finds
  MaxAxeFaults    \* bound: calls to the database that fail, or restarts in their stead

ASSUME AxeAssumption ==
  AxePasses \subseteq Nat /\ MaxIssues \in Nat /\ MaxAxeFaults \in Nat

VARIABLES
  axeRow,         \* the test's status, totalIssues, passCount and score
  axeRuns,        \* each call of runTest, and what its scan found
  axeCancels,     \* each call of cancelTest
  axeFaults

axeVars == <<axeRow, axeRuns, axeCancels, axeFaults>>

-----------------------------------------------------------------------------
AxeRun == [pc : {"new", "found", "queued", "running", "scanned", "saved", "returned", "threw"},
           issues : 0..MaxIssues, passes : AxePasses \cup {0}]

AxeInit ==
  /\ axeRow = [status |-> "PENDING", issues |-> 0, passes |-> 0, score |-> 0]
  /\ axeRuns = [r \in AxeRuns |-> [pc |-> "new", issues |-> 0, passes |-> 0]]
  /\ axeCancels = [c \in AxeCancels |-> "new"]
  /\ axeFaults = 0

AxeGoto(r, pc) == axeRuns' = [axeRuns EXCEPT ![r].pc = pc]

-----------------------------------------------------------------------------
\* calculateScore, with Math.round.
Score(passes, issues) ==
  IF passes = 0 /\ issues = 0 THEN 100
  ELSE (200 * passes + passes + issues) \div (2 * (passes + issues))

\* findUnique
AxeFind(r) ==
  /\ axeRuns[r].pc = "new"
  /\ AxeGoto(r, "found")
  /\ UNCHANGED <<axeRow, axeCancels, axeFaults>>

AxeQueue(r) ==
  /\ axeRuns[r].pc = "found"
  /\ AxeGoto(r, "queued")
  /\ axeRow' = [axeRow EXCEPT !.status = "QUEUED"]
  /\ UNCHANGED <<axeCancels, axeFaults>>

AxeStart(r) ==
  /\ axeRuns[r].pc = "queued"
  /\ AxeGoto(r, "running")
  /\ axeRow' = [axeRow EXCEPT !.status = "RUNNING"]
  /\ UNCHANGED <<axeCancels, axeFaults>>

\* runAxeScan: a page that neither the axe API nor the fallback can scan adds nothing, so
\* that a scan of no page at all is one without issues and without passes.
AxeScan(r) ==
  /\ axeRuns[r].pc = "running"
  /\ \E n \in 0..MaxIssues, p \in AxePasses \cup {0} :
       axeRuns' = [axeRuns EXCEPT ![r] = [pc |-> "scanned", issues |-> n, passes |-> p]]
  /\ UNCHANGED <<axeRow, axeCancels, axeFaults>>

\* saveResults: one update, over whatever the status has become.
AxeSave(r) ==
  /\ axeRuns[r].pc = "scanned"
  /\ AxeGoto(r, "saved")
  /\ axeRow' = [status |-> "COMPLETED", issues |-> axeRuns[r].issues,
                passes |-> axeRuns[r].passes,
                score  |-> Score(axeRuns[r].passes, axeRuns[r].issues)]
  /\ UNCHANGED <<axeCancels, axeFaults>>

\* The issues' rows: axe's impacts are in lower case, the column's enum is not, and the
\* first create throws; without issues the event is emitted and the request answered.
AxeStore(r) ==
  /\ axeRuns[r].pc = "saved"
  /\ AxeGoto(r, IF axeRuns[r].issues > 0 THEN "threw" ELSE "returned")
  /\ UNCHANGED <<axeRow, axeCancels, axeFaults>>

\* A call to the database fails: nothing is undone, and nothing makes the test FAILED.
AxeThrows(r) ==
  /\ axeRuns[r].pc \in {"new", "found", "queued", "scanned"}
  /\ axeFaults < MaxAxeFaults /\ axeFaults' = axeFaults + 1
  /\ AxeGoto(r, "threw")
  /\ UNCHANGED <<axeRow, axeCancels>>

\* cancelTest: a status that is read ...
AxeReadStatus(c) ==
  /\ axeCancels[c] = "new"
  /\ axeCancels' = [axeCancels EXCEPT ![c] =
       IF axeRow.status \in {"PENDING", "QUEUED", "RUNNING"} THEN "read" ELSE "done"]
  /\ UNCHANGED <<axeRow, axeRuns, axeFaults>>

\* ... and written over later; the scan is not told.
AxeCancel(c) ==
  /\ axeCancels[c] = "read"
  /\ axeCancels' = [axeCancels EXCEPT ![c] = "done"]
  /\ axeRow' = [axeRow EXCEPT !.status = "CANCELLED"]
  /\ UNCHANGED <<axeRuns, axeFaults>>

-----------------------------------------------------------------------------
AxeNext ==
  \/ \E r \in AxeRuns :
       \/ AxeFind(r) \/ AxeQueue(r) \/ AxeStart(r) \/ AxeScan(r) \/ AxeSave(r)
       \/ AxeStore(r) \/ AxeThrows(r)
  \/ \E c \in AxeCancels : AxeReadStatus(c) \/ AxeCancel(c)

AxeSpec == AxeInit /\ [][AxeNext]_axeVars

-----------------------------------------------------------------------------
(* Properties.                                                             *)

AxeTypeOK ==
  /\ axeRow \in [status : {"PENDING", "QUEUED", "RUNNING", "COMPLETED", "CANCELLED"},
                 issues : 0..MaxIssues, passes : AxePasses \cup {0}, score : 0..100]
  /\ axeRuns \in [AxeRuns -> AxeRun]
  /\ axeCancels \in [AxeCancels -> {"new", "read", "done"}]
  /\ axeFaults \in 0..MaxAxeFaults

\* When no request is left, the test has ended, unless a call to the database failed: the
\* code has no path to FAILED, and a test left RUNNING stays so.
AxeSettled ==
  /\ axeFaults = 0
  /\ \A r \in AxeRuns : axeRuns[r].pc \in {"new", "threw", "returned"}
  => axeRow.status \notin {"QUEUED", "RUNNING"}

\* The score and the counts of the row are those of one scan, whichever runs and cancels
\* crossed; and 100 means no issue was found, or so few that they round away: one in two
\* hundred results or fewer.
ScoreIsOfOneScan ==
  axeRow.status \in {"COMPLETED", "CANCELLED"} /\ axeRow.score > 0 =>
    /\ \E r \in AxeRuns : axeRow.issues = axeRuns[r].issues /\ axeRow.passes = axeRuns[r].passes
    /\ axeRow.score = 100 => 200 * axeRow.issues <= axeRow.passes + axeRow.issues
    /\ axeRow.issues = 0 => axeRow.score = 100
=============================================================================
