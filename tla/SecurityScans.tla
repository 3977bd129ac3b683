--------------------------- MODULE SecurityScans ---------------------------
(***************************************************************************)
(* The security module: one scan, the jobs that startScan puts in the      *)
(* security-scan queue, the SecurityScanProcessor that runs them with      *)
(* BullMQ's attempts, and cancelScan, which does not touch the queue.      *)
(***************************************************************************)
EXTENDS Naturals, FiniteSets

CONSTANTS
  ScanJobs,        \* calls of startScan; each adds a job of its own
  ScanCancels,     \* calls of cancelScan
  ScanProvided,    \* whether a module provides the processor: security.module.ts does not
  MaxVulns,        \* bound: vulnerabilities a scanner run finds
  MaxScanFaults,   \* bound: calls that fail
  MaxScanCrashes   \* bound: restarts of the backend with jobs active

ASSUME ScanAssumption ==
  /\ ScanProvided \subseteq BOOLEAN
  /\ MaxVulns \in Nat /\ MaxScanFaults \in Nat /\ MaxScanCrashes \in Nat

VARIABLES
  scanProvided,    \* does a worker serve the queue?
  scanStatus,      \* the row's status
  scanTotal,       \* the row's totalVulnerabilities
  scanRows,        \* vulnerability rows of the scan
  scanJobs,        \* each call of startScan and its job
  scanCancels,     \* each call of cancelScan
  scanFaults,
  scanCrashes

scanVars == <<scanProvided, scanStatus, scanTotal, scanRows, scanJobs, scanCancels,
              scanFaults, scanCrashes>>

-----------------------------------------------------------------------------
ScanAttempts == 3  \* addSecurityScanJob
MaxStalled   == 1  \* BullMQ's default

ScanJob ==
  [pc : {"new", "found", "threw", "waiting", "active", "scanning", "inserting", "catch",
         "stalled", "completed", "failed"},
   made : 0..ScanAttempts, stalls : 0..MaxStalled, left : 0..MaxVulns]

ScanInit ==
  /\ scanProvided \in ScanProvided
  /\ scanStatus = "PENDING" /\ scanTotal = 0 /\ scanRows = 0
  /\ scanJobs = [j \in ScanJobs |-> [pc |-> "new", made |-> 0, stalls |-> 0, left |-> 0]]
  /\ scanCancels = [c \in ScanCancels |-> "new"]
  /\ scanFaults = 0 /\ scanCrashes = 0

ScanFault == scanFaults < MaxScanFaults /\ scanFaults' = scanFaults + 1

Goto(j, pc) == scanJobs' = [scanJobs EXCEPT ![j].pc = pc]

-----------------------------------------------------------------------------
(* startScan.                                                              *)

\* Whatever the scan's status.
FindScan(j) ==
  /\ scanJobs[j].pc = "new"
  /\ Goto(j, "found")
  /\ UNCHANGED <<scanProvided, scanStatus, scanTotal, scanRows, scanCancels, scanFaults,
                 scanCrashes>>

\* The job is in Redis and the row is as it was; or the add fails, and nothing is.
AddScanJob(j) ==
  /\ scanJobs[j].pc = "found"
  /\ \/ Goto(j, "waiting") /\ UNCHANGED scanFaults
     \/ Goto(j, "threw") /\ ScanFault
  /\ UNCHANGED <<scanProvided, scanStatus, scanTotal, scanRows, scanCancels, scanCrashes>>

-----------------------------------------------------------------------------
(* SecurityScanProcessor.                                                  *)

\* Mutant: a cancelled scan's job is not taken.
TakeUncancelled(j) ==
  /\ scanProvided /\ scanJobs[j].pc = "waiting" /\ scanStatus # "CANCELLED"
  /\ scanJobs' = [scanJobs EXCEPT ![j] =
       [@ EXCEPT !.pc = "active", !.made = scanJobs[j].made + 1]]
  /\ UNCHANGED <<scanProvided, scanStatus, scanTotal, scanRows, scanCancels, scanFaults,
                 scanCrashes>>

TakeScan(j) ==
  /\ scanProvided /\ scanJobs[j].pc = "waiting"
  /\ scanJobs' = [scanJobs EXCEPT ![j] =
       [@ EXCEPT !.pc = "active", !.made = scanJobs[j].made + 1]]
  /\ UNCHANGED <<scanProvided, scanStatus, scanTotal, scanRows, scanCancels, scanFaults,
                 scanCrashes>>

BeginScan(j) ==
  /\ scanJobs[j].pc = "active"
  /\ Goto(j, "scanning")
  /\ scanStatus' = "RUNNING"
  /\ UNCHANGED <<scanProvided, scanTotal, scanRows, scanCancels, scanFaults, scanCrashes>>

\* Mutant: the count is that of a first page.
SaveFirstOnly(j) ==
  /\ scanJobs[j].pc = "scanning"
  /\ \E n \in 0..MaxVulns :
       /\ scanJobs' = [scanJobs EXCEPT ![j] = [@ EXCEPT !.pc = "inserting", !.left = n]]
       /\ scanTotal' = IF n = 0 THEN 0 ELSE 1
  /\ scanStatus' = "COMPLETED"
  /\ UNCHANGED <<scanProvided, scanRows, scanCancels, scanFaults, scanCrashes>>

\* The scanners are done: COMPLETED with the counts, before any row is inserted.
SaveScan(j) ==
  /\ scanJobs[j].pc = "scanning"
  /\ \E n \in 0..MaxVulns :
       /\ scanJobs' = [scanJobs EXCEPT ![j] = [@ EXCEPT !.pc = "inserting", !.left = n]]
       /\ scanTotal' = n
  /\ scanStatus' = "COMPLETED"
  /\ UNCHANGED <<scanProvided, scanRows, scanCancels, scanFaults, scanCrashes>>

InsertVuln(j) ==
  /\ scanJobs[j].pc = "inserting" /\ scanJobs[j].left > 0
  /\ scanJobs' = [scanJobs EXCEPT ![j].left = scanJobs[j].left - 1]
  /\ scanRows' = scanRows + 1
  /\ UNCHANGED <<scanProvided, scanStatus, scanTotal, scanCancels, scanFaults, scanCrashes>>

\* After the targets, which nothing counts.
EndScan(j) ==
  /\ scanJobs[j].pc = "inserting" /\ scanJobs[j].left = 0
  /\ Goto(j, "completed")
  /\ UNCHANGED <<scanProvided, scanStatus, scanTotal, scanRows, scanCancels, scanFaults,
                 scanCrashes>>

\* A scanner, an update or an insert fails.
ScanThrows(j) ==
  /\ scanJobs[j].pc \in {"active", "scanning", "inserting"}
  /\ ScanFault
  /\ scanJobs' = [scanJobs EXCEPT ![j] = [@ EXCEPT !.pc = "catch", !.left = 0]]
  /\ UNCHANGED <<scanProvided, scanStatus, scanTotal, scanRows, scanCancels, scanCrashes>>

\* BullMQ retries a job that has attempts left.
Again(j) == IF scanJobs[j].made < ScanAttempts THEN "waiting" ELSE "failed"

\* FAILED, and the error is thrown again; the update may fail too.
FailScan(j) ==
  /\ scanJobs[j].pc = "catch"
  /\ Goto(j, Again(j))
  /\ \/ scanStatus' = "FAILED" /\ UNCHANGED scanFaults
     \/ UNCHANGED scanStatus /\ ScanFault
  /\ UNCHANGED <<scanProvided, scanTotal, scanRows, scanCancels, scanCrashes>>

Active(j) == scanJobs[j].pc \in {"active", "scanning", "inserting", "catch"}

\* A restart: the jobs that were active are without a worker, and calls end.
ScanCrash ==
  /\ scanCrashes < MaxScanCrashes /\ scanCrashes' = scanCrashes + 1
  /\ scanJobs' = [j \in ScanJobs |->
       CASE Active(j) -> [scanJobs[j] EXCEPT !.pc = "stalled", !.left = 0]
         [] scanJobs[j].pc = "found" -> [scanJobs[j] EXCEPT !.pc = "threw"]
         [] OTHER -> scanJobs[j]]
  /\ scanCancels' = [c \in ScanCancels |->
       IF scanCancels[c] = "new" THEN "new" ELSE "done"]
  /\ UNCHANGED <<scanProvided, scanStatus, scanTotal, scanRows, scanFaults>>

\* Mutant: a stalled job always waits again.
RecoverAlways(j) ==
  /\ scanJobs[j].pc = "stalled"
  /\ scanJobs' = [scanJobs EXCEPT ![j] =
       [@ EXCEPT !.pc = "waiting", !.stalls = scanJobs[j].stalls + 1,
                 !.made = scanJobs[j].made - 1]]
  /\ UNCHANGED <<scanProvided, scanStatus, scanTotal, scanRows, scanCancels, scanFaults,
                 scanCrashes>>

\* BullMQ's check for stalled jobs: once it waits again, the next time it has failed.
Recover(j) ==
  /\ scanJobs[j].pc = "stalled"
  /\ scanJobs' = [scanJobs EXCEPT ![j] =
       IF scanJobs[j].stalls < MaxStalled
       THEN [@ EXCEPT !.pc = "waiting", !.stalls = scanJobs[j].stalls + 1,
                      !.made = scanJobs[j].made - 1]
       ELSE [@ EXCEPT !.pc = "failed"]]
  /\ UNCHANGED <<scanProvided, scanStatus, scanTotal, scanRows, scanCancels, scanFaults,
                 scanCrashes>>

-----------------------------------------------------------------------------
(* cancelScan.                                                             *)

ReadScanStatus(c) ==
  /\ scanCancels[c] = "new"
  /\ scanCancels' = [scanCancels EXCEPT ![c] =
       IF scanStatus \in {"PENDING", "RUNNING"} THEN "read" ELSE "done"]
  /\ UNCHANGED <<scanProvided, scanStatus, scanTotal, scanRows, scanJobs, scanFaults,
                 scanCrashes>>

\* On the status that was read; the job stays where it is.
CancelScan(c) ==
  /\ scanCancels[c] = "read"
  /\ scanCancels' = [scanCancels EXCEPT ![c] = "done"]
  /\ scanStatus' = "CANCELLED"
  /\ UNCHANGED <<scanProvided, scanTotal, scanRows, scanJobs, scanFaults, scanCrashes>>

-----------------------------------------------------------------------------
ScanStep(j) ==
  \/ TakeScan(j) \/ BeginScan(j) \/ SaveScan(j) \/ InsertVuln(j) \/ EndScan(j)
  \/ FailScan(j) \/ Recover(j)

ScanNext ==
  \/ \E j \in ScanJobs : FindScan(j) \/ AddScanJob(j) \/ ScanStep(j) \/ ScanThrows(j)
  \/ \E c \in ScanCancels : ReadScanStatus(c) \/ CancelScan(c)
  \/ ScanCrash

ScanSpec == ScanInit /\ [][ScanNext]_scanVars

\* The queue and the processor go on, and stalled jobs are looked for.
ScanFair == \A j \in ScanJobs : WF_scanVars(ScanStep(j))

-----------------------------------------------------------------------------
(* Properties.                                                             *)

ScanTypeOK ==
  /\ scanProvided \in BOOLEAN
  /\ scanStatus \in {"PENDING", "RUNNING", "COMPLETED", "FAILED", "CANCELLED"}
  /\ scanTotal \in 0..MaxVulns /\ scanRows \in Nat
  /\ scanJobs \in [ScanJobs -> ScanJob]
  /\ scanCancels \in [ScanCancels -> {"new", "read", "done"}]
  /\ scanFaults \in 0..MaxScanFaults /\ scanCrashes \in 0..MaxScanCrashes

Ended(j) == scanJobs[j].pc \in {"completed", "failed"}
Idle(j)  == Ended(j) \/ scanJobs[j].pc \in {"new", "threw"}

\* A scan nothing works on is not RUNNING, and not PENDING once a job of it has ended;
\* so a worker that dies for the second time, or a failed update, is the only way to
\* leave one behind.
ScanSettled ==
  (\A j \in ScanJobs : Idle(j)) /\ scanFaults = 0 /\ scanCrashes <= MaxStalled =>
    /\ scanStatus # "RUNNING"
    /\ (\E j \in ScanJobs : Ended(j)) => scanStatus # "PENDING"

\* The rows of a scan are as many as its count says when one job ran it, at the first
\* attempt; a retry or a second start adds its rows to those of the run before.
RowsMatchCount ==
  LET Taken == {j \in ScanJobs : scanJobs[j].made > 0} IN
  scanFaults = 0 /\ scanCrashes = 0 /\ Cardinality(Taken) <= 1 =>
    \A j \in Taken : scanJobs[j].pc \in {"inserting", "completed"} =>
      scanRows + scanJobs[j].left = scanTotal

\* A scan that was started is run to an end where a processor is provided.
ScanEnds ==
  \A j \in ScanJobs : scanProvided /\ scanJobs[j].pc = "waiting" ~> Ended(j)
=============================================================================
