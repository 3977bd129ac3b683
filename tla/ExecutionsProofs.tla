--------------------------- MODULE ExecutionsProofs ---------------------------
(***************************************************************************)
(* Proofs about Executions, for every number of executions, jobs,          *)
(* requests, processes, tests, attempts, faults and crashes: first type    *)
(* correctness, as a part of the inductive invariant, then the rest of it. *)
(***************************************************************************)
EXTENDS ExecutionsInv, SequenceTheorems, TLAPS

-----------------------------------------------------------------------------
(* Test runs: what the three updates of table test_runs do to a sequence.  *)

LEMMA RunAppended ==
  ASSUME NEW s \in Seq(Run), NEW r \in Run
  PROVE  /\ Append(s, r) \in Seq(Run)
         /\ Len(s) \in Nat /\ Len(Append(s, r)) = Len(s) + 1
         /\ DOMAIN s = 1..Len(s) /\ DOMAIN Append(s, r) = 1..Len(s) + 1
         /\ \A k \in DOMAIN s : Append(s, r)[k] = s[k]
         /\ Append(s, r)[Len(s) + 1] = r
  OBVIOUS

LEMMA RunStored ==
  ASSUME NEW s \in Seq(Run), NEW k, NEW v \in {"RUNNING", "PASSED", "FAILED"}
  PROVE  /\ [s EXCEPT ![k].status = v] \in Seq(Run)
         /\ DOMAIN [s EXCEPT ![k].status = v] = DOMAIN s
         /\ \A i \in DOMAIN s : [s EXCEPT ![k].status = v][i]
                                  = IF i = k THEN [s[i] EXCEPT !.status = v] ELSE s[i]
<1>1. PICK n \in Nat : s \in [1..n -> Run]
  BY SeqDef
<1>2. \A i \in 1..n : [s[i] EXCEPT !.status = v] \in Run
  BY <1>1 DEF Run
<1>3. [s EXCEPT ![k].status = v] \in [1..n -> Run]
  BY <1>1, <1>2
<1> QED
  BY <1>1, <1>3, SeqDef

LEMMA BugsFiled ==
  ASSUME NEW s \in Seq(Run), NEW F
  PROVE  WithBugs(s, F) \in Seq(Run)
<1>1. PICK n \in Nat : s \in [1..n -> Run]
  BY SeqDef
<1>2. ASSUME NEW r \in Run PROVE [r EXCEPT !.bugs = @ + 1] \in Run
  BY DEF Run
<1>3. WithBugs(s, F) \in [1..n -> Run]
  BY <1>1, <1>2 DEF WithBugs
<1> QED
  BY <1>3, SeqDef

-----------------------------------------------------------------------------
LEMMA InitInv == Init => IInv
<1> SUFFICES ASSUME Init PROVE IInv
  OBVIOUS
<1> USE ExecutionsAssumption DEF Init
<1>1. TypeOK
  <2>1. NoRow \in Row /\ FreeJob \in Job /\ Resting("idle") \in Proc /\ NoCall \in Call
    BY DEF NoRow, Row, RowStatus, FreeJob, Job, Resting, Proc, NoCall, Call
  <2>2. <<>> \in Seq(Run)
    OBVIOUS
  <2> QED
    BY <2>1, <2>2 DEF TypeOK
<1>2. CallsKnown /\ JobsKnown /\ AtKnownJob /\ NewUnreported
  BY DEF CallsKnown, JobsKnown, AtKnownJob, NewUnreported, Busy, NoCall, FreeJob, Resting
<1>3. LoopOk /\ CurrentOk /\ ReportingOk
  BY DEF LoopOk, Looping, CurrentOk, ReportingOk, Resting
<1>4. PassedIsEarned /\ ReportedIsRun
  BY DEF PassedIsEarned, ReportedIsRun, NoRow
<1> QED
  BY <1>1, <1>2, <1>3, <1>4 DEF IInv

-----------------------------------------------------------------------------
(* Types.                                                                  *)

LEMMA AtWork ==
  ASSUME IInv, NEW w \in Workers, Busy(w)
  PROVE  /\ workers[w] \in Proc /\ workers[w].job \in Jobs
         /\ jobs[workers[w].job] \in Job /\ ExecOf(w) \in Execs
         /\ rows[ExecOf(w)] \in Row /\ rows[ExecOf(w)].status # "none"
         /\ Total(w) \in 0..MaxTests
         /\ runs[ExecOf(w)] \in Seq(Run)
<1>1. workers[w] \in Proc /\ workers[w].job \in Jobs /\ jobs[workers[w].job].state # "free"
  BY DEF IInv, TypeOK, AtKnownJob
<1>2. jobs[workers[w].job] \in Job /\ Known(ExecOf(w))
  BY <1>1 DEF IInv, TypeOK, JobsKnown, ExecOf
<1>3. ExecOf(w) \in Execs /\ rows[ExecOf(w)] \in Row /\ runs[ExecOf(w)] \in Seq(Run)
  BY <1>2 DEF IInv, TypeOK, Known
<1> QED
  BY <1>1, <1>2, <1>3 DEF Known, Total, Row

LEMMA StatusTyped ==
  ASSUME rows \in [Execs -> Row], NEW e, NEW s \in RowStatus, SetStatus(e, s)
  PROVE  rows' \in [Execs -> Row]
<1>1. ASSUME NEW r \in Row PROVE [r EXCEPT !.status = s] \in Row
  BY DEF Row
<1> QED
  BY <1>1 DEF SetStatus

LEMMA NewRowTyped ==
  ASSUME rows \in [Execs -> Row], NEW e, NEW n \in 0..MaxTests, NewRow(e, n)
  PROVE  rows' \in [Execs -> Row]
BY DEF NewRow, NoRow, Row, RowStatus

LEMMA ApiTyped == IInv /\ Api => TypeOK'
<1> SUFFICES ASSUME IInv, Api PROVE TypeOK'
  OBVIOUS
<1> USE ExecutionsAssumption
<1>t. TypeOK
  BY DEF IInv
<1>1. ASSUME NEW e \in Execs, Create(e) PROVE TypeOK'
  BY <1>1, <1>t, NewRowTyped DEF TypeOK, Create
<1>2. ASSUME NEW e \in Execs, Delete(e) PROVE TypeOK'
  BY <1>2, <1>t, StatusTyped DEF TypeOK, Delete, RowStatus
<1>3. ASSUME NEW c \in Calls, NEW e \in Execs, Start(c, e) PROVE TypeOK'
  <2>1. SetStatus(e, "PENDING") /\ calls' = [calls EXCEPT ![c] = [op |-> "enqueue", exec |-> e]]
    BY <1>3 DEF Start, StartMark
  <2>2. rows' \in [Execs -> Row]
    BY <2>1, <1>t, StatusTyped DEF TypeOK, RowStatus
  <2> QED
    BY <1>3, <1>t, <2>1, <2>2 DEF TypeOK, Start, StartMark, Call
<1>4. ASSUME NEW c \in Calls, NEW e \in Execs, CancelCheck(c, e) PROVE TypeOK'
  BY <1>4, <1>t DEF TypeOK, CancelCheck, Call
<1>5. ASSUME NEW c \in Calls, NEW f \in Execs, RunOneTest(c, f) PROVE TypeOK'
  <2>1. rows' \in [Execs -> Row]
    BY <1>5, <1>t, NewRowTyped DEF TypeOK, RunOneTest
  <2> QED
    BY <1>5, <1>t, <2>1 DEF TypeOK, RunOneTest, Call
<1>6. ASSUME NEW c \in Calls, NEW e \in Execs, NEW f \in Execs, Retry(c, e, f) PROVE TypeOK'
  <2>1. rows[e].total \in 0..MaxTests
    BY <1>t DEF TypeOK, Row
  <2>2. rows' \in [Execs -> Row]
    BY <2>1, <1>6, <1>t, NewRowTyped DEF TypeOK, Retry
  <2> QED
    BY <1>6, <1>t, <2>2 DEF TypeOK, Retry, Call
<1> QED
  BY <1>1, <1>2, <1>3, <1>4, <1>5, <1>6 DEF Api

LEMMA ServeTyped == ASSUME IInv, NEW c \in Calls, Serve(c) PROVE TypeOK'
<1> USE ExecutionsAssumption
<1>t. TypeOK /\ NoCall \in Call
  BY DEF IInv, NoCall, Call
<1>1. CASE StartCreated(c)
  <2> DEFINE e == calls[c].exec
  <2>1. e \in Execs
    BY <1>1 DEF IInv, CallsKnown, Known, StartCreated
  <2>2. rows' \in [Execs -> Row]
    BY <1>1, <1>t, StatusTyped DEF StartCreated, StartMark, TypeOK, RowStatus
  <2>3. calls' \in [Calls -> Call]
    <3>1. [op |-> "enqueue", exec |-> e] \in Call
      BY <2>1 DEF Call
    <3> QED
      BY <1>1, <1>t, <3>1 DEF StartCreated, StartMark, TypeOK
  <2> QED
    BY <1>1, <1>t, <2>2, <2>3 DEF StartCreated, StartMark, TypeOK
<1>2. CASE Enqueue(c)
  <2>1. calls[c].exec \in Execs
    BY <1>2 DEF IInv, CallsKnown, Known, Enqueue
  <2>2. jobs' \in [Jobs -> Job]
    <3>1. ASSUME NEW j \in Job, NEW e \in Execs
          PROVE  [j EXCEPT !.state = "waiting", !.exec = e] \in Job
      BY DEF Job
    <3>2. CASE UNCHANGED jobs
      BY <3>2, <1>t DEF TypeOK
    <3>3. ASSUME NEW j \in Jobs,
                 jobs' = [jobs EXCEPT ![j] = [@ EXCEPT !.state = "waiting", !.exec = calls[c].exec]]
          PROVE  jobs' \in [Jobs -> Job]
      <4>1. jobs \in [Jobs -> Job]
        BY <1>t DEF TypeOK
      <4>2. [jobs[j] EXCEPT !.state = "waiting", !.exec = calls[c].exec] \in Job
        BY <4>1, <2>1, <3>1
      <4> QED
        BY <3>3, <4>1, <4>2
    <3> QED
      BY <3>2, <3>3, <1>2 DEF Enqueue
  <2>3. faults' \in Nat
    <3>1. UNCHANGED faults \/ faults' = faults + 1
      BY <1>2 DEF Enqueue, Throws
    <3> QED
      BY <3>1, <1>t DEF TypeOK
  <2> QED
    BY <1>2, <1>t, <2>2, <2>3 DEF Enqueue, TypeOK
<1>3. CASE CancelWrite(c)
  <2>1. rows' \in [Execs -> Row]
    BY <1>3, <1>t, StatusTyped DEF CancelWrite, TypeOK, RowStatus
  <2> QED
    BY <1>3, <1>t, <2>1 DEF CancelWrite, TypeOK
<1> QED
  BY <1>1, <1>2, <1>3 DEF Serve

LEMMA QueueTyped ==
  IInv => /\ \A w \in Workers, j \in Jobs : Pick(w, j) => TypeOK'
          /\ \A j \in Jobs : StallDead(j) \/ StallBlocked(j) => TypeOK'
<1> SUFFICES ASSUME IInv
             PROVE /\ \A w \in Workers, j \in Jobs : Pick(w, j) => TypeOK'
                   /\ \A j \in Jobs : StallDead(j) \/ StallBlocked(j) => TypeOK'
  OBVIOUS
<1> USE ExecutionsAssumption
<1>t. TypeOK
  BY DEF IInv
<1>1. ASSUME NEW w \in Workers, NEW j \in Jobs, Pick(w, j) PROVE TypeOK'
  <2>1. [jobs[j] EXCEPT !.state = "active", !.owner = w] \in Job
    BY <1>t DEF TypeOK, Job
  <2>2. [Resting("begin") EXCEPT !.job = j] \in Proc
    BY DEF Proc, Resting
  <2> QED
    BY <1>1, <1>t, <2>1, <2>2 DEF TypeOK, Pick
<1>2. ASSUME NEW j \in Jobs, StallDead(j) \/ StallBlocked(j) PROVE TypeOK'
  <2>1. jobs[j] \in Job
    BY <1>t DEF TypeOK
  <2>2. Stalled(jobs[j]) \in Job
    <3>1. jobs[j].stalls + 1 \in Nat
      BY <2>1 DEF Job
    <3>2. CASE jobs[j].stalls < MaxStalls
      BY <2>1, <3>1, <3>2 DEF Stalled, Job
    <3>3. CASE ~(jobs[j].stalls < MaxStalls)
      BY <2>1, <3>3 DEF Stalled, Job
    <3> QED
      BY <3>2, <3>3
  <2> QED
    BY <1>2, <1>t, <2>2 DEF TypeOK, StallDead, StallBlocked, Stall
<1> QED
  BY <1>1, <1>2

LEMMA PcTyped ==
  ASSUME TypeOK, NEW w \in Workers, NEW pc,
         pc \in {"idle", "begin", "loop", "running", "report", "bugs", "fail", "throw",
                 "done", "down"},
         workers' = [workers EXCEPT ![w].pc = pc]
         \/ workers' = [workers EXCEPT ![w] = Resting(pc)]
         \/ Leave(w, pc)
  PROVE  workers' \in [Workers -> Proc]
<1>1. workers[w] \in Proc
  BY DEF TypeOK
<1>2. [workers[w] EXCEPT !.pc = pc] \in Proc /\ Resting(pc) \in Proc
      /\ [Resting(pc) EXCEPT !.job = workers[w].job] \in Proc
  BY <1>1 DEF Proc, Resting
<1> QED
  BY <1>2 DEF TypeOK, Leave

LEMMA SettleTyped == IInv => \A w \in Workers : Complete(w) \/ AttemptFailed(w) => TypeOK'
<1> SUFFICES ASSUME IInv, NEW w \in Workers, Complete(w) \/ AttemptFailed(w) PROVE TypeOK'
  OBVIOUS
<1> USE ExecutionsAssumption
<1>t. TypeOK
  BY DEF IInv
<1> DEFINE job == jobs[workers[w].job]
<1>1. job \in Job /\ workers[w].job \in Jobs
  BY AtWork DEF Busy, Complete, AttemptFailed
<1>2. [job EXCEPT !.state = "completed", !.owner = None] \in Job
  BY <1>1 DEF Job
<1>3. ASSUME NEW s \in {"waiting", "failed"}
      PROVE  [job EXCEPT !.made = @ + 1, !.owner = None, !.state = s] \in Job
  <2>1. job.made + 1 \in Nat
    BY <1>1 DEF Job
  <2> QED
    BY <1>1, <1>3, <2>1 DEF Job
<1>4. jobs' \in [Jobs -> Job]
  BY <1>1, <1>2, <1>3, <1>t DEF Complete, AttemptFailed, Settle, TypeOK
<1>5. workers' \in [Workers -> Proc]
  BY <1>t, PcTyped DEF Complete, AttemptFailed, Settle
<1> QED
  BY <1>t, <1>4, <1>5 DEF Complete, AttemptFailed, Settle, TypeOK

LEMMA RejectedTyped ==
  ASSUME TypeOK, NEW w \in Workers, Rejected(w)
  PROVE  /\ workers' \in [Workers -> Proc] /\ faults' \in Nat
         /\ rows' \in [Execs -> Row] /\ runs' \in [Execs -> Seq(Run)]
<1>1. OnError(w) \in {"fail", "throw"} /\ Leave(w, OnError(w))
  BY DEF OnError, Rejected
<1>2. workers' \in [Workers -> Proc]
  BY <1>1, PcTyped
<1> QED
  BY <1>2 DEF TypeOK, Rejected, Throws

LEMMA StoreTyped ==
  ASSUME TypeOK, NEW w \in Workers, NEW s \in {"PASSED", "FAILED"}, Store(w, s)
  PROVE  runs' \in [Execs -> Seq(Run)]
<1> DEFINE e == ExecOf(w)
<1>1. runs \in [Execs -> Seq(Run)] /\ s \in {"RUNNING", "PASSED", "FAILED"}
  BY DEF TypeOK
<1>2. CASE e \in Execs
  <2>1. [runs[e] EXCEPT ![workers[w].run].status = s] \in Seq(Run)
    BY <1>1, <1>2, RunStored
  <2>2. runs' = [runs EXCEPT ![e] = [runs[e] EXCEPT ![workers[w].run].status = s]]
    BY DEF Store
  <2> QED
    BY <1>1, <2>1, <2>2
<1>3. CASE e \notin Execs
  BY <1>1, <1>3 DEF Store
<1> QED
  BY <1>2, <1>3

LEMMA CountedTyped ==
  ASSUME TypeOK, NEW w \in Workers, NEW ok \in BOOLEAN, NEW more \in 0..1, Counted(w, ok, more)
  PROVE  workers' \in [Workers -> Proc]
<1> DEFINE passed == workers[w].passed + (IF ok THEN 1 ELSE 0)
           failed == workers[w].failed + (IF ok THEN 0 ELSE 1) + more
<1>1. workers \in [Workers -> Proc] /\ workers[w] \in Proc
  BY DEF TypeOK
<1>2. passed \in Nat /\ failed \in Nat
  BY <1>1 DEF Proc
<1>3. workers' = [workers EXCEPT ![w] =
        [workers[w] EXCEPT !.pc = "loop", !.run = 0, !.passed = passed, !.failed = failed]]
  BY DEF Counted
<1> HIDE DEF passed, failed
<1>4. [workers[w] EXCEPT !.pc = "loop", !.run = 0, !.passed = passed, !.failed = failed] \in Proc
  BY <1>1, <1>2 DEF Proc
<1> QED
  BY <1>1, <1>3, <1>4

LEMMA WorkTyped == ASSUME IInv, NEW w \in Workers, Work(w) PROVE TypeOK'
<1> USE ExecutionsAssumption
<1>t. TypeOK
  BY DEF IInv
<1>1. CASE Begin(w)
  <2>1. rows' \in [Execs -> Row] /\ workers' \in [Workers -> Proc]
        /\ runs' \in [Execs -> Seq(Run)] /\ faults' \in Nat
    BY <1>1, <1>t, PcTyped, RejectedTyped, StatusTyped DEF Begin, Goto, TypeOK, RowStatus
  <2> QED
    BY <1>1, <1>t, <2>1 DEF Begin, TypeOK
<1>2. CASE CreateRun(w)
  <2> DEFINE e == ExecOf(w)  k == workers[w].begun + 1
             r == [test |-> k, status |-> "RUNNING", bugs |-> 0]
  <2>1. CASE Rejected(w)
    BY <1>2, <1>t, <2>1, RejectedTyped DEF CreateRun, TypeOK
  <2>2. CASE ~Rejected(w)
    <3>1. workers[w] \in Proc /\ e \in Execs /\ Total(w) \in 0..MaxTests /\ workers[w].begun < Total(w)
      BY <1>2, AtWork DEF CreateRun, Busy
    <3>2. r \in Run /\ runs[e] \in Seq(Run) /\ Len(runs[e]) + 1 \in Nat
      <4>1. workers[w].begun \in Nat
        BY <3>1 DEF Proc
      <4>2. k \in 1..MaxTests
        BY <3>1, <4>1
      <4>3. runs[e] \in Seq(Run)
        BY <3>1, <1>t DEF TypeOK
      <4>4. r \in Run
        BY <4>2 DEF Run
      <4> QED
        BY <4>3, <4>4
    <3>3. runs' \in [Execs -> Seq(Run)]
      <4>1. Append(runs[e], r) \in Seq(Run)
        BY <3>2, RunAppended
      <4>2. runs' = [runs EXCEPT ![e] = Append(runs[e], r)]
        BY <2>2, <1>2 DEF CreateRun
      <4> QED
        BY <3>1, <4>1, <4>2, <1>t DEF TypeOK
    <3>4. [workers[w] EXCEPT !.pc = "running", !.begun = k, !.run = Len(runs[e]) + 1] \in Proc
      <4>1. k \in Nat
        BY <3>1 DEF Proc
      <4> HIDE DEF k
      <4> QED
        BY <3>1, <3>2, <4>1 DEF Proc
    <3>5. workers' \in [Workers -> Proc]
      BY <3>4, <2>2, <1>2, <1>t DEF CreateRun, TypeOK
    <3> QED
      BY <3>3, <3>5, <2>2, <1>2, <1>t DEF CreateRun, TypeOK
  <2> QED
    BY <2>1, <2>2
<1>3. CASE RecordRun(w)
  <2>1. runs' \in [Execs -> Seq(Run)]
    BY <1>3, <1>t, StoreTyped DEF RecordRun, TypeOK
  <2>2. workers' \in [Workers -> Proc]
    BY <1>3, <1>t, CountedTyped, PcTyped DEF RecordRun, Outcomes, RunTest, RunSingleTest
  <2>3. faults' \in Nat
    BY <1>3, <1>t DEF RecordRun, Throws, TypeOK
  <2> QED
    BY <1>3, <1>t, <2>1, <2>2, <2>3 DEF RecordRun, TypeOK
<1>4. CASE Publish(w)
  <2> DEFINE e == ExecOf(w)
  <2>1. CASE Rejected(w)
    BY <1>4, <1>t, <2>1, RejectedTyped DEF Publish, TypeOK
  <2>2. CASE ~Rejected(w)
    <3>1. /\ e \in Execs /\ rows[e] \in Row /\ workers[w] \in Proc /\ Total(w) \in 0..MaxTests
          /\ CountsOk(w)
      BY <1>4, AtWork DEF Publish, Busy, IInv, LoopOk, Looping
    <3>2. FailedCount(w) \in Nat /\ workers[w].passed \in Nat
      BY <3>1, <1>4 DEF FailedCount, CountsOk, Finished, Publish, LoopDone, Proc
    <3>3. ASSUME NEW s \in {"PASSED", "FAILED"}
          PROVE  [rows[e] EXCEPT !.status = s, !.passed = workers[w].passed,
                                 !.failed = FailedCount(w)] \in Row
      BY <3>1, <3>2 DEF Row, RowStatus
    <3>4. rows' \in [Execs -> Row]
      BY <3>1, <3>3, <2>2, <1>4, <1>t DEF Publish, Verdict, TypeOK
    <3>5. workers' \in [Workers -> Proc]
      BY <2>2, <1>4, <1>t, PcTyped DEF Publish, Goto
    <3> QED
      BY <3>4, <3>5, <2>2, <1>4, <1>t DEF Publish, TypeOK
  <2> QED
    BY <2>1, <2>2
<1>5. CASE Report(w)
  <2>1. workers' \in [Workers -> Proc]
    BY <1>5, <1>t, PcTyped DEF Report
  <2>2. reports' \in [Execs -> Nat]
    <3>1. reports \in [Execs -> Nat] /\ ExecOf(w) \in Execs
      BY <1>5, <1>t, AtWork DEF TypeOK, Report, Busy
    <3>2. reports[ExecOf(w)] + 1 \in Nat
      BY <3>1
    <3> QED
      BY <1>5, <3>1, <3>2 DEF Report
  <2>3. faults' \in Nat
    BY <1>5, <1>t DEF Report, Throws, TypeOK
  <2> QED
    BY <1>5, <1>t, <2>1, <2>2, <2>3 DEF Report, TypeOK
<1>6. CASE FileBugs(w)
  <2>1. workers' \in [Workers -> Proc]
    BY <1>6, <1>t, PcTyped DEF FileBugs
  <2>2. runs' \in [Execs -> Seq(Run)]
    <3>1. runs \in [Execs -> Seq(Run)] /\ ExecOf(w) \in Execs
      BY <1>6, <1>t, AtWork DEF TypeOK, FileBugs, Busy
    <3>2. PICK F : runs' = [runs EXCEPT ![ExecOf(w)] = WithBugs(runs[ExecOf(w)], F)]
      BY <1>6 DEF FileBugs
    <3>3. WithBugs(runs[ExecOf(w)], F) \in Seq(Run)
      BY <3>1, BugsFiled
    <3> QED
      BY <3>1, <3>2, <3>3
  <2>3. faults' \in Nat
    BY <1>6, <1>t DEF FileBugs, Throws, TypeOK
  <2> QED
    BY <1>6, <1>t, <2>1, <2>2, <2>3 DEF FileBugs, TypeOK
<1>7. CASE HandleError(w)
  <2>1. workers' \in [Workers -> Proc]
    BY <1>7, <1>t, PcTyped DEF HandleError
  <2>2. rows' \in [Execs -> Row]
    BY <1>7, <1>t, StatusTyped DEF HandleError, TypeOK, RowStatus
  <2> QED
    BY <1>7, <1>t, <2>1, <2>2 DEF HandleError, TypeOK, Throws
<1> QED
  BY <1>1, <1>2, <1>3, <1>4, <1>5, <1>6, <1>7, SettleTyped DEF Work

LEMMA CrashTyped ==
  ASSUME IInv, NEW w \in Workers, Crash(w) \/ Restart(w) PROVE TypeOK'
<1>t. TypeOK /\ NoCall \in Call
  BY DEF IInv, NoCall, Call
<1>1. workers' \in [Workers -> Proc]
  BY <1>t, PcTyped DEF Crash, Restart
<1>2. rows' \in [Execs -> Row]
  <2>1. ASSUME NEW r \in Row PROVE [r EXCEPT !.status = "FAILED"] \in Row
    BY DEF Row, RowStatus
  <2> QED
    BY <1>t, <2>1 DEF Crash, Restart, CleanupStale, TypeOK
<1>3. calls' \in [Calls -> Call] /\ crashes' \in Nat
  <2>1. calls \in [Calls -> Call] /\ crashes \in Nat
    BY <1>t DEF TypeOK
  <2>2. crashes' \in Nat
    BY <2>1 DEF Crash, Restart
  <2>3. UNCHANGED calls \/ \E lost : calls' = [c \in Calls |-> IF c \in lost THEN NoCall ELSE calls[c]]
    BY DEF Crash, Restart
  <2> QED
    BY <1>t, <2>1, <2>2, <2>3
<1> QED
  BY <1>t, <1>1, <1>2, <1>3 DEF Crash, Restart, TypeOK

LEMMA StepTyped == IInv /\ [Next]_vars => TypeOK'
<1>1. IInv /\ UNCHANGED vars => TypeOK'
  BY DEF IInv, TypeOK, vars
<1> QED
  BY <1>1, ApiTyped, ServeTyped, QueueTyped, WorkTyped, CrashTyped DEF Next


-----------------------------------------------------------------------------
(* What every step keeps: rows keep their tests, jobs their execution, and *)
(* test runs their test and, once they have one, their result.             *)

TotalsKept ==
  \A e \in Execs : rows[e].status # "none" =>
    rows'[e].total = rows[e].total /\ rows'[e].status # "none"

JobsKept ==
  \A j \in Jobs : jobs[j].state # "free" =>
    jobs'[j].state # "free" /\ jobs'[j].exec = jobs[j].exec

Kept == TotalsKept /\ JobsKept /\ RunsGrow

LEMMA StatusSet ==
  ASSUME rows \in [Execs -> Row], NEW e, NEW s, SetStatus(e, s), NEW f \in Execs
  PROVE  /\ rows'[f].total = rows[f].total
         /\ rows'[f].status = IF f = e THEN s ELSE rows[f].status
         /\ f # e => rows'[f] = rows[f]
<1>1. rows[f] \in Row
  OBVIOUS
<1>2. rows'[f] = IF f = e THEN [rows[f] EXCEPT !.status = s] ELSE rows[f]
  BY DEF SetStatus
<1>3. [rows[f] EXCEPT !.status = s].total = rows[f].total /\ [rows[f] EXCEPT !.status = s].status = s
  BY <1>1 DEF Row
<1> QED
  BY <1>2, <1>3

LEMMA StatusKept ==
  ASSUME rows \in [Execs -> Row], NEW e, NEW s, s # "none", SetStatus(e, s) \/ UNCHANGED rows
  PROVE  TotalsKept
BY StatusSet DEF TotalsKept

LEMMA CreatedKept ==
  ASSUME rows \in [Execs -> Row], NEW e, NEW n, rows[e].status = "none", NewRow(e, n)
  PROVE  TotalsKept
BY DEF NewRow, TotalsKept

\* What does not touch the runs, or appends one, keeps them.
LEMMA RunsUnchanged == UNCHANGED runs => RunsGrow
BY DEF RunsGrow

LEMMA RunsAppended ==
  ASSUME runs \in [Execs -> Seq(Run)], NEW e, NEW r \in Run,
         runs' = [runs EXCEPT ![e] = Append(runs[e], r)]
  PROVE  RunsGrow
<1> SUFFICES ASSUME NEW f \in Execs, NEW k \in DOMAIN runs[f]
             PROVE  k \in DOMAIN runs'[f] /\ runs'[f][k] = runs[f][k]
  BY DEF RunsGrow
<1>1. CASE f = e
  <2>1. runs[f] \in Seq(Run) /\ runs'[f] = Append(runs[f], r)
    BY <1>1
  <2> QED
    BY <2>1, RunAppended
<1>2. CASE f # e
  BY <1>2
<1> QED
  BY <1>1, <1>2

\* A result is stored in the worker's own run, which has none yet.
LEMMA RunsStored ==
  ASSUME IInv, NEW w \in Workers, workers[w].pc = "running", NEW s \in {"PASSED", "FAILED"},
         Store(w, s)
  PROVE  /\ RunsGrow
         /\ \A e \in Execs : \A k \in DOMAIN runs[e] :
              ~(e = ExecOf(w) /\ k = workers[w].run)
                => runs'[e][k] = runs[e][k]
         /\ runs'[ExecOf(w)][workers[w].run].status = s
<1> DEFINE d == ExecOf(w)  i == workers[w].run
<1>1. /\ d \in Execs /\ runs[d] \in Seq(Run) /\ runs \in [Execs -> Seq(Run)]
      /\ i \in DOMAIN runs[d] /\ runs[d][i].status = "RUNNING"
  BY AtWork DEF Busy, IInv, TypeOK, CurrentOk
<1>2. runs' = [runs EXCEPT ![d] = [runs[d] EXCEPT ![i].status = s]]
  BY DEF Store
<1> HIDE DEF d, i
<1>3. /\ runs'[d] = [runs[d] EXCEPT ![i].status = s]
      /\ \A e \in Execs : e # d => runs'[e] = runs[e]
  BY <1>1, <1>2
<1>4. /\ DOMAIN runs'[d] = DOMAIN runs[d]
      /\ \A k \in DOMAIN runs[d] :
           runs'[d][k] = IF k = i THEN [runs[d][k] EXCEPT !.status = s] ELSE runs[d][k]
  BY <1>1, <1>3, RunStored
<1>5. runs[d][i] \in Run
  BY <1>1
<1>6. runs'[d][i].status = s /\ runs'[d][i].test = runs[d][i].test
  BY <1>1, <1>4, <1>5 DEF Run
<1>7. RunsGrow
  BY <1>1, <1>3, <1>4, <1>6 DEF RunsGrow
<1> QED
  BY <1>3, <1>4, <1>6, <1>7 DEF d, i

LEMMA BugsKept ==
  ASSUME NEW s \in Seq(Run), NEW F
  PROVE  /\ DOMAIN WithBugs(s, F) = DOMAIN s
         /\ \A k \in DOMAIN s : /\ WithBugs(s, F)[k].test = s[k].test
                                /\ WithBugs(s, F)[k].status = s[k].status
<1>1. PICK n \in Nat : s \in [1..n -> Run]
  BY SeqDef
<1>2. ASSUME NEW r \in Run
      PROVE  [r EXCEPT !.bugs = @ + 1].test = r.test /\ [r EXCEPT !.bugs = @ + 1].status = r.status
  BY DEF Run
<1> QED
  BY <1>1, <1>2 DEF WithBugs

LEMMA ApiKept == IInv /\ Api => Kept
<1> SUFFICES ASSUME IInv, Api PROVE Kept
  OBVIOUS
<1>t. rows \in [Execs -> Row]
  BY DEF IInv, TypeOK
<1>1. UNCHANGED <<runs, jobs>>
  BY DEF Api, Create, Delete, Start, StartMark, CancelCheck, RunOneTest, Retry
<1>2. TotalsKept
  <2>1. ASSUME NEW e \in Execs, Create(e) PROVE TotalsKept
    BY <2>1, <1>t, CreatedKept DEF Create
  <2>2. ASSUME NEW e \in Execs, Delete(e) PROVE TotalsKept
    BY <2>2, <1>t, StatusKept DEF Delete
  <2>3. ASSUME NEW c \in Calls, NEW e \in Execs, Start(c, e) PROVE TotalsKept
    BY <2>3, <1>t, StatusKept DEF Start, StartMark
  <2>4. ASSUME NEW c \in Calls, NEW e \in Execs, CancelCheck(c, e) PROVE TotalsKept
    BY <2>4 DEF CancelCheck, TotalsKept
  <2>5. ASSUME NEW c \in Calls, NEW f \in Execs, RunOneTest(c, f) PROVE TotalsKept
    BY <2>5, <1>t, CreatedKept DEF RunOneTest
  <2>6. ASSUME NEW c \in Calls, NEW e \in Execs, NEW f \in Execs, Retry(c, e, f) PROVE TotalsKept
    BY <2>6, <1>t, CreatedKept DEF Retry
  <2> QED
    BY <2>1, <2>2, <2>3, <2>4, <2>5, <2>6 DEF Api
<1> QED
  BY <1>1, <1>2, RunsUnchanged DEF Kept, JobsKept

LEMMA ServeKept == ASSUME IInv, NEW c \in Calls, Serve(c) PROVE Kept
<1>t. rows \in [Execs -> Row] /\ jobs \in [Jobs -> Job]
  BY DEF IInv, TypeOK
<1>1. UNCHANGED runs
  BY DEF Serve, StartCreated, StartMark, Enqueue, CancelWrite
<1>2. TotalsKept
  BY <1>t, StatusKept DEF Serve, StartCreated, StartMark, Enqueue, CancelWrite
<1>3. JobsKept
  <2>1. UNCHANGED jobs \/ \E j \in Jobs : jobs[j].state = "free" /\ \A i \in Jobs : i # j => jobs'[i] = jobs[i]
    BY <1>t DEF Serve, StartCreated, StartMark, Enqueue, CancelWrite
  <2> QED
    BY <2>1 DEF JobsKept
<1> QED
  BY <1>1, <1>2, <1>3, RunsUnchanged DEF Kept

LEMMA JobKept ==
  ASSUME jobs \in [Jobs -> Job], NEW j, NEW job, job.state # "free", job.exec = jobs[j].exec,
         jobs' = [jobs EXCEPT ![j] = job]
  PROVE  JobsKept
BY DEF JobsKept

LEMMA QueueKept ==
  ASSUME IInv, NEW j \in Jobs, StallDead(j) \/ StallBlocked(j) \/ \E w \in Workers : Pick(w, j)
  PROVE  Kept
<1>t. jobs \in [Jobs -> Job] /\ jobs[j] \in Job
  BY DEF IInv, TypeOK
<1>1. UNCHANGED <<rows, runs>>
  BY DEF StallDead, StallBlocked, Stall, Pick
<1>2. CASE StallDead(j) \/ StallBlocked(j)
  <2>1. Stalled(jobs[j]).state # "free" /\ Stalled(jobs[j]).exec = jobs[j].exec
    BY <1>t DEF Stalled, Job
  <2>2. jobs' = [jobs EXCEPT ![j] = Stalled(jobs[j])]
    BY <1>2 DEF StallDead, StallBlocked, Stall
  <2> QED
    BY <1>t, <1>1, <2>1, <2>2, JobKept, RunsUnchanged DEF Kept, TotalsKept
<1>3. ASSUME NEW w \in Workers, Pick(w, j) PROVE Kept
  <2> DEFINE job == [jobs[j] EXCEPT !.state = "active", !.owner = w]
  <2>1. job.state # "free" /\ job.exec = jobs[j].exec
    BY <1>t DEF Job
  <2>2. jobs' = [jobs EXCEPT ![j] = job]
    BY <1>3 DEF Pick
  <2> HIDE DEF job
  <2> QED
    BY <1>t, <1>1, <2>1, <2>2, JobKept, RunsUnchanged DEF Kept, TotalsKept
<1> QED
  BY <1>2, <1>3

LEMMA Published ==
  ASSUME IInv, NEW w \in Workers, Publish(w), ~Rejected(w)
  PROVE  /\ ExecOf(w) \in Execs
         /\ rows'[ExecOf(w)].total = Total(w)
         /\ rows'[ExecOf(w)].status = IF AllPassed(w) THEN "PASSED" ELSE "FAILED"
         /\ rows'[ExecOf(w)].passed = workers[w].passed
         /\ rows'[ExecOf(w)].failed = FailedCount(w)
         /\ \A e \in Execs : e # ExecOf(w) => rows'[e] = rows[e]
<1> DEFINE d == ExecOf(w)
           verdict == IF AllPassed(w) THEN "PASSED" ELSE "FAILED"
           row == [rows[d] EXCEPT !.status = verdict,
                                  !.passed = workers[w].passed, !.failed = FailedCount(w)]
<1>1. rows \in [Execs -> Row] /\ d \in Execs /\ rows[d] \in Row
  BY AtWork DEF Busy, Publish, IInv, TypeOK
<1>2. rows' = [rows EXCEPT ![d] = row]
  BY DEF Publish, Verdict
<1>3. /\ row.total = rows[d].total /\ row.status = verdict
      /\ row.passed = workers[w].passed /\ row.failed = FailedCount(w)
  <2> HIDE DEF d, verdict
  <2> QED
    BY <1>1 DEF Row
<1> HIDE DEF row
<1> QED
  BY <1>1, <1>2, <1>3 DEF Total

LEMMA WorkKept == ASSUME IInv, NEW w \in Workers, Work(w) PROVE Kept
<1>t. /\ rows \in [Execs -> Row] /\ runs \in [Execs -> Seq(Run)]
      /\ jobs \in [Jobs -> Job] /\ workers \in [Workers -> Proc]
  BY DEF IInv, TypeOK
<1>1. TotalsKept
  <2>1. CASE Publish(w)
    <3>1. CASE Rejected(w)
      BY <3>1 DEF TotalsKept, Rejected
    <3>2. CASE ~Rejected(w)
      BY <2>1, <3>2, Published DEF TotalsKept, Total
    <3> QED
      BY <3>1, <3>2
  <2>2. CASE Begin(w) \/ HandleError(w)
    BY <2>2, <1>t, StatusKept DEF Begin, HandleError, Rejected
  <2>3. CASE ~(Publish(w) \/ Begin(w) \/ HandleError(w))
    <3>1. UNCHANGED rows
      BY <2>3 DEF Work, CreateRun, RecordRun, Report, FileBugs, Complete, AttemptFailed,
                  Settle, Rejected
    <3> QED
      BY <3>1 DEF TotalsKept
  <2> QED
    BY <2>1, <2>2, <2>3
<1>2. JobsKept
  <2>1. CASE Complete(w) \/ AttemptFailed(w)
    <3> DEFINE j == workers[w].job
    <3>1. jobs[j] \in Job
      BY <2>1, AtWork DEF Busy, Complete, AttemptFailed
    <3>2. PICK job : Settle(w, job) /\ job.state # "free" /\ job.exec = jobs[j].exec
      <4>1. CASE Complete(w)
        <5>1. [jobs[j] EXCEPT !.state = "completed", !.owner = None].state # "free"
              /\ [jobs[j] EXCEPT !.state = "completed", !.owner = None].exec = jobs[j].exec
          BY <3>1 DEF Job
        <5> QED
          BY <4>1, <5>1 DEF Complete
      <4>2. CASE AttemptFailed(w)
        <5>1. ASSUME NEW s, s # "free"
              PROVE /\ [jobs[j] EXCEPT !.made = @ + 1, !.owner = None, !.state = s].state # "free"
                    /\ [jobs[j] EXCEPT !.made = @ + 1, !.owner = None, !.state = s].exec = jobs[j].exec
          BY <3>1, <5>1 DEF Job
        <5> QED
          BY <4>2, <5>1 DEF AttemptFailed
      <4> QED
        BY <2>1, <4>1, <4>2
    <3> QED
      BY <3>2, <1>t, JobKept DEF Settle, JobsKept
  <2>2. CASE ~(Complete(w) \/ AttemptFailed(w))
    <3>1. UNCHANGED jobs
      BY <2>2 DEF Work, Begin, CreateRun, RecordRun, Publish, Report, FileBugs, HandleError
    <3> QED
      BY <3>1 DEF JobsKept
  <2> QED
    BY <2>1, <2>2
<1>3. RunsGrow
  <2>1. CASE CreateRun(w)
    <3> DEFINE r == [test |-> workers[w].begun + 1, status |-> "RUNNING", bugs |-> 0]
    <3>1. CASE UNCHANGED runs
      BY <3>1, RunsUnchanged
    <3>2. CASE runs' # runs
      <4>1. runs' = [runs EXCEPT ![ExecOf(w)] = Append(runs[ExecOf(w)], r)]
        BY <2>1, <3>2 DEF CreateRun, Rejected
      <4>2. workers[w].begun \in Nat /\ Total(w) \in 0..MaxTests /\ workers[w].begun < Total(w)
        BY <2>1, AtWork DEF CreateRun, Busy, Proc
      <4>3. workers[w].begun + 1 \in 1..MaxTests
        BY <4>2, ExecutionsAssumption
      <4>4. r \in Run
        BY <4>3 DEF Run
      <4> QED
        BY <1>t, <4>1, <4>4, RunsAppended
    <3> QED
      BY <3>1, <3>2
  <2>2. CASE RecordRun(w)
    <3>1. workers[w].pc = "running" /\ (UNCHANGED runs \/ \E s \in {"PASSED", "FAILED"} : Store(w, s))
      BY <2>2 DEF RecordRun
    <3> QED
      BY <3>1, RunsStored, RunsUnchanged
  <2>3. CASE FileBugs(w)
    <3>1. PICK F : runs' = [runs EXCEPT ![ExecOf(w)] = WithBugs(runs[ExecOf(w)], F)]
      BY <2>3 DEF FileBugs
    <3> QED
      BY <3>1, <1>t, BugsKept DEF RunsGrow
  <2>4. CASE ~(CreateRun(w) \/ RecordRun(w) \/ FileBugs(w))
    <3>1. UNCHANGED runs
      BY <2>4 DEF Work, Begin, Publish, Report, HandleError, Complete, AttemptFailed, Settle, Rejected
    <3> QED
      BY <3>1, RunsUnchanged
  <2> QED
    BY <2>1, <2>2, <2>3, <2>4
<1> QED
  BY <1>1, <1>2, <1>3 DEF Kept

LEMMA CrashKept == ASSUME IInv, NEW w \in Workers, Crash(w) \/ Restart(w) PROVE Kept
<1>t. rows \in [Execs -> Row]
  BY DEF IInv, TypeOK
<1>1. UNCHANGED <<runs, jobs>>
  BY DEF Crash, Restart
<1>2. TotalsKept
  <2>1. ASSUME NEW r \in Row
        PROVE  /\ [r EXCEPT !.status = "FAILED"].total = r.total
               /\ [r EXCEPT !.status = "FAILED"].status = "FAILED"
    BY DEF Row
  <2> QED
    BY <1>t, <2>1 DEF Crash, Restart, CleanupStale, TotalsKept
<1> QED
  BY <1>1, <1>2, RunsUnchanged DEF Kept, JobsKept

LEMMA StepKept == IInv /\ [Next]_vars => Kept
<1>1. IInv /\ UNCHANGED vars => Kept
  BY RunsUnchanged DEF Kept, TotalsKept, JobsKept, vars
<1> QED
  BY <1>1, ApiKept, ServeKept, QueueKept, WorkKept, CrashKept DEF Next

-----------------------------------------------------------------------------
(* Requests, jobs and workers are about executions that were created.      *)

\* Where a worker's step leaves it.
LEMMA Left ==
  ASSUME workers \in [Workers -> Proc], NEW w \in Workers, NEW pc, Leave(w, pc)
  PROVE  workers'[w].pc = pc /\ workers'[w].job = workers[w].job
BY DEF Leave, Resting

LEMMA Gone ==
  ASSUME workers \in [Workers -> Proc], NEW w \in Workers, NEW pc, Goto(w, pc)
  PROVE  /\ workers'[w].pc = pc /\ workers'[w].job = workers[w].job
         /\ workers'[w].begun = workers[w].begun /\ workers'[w].passed = workers[w].passed
         /\ workers'[w].failed = workers[w].failed /\ workers'[w].run = workers[w].run
<1>1. workers[w] \in Proc
  OBVIOUS
<1>2. workers'[w] = [workers[w] EXCEPT !.pc = pc]
  BY DEF Goto
<1> QED
  BY <1>1, <1>2 DEF Proc

LEMMA CountedTo ==
  ASSUME workers \in [Workers -> Proc], NEW w \in Workers, NEW ok, NEW more, Counted(w, ok, more)
  PROVE  /\ workers'[w].pc = "loop" /\ workers'[w].job = workers[w].job
         /\ workers'[w].begun = workers[w].begun
         /\ workers'[w].passed = workers[w].passed + (IF ok THEN 1 ELSE 0)
         /\ workers'[w].failed = workers[w].failed + (IF ok THEN 0 ELSE 1) + more
<1> DEFINE passed == workers[w].passed + (IF ok THEN 1 ELSE 0)
           failed == workers[w].failed + (IF ok THEN 0 ELSE 1) + more
<1>1. workers[w] \in Proc
  OBVIOUS
<1>2. workers'[w] = [workers[w] EXCEPT !.pc = "loop", !.run = 0, !.passed = passed, !.failed = failed]
  BY DEF Counted
<1> HIDE DEF passed, failed
<1>3. /\ workers'[w].pc = "loop" /\ workers'[w].job = workers[w].job
      /\ workers'[w].begun = workers[w].begun
      /\ workers'[w].passed = passed /\ workers'[w].failed = failed
  BY <1>1, <1>2 DEF Proc
<1> QED
  BY <1>3 DEF passed, failed

LEMMA RunCreated ==
  ASSUME IInv, NEW w \in Workers, CreateRun(w), ~Rejected(w)
  PROVE  /\ runs' = [runs EXCEPT ![ExecOf(w)] = Append(runs[ExecOf(w)],
                       [test |-> workers[w].begun + 1, status |-> "RUNNING", bugs |-> 0])]
         /\ workers'[w].pc = "running" /\ workers'[w].job = workers[w].job
         /\ workers'[w].begun = workers[w].begun + 1
         /\ workers'[w].passed = workers[w].passed /\ workers'[w].failed = workers[w].failed
         /\ workers'[w].run = Len(runs[ExecOf(w)]) + 1
<1> DEFINE k == workers[w].begun + 1
           n == Len(runs[ExecOf(w)]) + 1
<1>1. workers \in [Workers -> Proc] /\ workers[w] \in Proc
  BY DEF IInv, TypeOK
<1>2. /\ runs' = [runs EXCEPT ![ExecOf(w)] = Append(runs[ExecOf(w)],
                     [test |-> k, status |-> "RUNNING", bugs |-> 0])]
      /\ workers' = [workers EXCEPT ![w] = [@ EXCEPT !.pc = "running", !.begun = k, !.run = n]]
  BY DEF CreateRun
<1> HIDE DEF k, n
<1>3. workers'[w] = [workers[w] EXCEPT !.pc = "running", !.begun = k, !.run = n]
  BY <1>1, <1>2
<1>4. /\ workers'[w].pc = "running" /\ workers'[w].job = workers[w].job
      /\ workers'[w].begun = k /\ workers'[w].run = n
      /\ workers'[w].passed = workers[w].passed /\ workers'[w].failed = workers[w].failed
  BY <1>1, <1>3 DEF Proc
<1> QED
  BY <1>2, <1>4 DEF k, n

\* A step of one worker, and a step of none, leaves the others where they are.
LEMMA OthersStay ==
  ASSUME IInv, NEW w \in Workers, NEW v \in Workers, v # w,
         Work(v) \/ Crash(v) \/ Restart(v) \/ \E j \in Jobs : Pick(v, j)
  PROVE  workers'[w] = workers[w]
BY DEF IInv, TypeOK, Work, Begin, CreateRun, RecordRun, Counted, Publish, Report, FileBugs,
   HandleError, Complete, AttemptFailed, Settle, Goto, Leave, Rejected, Crash, Restart, Pick

LEMMA AllStay ==
  Api \/ (\E c \in Calls : Serve(c)) \/ (\E j \in Jobs : StallDead(j) \/ StallBlocked(j))
      \/ UNCHANGED vars
  => UNCHANGED <<workers, runs, reports>>
BY DEF Api, Create, Delete, Start, CancelCheck, RunOneTest, Retry, Serve, StartCreated,
   StartMark, Enqueue, CancelWrite, StallDead, StallBlocked, Stall, vars

\* Every step takes a worker from one activity to the next, to a job it has picked,
\* or to rest.
LEMMA WorkerStep ==
  ASSUME IInv, [Next]_vars, NEW w \in Workers
  PROVE  \/ workers'[w] = workers[w]
         \/ Busy(w) /\ workers'[w].job = workers[w].job
         \/ \E j \in Jobs : Pick(w, j) /\ workers'[w] = [Resting("begin") EXCEPT !.job = j]
         \/ workers'[w].pc \in {"idle", "down"}
<1>t. workers \in [Workers -> Proc] /\ workers[w] \in Proc
  BY DEF IInv, TypeOK
<1>1. CASE Work(w)
  <2>1. CASE CreateRun(w)
    BY <1>t, <2>1, RunCreated, Left DEF CreateRun, Busy, Rejected
  <2>2. CASE RecordRun(w)
    BY <1>t, <2>2, CountedTo, Left DEF RecordRun, Busy
  <2>3. CASE Begin(w) \/ Publish(w)
    BY <1>t, <2>3, Gone, Left DEF Begin, Publish, Busy, Rejected
  <2>4. CASE Report(w) \/ FileBugs(w) \/ HandleError(w)
    BY <1>t, <2>4, Left DEF Report, FileBugs, HandleError, Busy
  <2>5. CASE Complete(w) \/ AttemptFailed(w)
    BY <1>t, <2>5 DEF Complete, AttemptFailed, Settle, Resting
  <2> QED
    BY <1>1, <2>1, <2>2, <2>3, <2>4, <2>5 DEF Work
<1>2. CASE Crash(w) \/ Restart(w)
  BY <1>t, <1>2 DEF Crash, Restart, Resting
<1>3. ASSUME NEW j \in Jobs, Pick(w, j)
      PROVE  Pick(w, j) /\ workers'[w] = [Resting("begin") EXCEPT !.job = j]
  BY <1>t, <1>3 DEF Pick
<1>4. ASSUME NEW v \in Workers, v # w, Work(v) \/ Crash(v) \/ Restart(v) \/ \E j \in Jobs : Pick(v, j)
      PROVE  workers'[w] = workers[w]
  BY <1>4, OthersStay
<1>5. CASE Api \/ (\E c \in Calls : Serve(c)) \/ (\E j \in Jobs : StallDead(j) \/ StallBlocked(j))
           \/ UNCHANGED vars
  BY <1>5, AllStay
<1> QED
  BY <1>1, <1>2, <1>3, <1>4, <1>5 DEF Next

StillKnown(e) == e \in Execs /\ rows'[e].status # "none"

LEMMA KnownStays ==
  ASSUME IInv, [Next]_vars, NEW e, Known(e)
  PROVE  StillKnown(e)
BY StepKept DEF Kept, TotalsKept, Known, StillKnown

LEMMA CallsKnownStep == IInv /\ [Next]_vars => CallsKnown'
<1> SUFFICES ASSUME IInv, [Next]_vars, NEW d \in Calls, calls'[d].op # "idle"
             PROVE  StillKnown(calls'[d].exec)
  BY DEF CallsKnown, Known, StillKnown
<1>t. rows \in [Execs -> Row] /\ calls \in [Calls -> Call]
  BY DEF IInv, TypeOK
<1>k. ASSUME NEW e, Known(e) PROVE StillKnown(e)
  BY <1>k, KnownStays
<1>1. CASE calls'[d] = calls[d]
  BY <1>1, <1>k DEF IInv, CallsKnown
<1>2. CASE calls'[d] # calls[d]
  <2>1. ASSUME NEW e \in Execs, Start(d, e) \/ CancelCheck(d, e) PROVE StillKnown(calls'[d].exec)
    <3>1. calls'[d].exec = e /\ Known(e)
      BY <2>1, <1>t, <1>2 DEF Start, StartMark, CancelCheck, Cancellable, Exists, Known
    <3> QED
      BY <3>1, <1>k
  <2>2. ASSUME NEW f \in Execs, RunOneTest(d, f) \/ \E e \in Execs : Retry(d, e, f)
        PROVE  StillKnown(calls'[d].exec)
    <3>1. calls'[d].exec = f /\ \E n : NewRow(f, n)
      BY <2>2, <1>t DEF RunOneTest, Retry
    <3>2. rows'[f].status # "none"
      BY <3>1, <1>t DEF NewRow, NoRow
    <3> QED
      BY <3>1, <3>2 DEF StillKnown
  <2>3. CASE StartCreated(d)
    <3>1. calls'[d].exec = calls[d].exec /\ calls[d].op # "idle"
      BY <2>3, <1>2, <1>t DEF StartCreated, StartMark, NoCall
    <3> QED
      BY <3>1, <1>k DEF IInv, CallsKnown
  <2>4. CASE Enqueue(d) \/ CancelWrite(d)
    <3>1. calls' = [calls EXCEPT ![d] = NoCall]
      BY <2>4 DEF Enqueue, CancelWrite
    <3>2. calls'[d].op = "idle"
      BY <3>1, <1>t DEF NoCall
    <3> QED
      BY <3>2
  <2>5. ASSUME NEW w \in Workers, Crash(w) PROVE FALSE
    <3>1. PICK lost : calls' = [c \in Calls |-> IF c \in lost THEN NoCall ELSE calls[c]]
      BY <2>5 DEF Crash
    <3> QED
      BY <3>1, <1>2 DEF NoCall
  <2>6. ASSUME NEW w \in Workers, Work(w) \/ Restart(w) \/ \E j \in Jobs : Pick(w, j) PROVE FALSE
    BY <2>6, <1>2 DEF Work, Begin, CreateRun, RecordRun, Publish, Report, FileBugs, HandleError,
       Complete, AttemptFailed, Settle, Restart, Pick
  <2>7. CASE Api
    <3>1. ASSUME NEW c \in Calls, c # d, NEW e \in Execs,
                 Start(c, e) \/ CancelCheck(c, e) \/ RunOneTest(c, e) \/ \E f \in Execs : Retry(c, f, e)
          PROVE  FALSE
      BY <3>1, <1>2, <1>t DEF Start, StartMark, CancelCheck, RunOneTest, Retry
    <3>2. ASSUME NEW e \in Execs, Create(e) \/ Delete(e) PROVE FALSE
      BY <3>2, <1>2 DEF Create, Delete
    <3> QED
      BY <2>7, <2>1, <2>2, <3>1, <3>2 DEF Api
  <2>8. ASSUME NEW c \in Calls, c # d, Serve(c) PROVE FALSE
    BY <2>8, <1>2, <1>t DEF Serve, StartCreated, StartMark, Enqueue, CancelWrite
  <2>9. CASE (\E j \in Jobs : StallDead(j) \/ StallBlocked(j)) \/ UNCHANGED vars
    BY <2>9, <1>2 DEF StallDead, StallBlocked, Stall, vars
  <2> QED
    BY <2>3, <2>4, <2>5, <2>6, <2>7, <2>8, <2>9 DEF Next, Serve
<1> QED
  BY <1>1, <1>2

LEMMA JobsKnownStep == IInv /\ [Next]_vars => JobsKnown'
<1> SUFFICES ASSUME IInv, [Next]_vars, NEW j \in Jobs, jobs'[j].state # "free"
             PROVE  StillKnown(jobs'[j].exec)
  BY DEF JobsKnown, Known, StillKnown
<1>t. jobs \in [Jobs -> Job] /\ jobs[j] \in Job
  BY DEF IInv, TypeOK
<1>k. ASSUME NEW e, Known(e) PROVE StillKnown(e)
  BY <1>k, KnownStays
<1>1. CASE jobs[j].state # "free"
  <2>1. jobs'[j].exec = jobs[j].exec /\ Known(jobs[j].exec)
    BY <1>1, StepKept DEF Kept, JobsKept, IInv, JobsKnown
  <2> QED
    BY <2>1, <1>k
<1>2. CASE jobs[j].state = "free"
  <2>0. jobs'[j] # jobs[j]
    BY <1>2
  <2>1. ASSUME NEW c \in Calls, Enqueue(c) PROVE StillKnown(jobs'[j].exec)
    <3>1. jobs'[j] = [jobs[j] EXCEPT !.state = "waiting", !.exec = calls[c].exec]
      BY <2>0, <2>1, <1>t DEF Enqueue
    <3>2. jobs'[j].exec = calls[c].exec
      BY <3>1, <1>t DEF Job
    <3>3. Known(calls[c].exec)
      BY <2>1 DEF Enqueue, IInv, CallsKnown
    <3> QED
      BY <3>2, <3>3, <1>k
  <2>2. ASSUME NEW i \in Jobs, StallDead(i) \/ StallBlocked(i) \/ \E w \in Workers : Pick(w, i) PROVE FALSE
    <3>1. i # j
      BY <2>2, <1>2 DEF StallDead, StallBlocked, Stall, Pick
    <3> QED
      BY <3>1, <2>2, <2>0, <1>t DEF StallDead, StallBlocked, Stall, Pick
  <2>3. ASSUME NEW w \in Workers, Complete(w) \/ AttemptFailed(w) PROVE FALSE
    <3>1. workers[w].job # j
      BY <2>3, <1>2 DEF Complete, AttemptFailed, Busy, IInv, AtKnownJob
    <3> QED
      BY <3>1, <2>3, <2>0, <1>t DEF Complete, AttemptFailed, Settle
  <2>4. ASSUME NEW w \in Workers, Work(w) \/ Crash(w) \/ Restart(w), ~(Complete(w) \/ AttemptFailed(w))
        PROVE  FALSE
    BY <2>4, <2>0 DEF Work, Begin, CreateRun, RecordRun, Publish, Report, FileBugs, HandleError,
       Crash, Restart
  <2>5. CASE Api \/ (\E c \in Calls : StartCreated(c) \/ CancelWrite(c)) \/ UNCHANGED vars
    BY <2>5, <2>0 DEF Api, Create, Delete, Start, StartMark, CancelCheck, RunOneTest, Retry,
       StartCreated, CancelWrite, vars
  <2> QED
    BY <2>1, <2>2, <2>3, <2>4, <2>5 DEF Next, Serve
<1> QED
  BY <1>1, <1>2

LEMMA AtKnownJobStep == IInv /\ [Next]_vars => AtKnownJob'
<1> SUFFICES ASSUME IInv, [Next]_vars, NEW w \in Workers, Busy(w)'
             PROVE  workers'[w].job \in Jobs /\ jobs'[workers'[w].job].state # "free"
  BY DEF AtKnownJob
<1>k. ASSUME NEW j \in Jobs, jobs[j].state # "free" PROVE jobs'[j].state # "free"
  BY <1>k, StepKept DEF Kept, JobsKept
<1>1. CASE Busy(w) /\ workers'[w].job = workers[w].job
  BY <1>1, <1>k DEF IInv, AtKnownJob
<1>2. CASE workers'[w] = workers[w]
  BY <1>2, <1>1 DEF Busy
<1>3. ASSUME NEW j \in Jobs, Pick(w, j), workers'[w] = [Resting("begin") EXCEPT !.job = j]
      PROVE  workers'[w].job = j /\ jobs[j].state # "free"
  BY <1>3 DEF Pick, Resting
<1> QED
  BY <1>1, <1>2, <1>3, <1>k, WorkerStep DEF Busy

LEMMA NewUnreportedStep == IInv /\ [Next]_vars => NewUnreported'
<1> SUFFICES ASSUME IInv, [Next]_vars, NEW e \in Execs, rows'[e].status = "none"
             PROVE  reports'[e] = 0
  BY DEF NewUnreported
<1>1. rows[e].status = "none" /\ reports[e] = 0
  BY StepKept DEF Kept, TotalsKept, IInv, NewUnreported
<1>2. CASE UNCHANGED reports
  BY <1>1, <1>2
<1>3. ASSUME NEW w \in Workers, Report(w) PROVE reports'[e] = 0
  <2>1. ExecOf(w) # e /\ reports \in [Execs -> Nat]
    BY <1>1, <1>3, AtWork DEF Report, Busy, IInv, TypeOK
  <2> QED
    BY <1>1, <1>3, <2>1 DEF Report
<1>4. UNCHANGED reports \/ \E w \in Workers : Report(w)
  BY DEF Next, Api, Create, Delete, Start, StartMark, CancelCheck, RunOneTest, Retry, Serve,
     StartCreated, Enqueue, CancelWrite, StallDead, StallBlocked, Stall, Pick, Work, Begin,
     CreateRun, RecordRun, Publish, FileBugs, HandleError, Complete, AttemptFailed, Settle,
     Crash, Restart, vars
<1> QED
  BY <1>2, <1>3, <1>4

-----------------------------------------------------------------------------
(* A worker's counts agree with the runs of the tests it is done with.     *)

StillHasRun(e, t, s) ==
  \E k \in DOMAIN runs'[e] : runs'[e][k].test = t /\ runs'[e][k].status \in s

LEMMA HasRunKept ==
  ASSUME IInv, [Next]_vars, NEW e \in Execs, NEW t, NEW s, "RUNNING" \notin s, HasRun(e, t, s)
  PROVE  StillHasRun(e, t, s)
BY StepKept DEF Kept, RunsGrow, HasRun, StillHasRun

LEMMA SameJob ==
  ASSUME IInv, [Next]_vars, NEW w \in Workers, Busy(w), workers'[w].job = workers[w].job
  PROVE  ExecOf(w)' = ExecOf(w) /\ Total(w)' = Total(w)
<1>1. workers[w].job \in Jobs /\ jobs[workers[w].job].state # "free"
      /\ ExecOf(w) \in Execs /\ rows[ExecOf(w)].status # "none"
  BY AtWork DEF IInv, AtKnownJob
<1>2. ExecOf(w)' = ExecOf(w)
  BY <1>1, StepKept DEF Kept, JobsKept, ExecOf
<1> QED
  BY <1>1, <1>2, StepKept DEF Kept, TotalsKept, Total

\* How a worker can come to be on its way through the tests.
LEMMA LoopMoves ==
  ASSUME IInv, [Next]_vars, NEW w \in Workers, Looping(w)'
  PROVE  \/ workers'[w] = workers[w]
         \/ \E j \in Jobs : workers'[w] = [Resting("begin") EXCEPT !.job = j]
         \/ workers[w].pc = "begin" /\ Goto(w, "loop")
         \/ CreateRun(w) /\ ~Rejected(w)
         \/ RecordRun(w) /\ \E ok \in BOOLEAN, more \in 0..1 : Counted(w, ok, more)
<1>t. workers \in [Workers -> Proc]
  BY DEF IInv, TypeOK
<1>0. ASSUME NEW pc, Leave(w, pc), pc \notin {"begin", "loop", "running"} PROVE FALSE
  BY <1>t, <1>0, Left DEF Looping
<1>r. ~Rejected(w)
  BY <1>0 DEF Rejected, OnError
<1>1. CASE Work(w)
  <2>1. CASE Begin(w)
    BY <2>1, <1>0, <1>r DEF Begin
  <2>2. CASE CreateRun(w)
    BY <2>2, <1>r
  <2>3. CASE RecordRun(w)
    BY <2>3, <1>0 DEF RecordRun, Outcomes, RunTest, RunSingleTest
  <2>4. CASE Publish(w)
    BY <2>4, <1>t, <1>0, <1>r, Gone DEF Publish, Looping
  <2>5. CASE Report(w) \/ FileBugs(w) \/ HandleError(w)
    BY <2>5, <1>0 DEF Report, FileBugs, HandleError
  <2>6. CASE Complete(w) \/ AttemptFailed(w)
    BY <2>6, <1>t DEF Complete, AttemptFailed, Settle, Resting, Looping
  <2> QED
    BY <1>1, <2>1, <2>2, <2>3, <2>4, <2>5, <2>6 DEF Work
<1>2. CASE Crash(w) \/ Restart(w)
  BY <1>2, <1>t DEF Crash, Restart, Resting, Looping
<1>3. ASSUME NEW j \in Jobs, Pick(w, j)
      PROVE  workers'[w] = [Resting("begin") EXCEPT !.job = j]
  BY <1>t, <1>3 DEF Pick
<1>4. ASSUME NEW v \in Workers, v # w, Work(v) \/ Crash(v) \/ Restart(v) \/ \E j \in Jobs : Pick(v, j)
      PROVE  workers'[w] = workers[w]
  BY <1>4, OthersStay
<1>5. CASE Api \/ (\E c \in Calls : Serve(c)) \/ (\E j \in Jobs : StallDead(j) \/ StallBlocked(j))
           \/ UNCHANGED vars
  BY <1>5, AllStay
<1> QED
  BY <1>1, <1>2, <1>3, <1>4, <1>5 DEF Next

\* The tests it is done with and its counts stay what they are.
LEMMA LoopKept ==
  ASSUME IInv, [Next]_vars, NEW w \in Workers, Looping(w), workers'[w].job = workers[w].job,
         workers'[w].passed = workers[w].passed, workers'[w].failed = workers[w].failed,
         Finished(w)' = Finished(w), workers'[w].begun <= Total(w),
         workers'[w].pc = "running" => workers'[w].begun > 0
  PROVE  CountsOk(w)' /\ RunsOk(w)'
<1>1. CountsOk(w) /\ RunsOk(w) /\ ExecOf(w) \in Execs
  BY AtWork DEF IInv, LoopOk, Looping, Busy
<1>2. ExecOf(w)' = ExecOf(w) /\ Total(w)' = Total(w)
  BY SameJob DEF Looping, Busy
<1>3. CountsOk(w)'
  BY <1>1, <1>2 DEF CountsOk
<1>4. NoneFailed(w)' = NoneFailed(w)
  BY DEF NoneFailed
<1>5. RunsOk(w)'
  <2>1. ASSUME NEW t, HasRun(ExecOf(w), t, {"PASSED", "FAILED"})
        PROVE  HasRun(ExecOf(w), t, {"PASSED", "FAILED"})'
    <3>1. StillHasRun(ExecOf(w), t, {"PASSED", "FAILED"})
      BY <1>1, <2>1, HasRunKept
    <3> QED
      BY <3>1, <1>2 DEF HasRun, StillHasRun
  <2>2. ASSUME NEW t, HasRun(ExecOf(w), t, {"PASSED"})
        PROVE  HasRun(ExecOf(w), t, {"PASSED"})'
    <3>1. StillHasRun(ExecOf(w), t, {"PASSED"})
      BY <1>1, <2>2, HasRunKept
    <3> QED
      BY <3>1, <1>2 DEF HasRun, StillHasRun
  <2>3. \A t \in 1..Finished(w)' : HasRun(ExecOf(w), t, {"PASSED", "FAILED"})'
    BY <1>1, <2>1 DEF RunsOk
  <2>4. NoneFailed(w)' => \A t \in 1..Finished(w)' : HasRun(ExecOf(w), t, {"PASSED"})'
    BY <1>1, <1>4, <2>2 DEF RunsOk
  <2> QED
    BY <2>3, <2>4 DEF RunsOk
<1> QED
  BY <1>3, <1>5

\* A result that is stored and counted finishes the worker's current test.
LEMMA LoopRecorded ==
  ASSUME IInv, [Next]_vars, NEW w \in Workers, RecordRun(w),
         NEW ok \in BOOLEAN, NEW more \in 0..1, Counted(w, ok, more),
         Store(w, IF ok /\ more = 0 THEN "PASSED" ELSE "FAILED"),
         more = 1 => w \in TestWorkers
  PROVE  CountsOk(w)' /\ RunsOk(w)'
<1> DEFINE d == ExecOf(w)  b == workers[w].begun  i == workers[w].run
           s == IF ok /\ more = 0 THEN "PASSED" ELSE "FAILED"
<1>1. /\ workers[w].pc = "running" /\ workers[w] \in Proc /\ workers \in [Workers -> Proc]
      /\ CountsOk(w) /\ RunsOk(w) /\ d \in Execs
      /\ i \in DOMAIN runs[d] /\ runs[d][i].test = b
  BY AtWork DEF IInv, TypeOK, LoopOk, Looping, Busy, CurrentOk, RecordRun
<1>2. /\ workers'[w].pc = "loop" /\ workers'[w].begun = b
      /\ workers'[w].passed = workers[w].passed + (IF ok THEN 1 ELSE 0)
      /\ workers'[w].failed = workers[w].failed + (IF ok THEN 0 ELSE 1) + more
  BY <1>1, CountedTo
<1>3. ExecOf(w)' = d /\ Total(w)' = Total(w)
  BY <1>1, CountedTo, SameJob DEF Busy
<1>4. /\ Finished(w) = b - 1 /\ Finished(w)' = b
      /\ b \in Nat /\ b > 0 /\ workers[w].passed \in Nat /\ workers[w].failed \in Nat
  BY <1>1, <1>2 DEF Finished, CountsOk, Proc
<1>5. CountsOk(w)'
  BY <1>1, <1>2, <1>3, <1>4 DEF CountsOk
<1>6. i \in DOMAIN runs'[d] /\ runs'[d][i].test = b /\ runs'[d][i].status = s
  <2>1. runs'[d][i].status = s
    BY <1>1, RunsStored
  <2>2. i \in DOMAIN runs'[d] /\ runs'[d][i].test = runs[d][i].test
    BY <1>1, StepKept DEF Kept, RunsGrow
  <2> QED
    BY <1>1, <2>1, <2>2
<1>7. ASSUME NEW t \in 1..b PROVE HasRun(ExecOf(w), t, {"PASSED", "FAILED"})'
  <2>1. CASE t = b
    BY <1>3, <1>6, <2>1 DEF HasRun
  <2>2. CASE t # b
    <3>1. HasRun(d, t, {"PASSED", "FAILED"})
      BY <1>1, <1>4, <2>2 DEF RunsOk
    <3>2. StillHasRun(d, t, {"PASSED", "FAILED"})
      BY <1>1, <3>1, HasRunKept
    <3> QED
      BY <3>2, <1>3 DEF HasRun, StillHasRun
  <2> QED
    BY <2>1, <2>2
<1>8. ASSUME NoneFailed(w)', NEW t \in 1..b PROVE HasRun(ExecOf(w), t, {"PASSED"})'
  <2>1. ok /\ more = 0 /\ NoneFailed(w)
    <3>1. CASE w \in Processors
      <4>1. workers'[w].passed = b /\ workers[w].passed <= b - 1
        BY <1>1, <1>4, <1>8, <3>1 DEF NoneFailed, CountsOk
      <4>2. ok /\ workers[w].passed = b - 1
        BY <4>1, <1>2, <1>4
      <4>3. more = 0
        BY <3>1, ExecutionsAssumption
      <4> QED
        BY <4>2, <4>3, <3>1, <1>4 DEF NoneFailed
    <3>2. CASE w \notin Processors
      <4>1. workers'[w].failed = 0
        BY <1>8, <3>2 DEF NoneFailed
      <4>2. ok /\ more = 0 /\ workers[w].failed = 0
        BY <4>1, <1>2, <1>4
      <4> QED
        BY <4>2, <3>2 DEF NoneFailed
    <3> QED
      BY <3>1, <3>2
  <2>2. CASE t = b
    BY <1>3, <1>6, <2>1, <2>2 DEF HasRun
  <2>3. CASE t # b
    <3>1. HasRun(d, t, {"PASSED"})
      BY <1>1, <1>4, <2>1, <2>3 DEF RunsOk
    <3>2. StillHasRun(d, t, {"PASSED"})
      BY <1>1, <3>1, HasRunKept
    <3> QED
      BY <3>2, <1>3 DEF HasRun, StillHasRun
  <2> QED
    BY <2>2, <2>3
<1> QED
  BY <1>4, <1>5, <1>7, <1>8 DEF RunsOk

LEMMA LoopStep == IInv /\ [Next]_vars => LoopOk'
<1> SUFFICES ASSUME IInv, [Next]_vars, NEW w \in Workers, Looping(w)'
             PROVE  CountsOk(w)' /\ RunsOk(w)'
  BY DEF LoopOk
<1>t. workers \in [Workers -> Proc] /\ workers[w] \in Proc
  BY DEF IInv, TypeOK
<1>1. CASE workers'[w] = workers[w]
  <2>1. Looping(w) /\ Finished(w)' = Finished(w)
    BY <1>1 DEF Looping, Finished
  <2>2. CountsOk(w)
    BY <2>1 DEF IInv, LoopOk
  <2> QED
    BY <1>1, <2>1, <2>2, LoopKept DEF CountsOk
<1>2. ASSUME NEW j \in Jobs, workers'[w] = [Resting("begin") EXCEPT !.job = j]
      PROVE  CountsOk(w)' /\ RunsOk(w)'
  <2>1. /\ workers'[w].pc = "begin" /\ workers'[w].begun = 0
        /\ workers'[w].passed = 0 /\ workers'[w].failed = 0
    BY <1>2 DEF Resting
  <2>2. Total(w)' \in Nat
    <3>1. TypeOK' /\ JobsKnown' /\ AtKnownJob'
      BY StepTyped, JobsKnownStep, AtKnownJobStep
    <3>2. ExecOf(w)' \in Execs
      BY <3>1, <2>1 DEF JobsKnown, AtKnownJob, Known, ExecOf, Busy
    <3>3. rows'[ExecOf(w)'] \in Row
      BY <3>1, <3>2 DEF TypeOK
    <3> QED
      BY <3>3, ExecutionsAssumption DEF Total, Row
  <2>3. Finished(w)' = 0
    BY <2>1 DEF Finished
  <2> QED
    BY <2>1, <2>2, <2>3 DEF CountsOk, RunsOk
<1>3. CASE workers[w].pc = "begin" /\ Goto(w, "loop")
  <2>1. Looping(w) /\ Finished(w)' = Finished(w) /\ workers'[w].pc = "loop"
    BY <1>3, <1>t, Gone DEF Looping, Finished
  <2>2. CountsOk(w)
    BY <2>1 DEF IInv, LoopOk
  <2> QED
    BY <1>3, <1>t, <2>1, <2>2, Gone, LoopKept DEF CountsOk
<1>4. CASE CreateRun(w) /\ ~Rejected(w)
  <2>1. workers[w].pc = "loop" /\ workers[w].begun < Total(w) /\ Total(w) \in 0..MaxTests
    BY <1>4, AtWork DEF CreateRun, Busy
  <2>2. workers'[w].pc = "running" /\ workers'[w].begun = workers[w].begun + 1
        /\ workers[w].begun \in Nat
    BY <1>4, <1>t, RunCreated DEF Proc
  <2>3. Finished(w)' = Finished(w) /\ workers'[w].begun <= Total(w) /\ workers'[w].begun > 0
    BY <2>1, <2>2, ExecutionsAssumption DEF Finished
  <2> QED
    BY <1>4, <2>1, <2>2, <2>3, RunCreated, LoopKept DEF Looping
<1>5. ASSUME RecordRun(w), NEW ok \in BOOLEAN, NEW more \in 0..1, Counted(w, ok, more)
      PROVE  CountsOk(w)' /\ RunsOk(w)'
  <2>1. \E a \in BOOLEAN, m \in 0..1 :
          /\ Counted(w, a, m) /\ Store(w, IF a /\ m = 0 THEN "PASSED" ELSE "FAILED")
          /\ m = 1 => w \in TestWorkers
    <3>1. ASSUME NEW pc, Leave(w, pc), pc # "loop" PROVE FALSE
      BY <3>1, <1>5, <1>t, Left, CountedTo
    <3>2. w \notin Processors => w \in TestWorkers
      BY DEF Workers
    <3> QED
      BY <1>5, <3>1, <3>2 DEF RecordRun, Outcomes, RunTest, RunSingleTest
  <2> QED
    BY <1>5, <2>1, LoopRecorded
<1> QED
  BY <1>1, <1>2, <1>3, <1>4, <1>5, LoopMoves

-----------------------------------------------------------------------------
(* The run a worker is busy with stays its own.                            *)

LEMMA RunningMoves ==
  ASSUME IInv, [Next]_vars, NEW w \in Workers, workers'[w].pc = "running"
  PROVE  workers'[w] = workers[w] \/ (CreateRun(w) /\ ~Rejected(w))
<1>t. workers \in [Workers -> Proc]
  BY DEF IInv, TypeOK
<1>1. Looping(w)'
  BY DEF Looping
<1>2. ASSUME NEW j \in Jobs, workers'[w] = [Resting("begin") EXCEPT !.job = j] PROVE FALSE
  BY <1>2 DEF Resting
<1>3. ~Goto(w, "loop")
  BY <1>t, Gone
<1>4. ASSUME NEW ok, NEW more, Counted(w, ok, more) PROVE FALSE
  BY <1>4, <1>t, CountedTo
<1> QED
  BY <1>1, <1>2, <1>3, <1>4, LoopMoves

\* Only the worker that is busy with a run gives it its result, and moves on.
LEMMA ResultsMove ==
  ASSUME IInv, [Next]_vars, NEW e \in Execs, NEW k \in DOMAIN runs[e],
         runs'[e][k].status # runs[e][k].status
  PROVE  \E v \in Workers : /\ workers[v].pc = "running" /\ workers'[v].pc # "running"
                            /\ ExecOf(v) = e /\ workers[v].run = k
<1>t. runs \in [Execs -> Seq(Run)] /\ workers \in [Workers -> Proc]
  BY DEF IInv, TypeOK
<1>0. ~UNCHANGED runs
  OBVIOUS
<1>1. ASSUME NEW w \in Workers, RecordRun(w)
      PROVE  /\ workers[w].pc = "running" /\ workers'[w].pc # "running"
             /\ ExecOf(w) = e /\ workers[w].run = k
  <2>1. \E s \in {"PASSED", "FAILED"} : Store(w, s)
    BY <1>0, <1>1 DEF RecordRun
  <2>2. ExecOf(w) = e /\ workers[w].run = k
    BY <1>1, <2>1, RunsStored DEF RecordRun
  <2> QED
    BY <1>1, <1>t, <2>2, CountedTo, Left DEF RecordRun
<1>2. ASSUME NEW w \in Workers, CreateRun(w) PROVE FALSE
  <2>1. ~Rejected(w)
    BY <1>0, <1>2 DEF CreateRun, Rejected
  <2>2. PICK r \in Run : runs' = [runs EXCEPT ![ExecOf(w)] = Append(runs[ExecOf(w)], r)]
    <3>1. workers[w].begun \in Nat /\ Total(w) \in 0..MaxTests /\ workers[w].begun < Total(w)
      BY <1>2, AtWork DEF CreateRun, Busy, Proc
    <3>2. workers[w].begun + 1 \in 1..MaxTests
      BY <3>1, ExecutionsAssumption
    <3>3. [test |-> workers[w].begun + 1, status |-> "RUNNING", bugs |-> 0] \in Run
      BY <3>2 DEF Run
    <3> QED
      BY <1>2, <2>1, <3>3, RunCreated
  <2>3. CASE e = ExecOf(w)
    <3>1. runs[e] \in Seq(Run) /\ runs'[e] = Append(runs[e], r)
      BY <1>t, <2>2, <2>3
    <3> QED
      BY <3>1, RunAppended
  <2>4. CASE e # ExecOf(w)
    BY <1>t, <2>2, <2>4
  <2> QED
    BY <2>3, <2>4
<1>3. ASSUME NEW w \in Workers, FileBugs(w) PROVE FALSE
  <2>1. PICK F : runs' = [runs EXCEPT ![ExecOf(w)] = WithBugs(runs[ExecOf(w)], F)]
    BY <1>3 DEF FileBugs
  <2> QED
    BY <1>t, <2>1, BugsKept
<1>4. ASSUME NEW w \in Workers, Work(w), ~(CreateRun(w) \/ RecordRun(w) \/ FileBugs(w)) PROVE FALSE
  BY <1>0, <1>4 DEF Work, Begin, Publish, Report, HandleError, Complete, AttemptFailed, Settle, Rejected
<1>5. ASSUME NEW w \in Workers, Crash(w) \/ Restart(w) \/ \E j \in Jobs : Pick(w, j) PROVE FALSE
  BY <1>0, <1>5 DEF Crash, Restart, Pick
<1> QED
  BY <1>0, <1>1, <1>2, <1>3, <1>4, <1>5, AllStay DEF Next

LEMMA CurrentStep == IInv /\ [Next]_vars => CurrentOk'
<1> SUFFICES ASSUME IInv, [Next]_vars, NEW w \in Workers, workers'[w].pc = "running"
             PROVE  /\ workers'[w].run \in DOMAIN runs'[ExecOf(w)']
                    /\ runs'[ExecOf(w)'][workers'[w].run].status = "RUNNING"
                    /\ runs'[ExecOf(w)'][workers'[w].run].test = workers'[w].begun
                    /\ \A v \in Workers : v # w /\ workers'[v].pc = "running"
                                            /\ ExecOf(v)' = ExecOf(w)'
                                            => workers'[v].run # workers'[w].run
  BY DEF CurrentOk
<1>t. runs \in [Execs -> Seq(Run)]
  BY DEF IInv, TypeOK
\* A worker that was running already, or that creates its run in this step.
<1>1. ASSUME NEW v \in Workers, workers'[v] = workers[v], workers'[v].pc = "running"
      PROVE  /\ ExecOf(v)' = ExecOf(v) /\ ExecOf(v) \in Execs
             /\ workers[v].run \in DOMAIN runs[ExecOf(v)]
             /\ \A u \in Workers : u # v /\ workers[u].pc = "running" /\ ExecOf(u) = ExecOf(v)
                                     => workers[u].run # workers[v].run
             /\ runs[ExecOf(v)][workers[v].run].status = "RUNNING"
             /\ runs[ExecOf(v)][workers[v].run].test = workers[v].begun
  <2>1. ExecOf(v)' = ExecOf(v) /\ ExecOf(v) \in Execs
    BY <1>1, SameJob, AtWork DEF Busy
  <2> QED
    BY <1>1, <2>1 DEF IInv, CurrentOk
<1>2. ASSUME NEW v \in Workers, CreateRun(v), ~Rejected(v)
      PROVE  /\ ExecOf(v)' = ExecOf(v) /\ ExecOf(v) \in Execs
             /\ workers'[v].run = Len(runs[ExecOf(v)]) + 1
             /\ workers'[v].run \in DOMAIN runs'[ExecOf(v)]
             /\ workers'[v].run \notin DOMAIN runs[ExecOf(v)]
             /\ runs'[ExecOf(v)][workers'[v].run].status = "RUNNING"
             /\ runs'[ExecOf(v)][workers'[v].run].test = workers'[v].begun
             /\ \A u \in Workers : u # v => workers'[u] = workers[u]
  <2> DEFINE d == ExecOf(v)
             r == [test |-> workers[v].begun + 1, status |-> "RUNNING", bugs |-> 0]
  <2>1. /\ Busy(v) /\ workers[v] \in Proc /\ d \in Execs /\ runs[d] \in Seq(Run)
        /\ workers[v].begun < Total(v) /\ Total(v) \in 0..MaxTests
    BY <1>2, AtWork DEF CreateRun, Busy
  <2>2. workers[v].begun \in Nat
    BY <2>1 DEF Proc
  <2>3. workers[v].begun + 1 \in 1..MaxTests
    BY <2>1, <2>2, ExecutionsAssumption
  <2>4. r \in Run
    BY <2>3 DEF Run
  <2>5. runs'[d] = Append(runs[d], r) /\ workers'[v].run = Len(runs[d]) + 1
        /\ workers'[v].begun = r.test /\ workers'[v].job = workers[v].job
    BY <1>t, <1>2, <2>1, RunCreated
  <2>6. r.status = "RUNNING"
    OBVIOUS
  <2> HIDE DEF r
  <2>7. /\ workers'[v].run \in DOMAIN runs'[d] /\ runs'[d][workers'[v].run] = r
        /\ workers'[v].run \notin DOMAIN runs[d]
    BY <2>1, <2>4, <2>5, RunAppended
  <2>8. ExecOf(v)' = d
    BY <2>1, <2>5, SameJob
  <2>9. \A u \in Workers : u # v => workers'[u] = workers[u]
    BY <1>2, OthersStay DEF Work
  <2> QED
    BY <2>1, <2>5, <2>6, <2>7, <2>8, <2>9
<1>3. CASE workers'[w] = workers[w]
  <2>1. /\ workers'[w].run \in DOMAIN runs'[ExecOf(w)]
        /\ runs'[ExecOf(w)][workers'[w].run].test = workers'[w].begun
    BY <1>1, <1>3, StepKept DEF Kept, RunsGrow
  <2>2. runs'[ExecOf(w)][workers'[w].run].status = "RUNNING"
    BY <1>1, <1>3, ResultsMove
  <2>3. ASSUME NEW v \in Workers, v # w, workers'[v].pc = "running", ExecOf(v)' = ExecOf(w)'
        PROVE  workers'[v].run # workers'[w].run
    BY <1>1, <1>2, <1>3, <2>3, RunningMoves
  <2> QED
    BY <1>1, <1>3, <2>1, <2>2, <2>3
<1>4. CASE CreateRun(w) /\ ~Rejected(w)
  <2>1. ASSUME NEW v \in Workers, v # w, workers'[v].pc = "running", ExecOf(v)' = ExecOf(w)'
        PROVE  workers'[v].run # workers'[w].run
    BY <1>1, <1>2, <1>4, <2>1
  <2> QED
    BY <1>2, <1>4, <2>1
<1> QED
  BY <1>3, <1>4, RunningMoves

-----------------------------------------------------------------------------
(* Verdicts and reports.                                                   *)

LEMMA ReportingStep == IInv /\ [Next]_vars => ReportingOk'
<1> SUFFICES ASSUME IInv, [Next]_vars, NEW w \in Workers, workers'[w].pc = "report"
             PROVE  /\ \A t \in 1..rows'[ExecOf(w)'].total :
                         StillHasRun(ExecOf(w)', t, {"PASSED", "FAILED"})
                    /\ workers'[w].passed <= rows'[ExecOf(w)'].total
  BY DEF ReportingOk, Tests, HasRun, StillHasRun, Total
<1>t. workers \in [Workers -> Proc]
  BY DEF IInv, TypeOK
<1>0. ASSUME NEW pc, Leave(w, pc), pc # "report" PROVE FALSE
  BY <1>t, <1>0, Left
<1>1. CASE workers'[w] = workers[w]
  <2>1. ExecOf(w)' = ExecOf(w) /\ Total(w)' = Total(w) /\ ExecOf(w) \in Execs
    BY <1>1, SameJob, AtWork DEF Busy
  <2>2. /\ \A t \in 1..Total(w) : HasRun(ExecOf(w), t, {"PASSED", "FAILED"})
        /\ workers[w].passed <= Total(w)
    BY <1>1 DEF IInv, ReportingOk, Tests, Total
  <2>3. ASSUME NEW t \in 1..Total(w) PROVE StillHasRun(ExecOf(w), t, {"PASSED", "FAILED"})
    BY <2>1, <2>2, HasRunKept
  <2> QED
    BY <1>1, <2>1, <2>2, <2>3 DEF Total
<1>2. CASE Publish(w)
  <2>1. /\ workers[w].pc = "loop" /\ workers[w].begun = Total(w) /\ Goto(w, "report")
    BY <1>2, <1>0 DEF Publish, LoopDone, Rejected, OnError
  <2>2. /\ ExecOf(w)' = ExecOf(w) /\ Total(w)' = Total(w) /\ ExecOf(w) \in Execs
        /\ workers'[w].passed = workers[w].passed
    BY <1>t, <2>1, Gone, SameJob, AtWork DEF Busy
  <2>3. CountsOk(w) /\ RunsOk(w) /\ Finished(w) = Total(w)
    BY <2>1 DEF IInv, LoopOk, Looping, Finished
  <2>4. ASSUME NEW t \in 1..Total(w) PROVE StillHasRun(ExecOf(w), t, {"PASSED", "FAILED"})
    <3>1. HasRun(ExecOf(w), t, {"PASSED", "FAILED"})
      BY <2>3 DEF RunsOk
    <3> QED
      BY <2>2, <3>1, HasRunKept
  <2> QED
    BY <2>2, <2>3, <2>4 DEF Total, CountsOk
<1>3. ASSUME Work(w), ~Publish(w) PROVE FALSE
  <2>1. ~Rejected(w)
    BY <1>0 DEF Rejected, OnError
  <2>2. CASE Begin(w)
    BY <1>t, <1>0, <2>1, <2>2, Gone DEF Begin
  <2>3. CASE CreateRun(w)
    BY <2>1, <2>3, RunCreated
  <2>4. CASE RecordRun(w)
    BY <1>t, <1>0, <2>4, CountedTo DEF RecordRun
  <2>5. CASE Report(w) \/ FileBugs(w) \/ HandleError(w)
    BY <1>0, <2>5 DEF Report, FileBugs, HandleError
  <2>6. CASE Complete(w) \/ AttemptFailed(w)
    BY <1>t, <2>6 DEF Complete, AttemptFailed, Settle, Resting
  <2> QED
    BY <1>3, <2>2, <2>3, <2>4, <2>5, <2>6 DEF Work
<1>4. ASSUME Crash(w) \/ Restart(w) \/ \E j \in Jobs : Pick(w, j) PROVE FALSE
  <2>1. \E j : workers' = [workers EXCEPT ![w] = [Resting("begin") EXCEPT !.job = j]]
               \/ workers' = [workers EXCEPT ![w] = Resting("down")]
               \/ workers' = [workers EXCEPT ![w] = Resting("idle")]
    BY <1>4 DEF Crash, Restart, Pick
  <2> QED
    BY <1>t, <2>1 DEF Resting
<1>5. ASSUME NEW v \in Workers, v # w, Work(v) \/ Crash(v) \/ Restart(v) \/ \E j \in Jobs : Pick(v, j)
      PROVE  workers'[w] = workers[w]
  BY <1>5, OthersStay
<1> QED
  BY <1>1, <1>2, <1>3, <1>4, <1>5, AllStay DEF Next

\* A row becomes PASSED by the final update of a worker only.
LEMMA PassedMoves ==
  ASSUME IInv, [Next]_vars, NEW e \in Execs, rows'[e].status = "PASSED"
  PROVE  \/ rows'[e] = rows[e]
         \/ \E w \in Workers : Publish(w) /\ ~Rejected(w) /\ ExecOf(w) = e
<1>t. rows \in [Execs -> Row]
  BY DEF IInv, TypeOK
<1>1. ASSUME NEW f, NEW s, SetStatus(f, s), s # "PASSED" PROVE rows'[e] = rows[e]
  BY <1>t, <1>1, StatusSet
<1>2. ASSUME NEW f, NEW n, NewRow(f, n) PROVE rows'[e] = rows[e]
  BY <1>t, <1>2 DEF NewRow, NoRow
<1>3. CASE Api
  BY <1>1, <1>2, <1>3 DEF Api, Create, Delete, Start, StartMark, CancelCheck, RunOneTest, Retry
<1>4. ASSUME NEW c \in Calls, Serve(c) PROVE rows'[e] = rows[e]
  BY <1>1, <1>4 DEF Serve, StartCreated, StartMark, Enqueue, CancelWrite
<1>5. ASSUME NEW w \in Workers, Publish(w), ~Rejected(w), ExecOf(w) # e PROVE rows'[e] = rows[e]
  BY <1>5, Published
<1>6. ASSUME NEW w \in Workers, Publish(w), Rejected(w) PROVE rows'[e] = rows[e]
  BY <1>6 DEF Rejected
<1>7. ASSUME NEW w \in Workers, Work(w), ~Publish(w) PROVE rows'[e] = rows[e]
  BY <1>1, <1>7 DEF Work, Begin, CreateRun, RecordRun, Report, FileBugs, HandleError,
     Complete, AttemptFailed, Settle, Rejected
<1>8. ASSUME NEW w \in Workers, Restart(w) PROVE rows'[e] = rows[e]
  <2>1. CASE UNCHANGED rows
    BY <2>1
  <2>2. ASSUME NEW stale, rows' = [f \in Execs |-> IF f \in stale
                                    THEN [rows[f] EXCEPT !.status = "FAILED"] ELSE rows[f]]
        PROVE  rows'[e] = rows[e]
    <3>1. [rows[e] EXCEPT !.status = "FAILED"].status = "FAILED"
      BY <1>t DEF Row
    <3> QED
      BY <2>2, <3>1
  <2> QED
    BY <1>8, <2>1, <2>2 DEF Restart, CleanupStale
<1>9. CASE (\E w \in Workers : Crash(w) \/ \E j \in Jobs : Pick(w, j))
           \/ (\E j \in Jobs : StallDead(j) \/ StallBlocked(j)) \/ UNCHANGED vars
  BY <1>9 DEF Crash, Pick, StallDead, StallBlocked, Stall, vars
<1> QED
  BY <1>3, <1>4, <1>5, <1>6, <1>7, <1>8, <1>9 DEF Next

LEMMA PassedStep == IInv /\ [Next]_vars => PassedIsEarned'
<1> SUFFICES ASSUME IInv, [Next]_vars, NEW e \in Execs, rows'[e].status = "PASSED"
             PROVE  /\ rows'[e].passed = rows'[e].total /\ rows'[e].failed = 0
                    /\ \A t \in 1..rows'[e].total : StillHasRun(e, t, {"PASSED"})
  BY DEF PassedIsEarned, Tests, HasRun, StillHasRun
<1>1. CASE rows'[e] = rows[e]
  <2>1. /\ rows[e].passed = rows[e].total /\ rows[e].failed = 0
        /\ \A t \in 1..rows[e].total : HasRun(e, t, {"PASSED"})
    BY <1>1 DEF IInv, PassedIsEarned, Tests
  <2>2. ASSUME NEW t \in 1..rows[e].total PROVE StillHasRun(e, t, {"PASSED"})
    BY <2>1, HasRunKept
  <2> QED
    BY <1>1, <2>1, <2>2
<1>2. ASSUME NEW w \in Workers, Publish(w), ~Rejected(w), ExecOf(w) = e
      PROVE  /\ rows'[e].passed = rows'[e].total /\ rows'[e].failed = 0
             /\ \A t \in 1..rows'[e].total : StillHasRun(e, t, {"PASSED"})
  <2>1. /\ workers[w].pc = "loop" /\ workers[w].begun = Total(w) /\ CountsOk(w) /\ RunsOk(w)
        /\ workers[w] \in Proc /\ Total(w) \in 0..MaxTests
    BY <1>2, AtWork DEF Publish, LoopDone, Busy, IInv, LoopOk, Looping
  <2>2. /\ Finished(w) = Total(w) /\ workers[w].passed <= Total(w)
        /\ Total(w) <= workers[w].passed + workers[w].failed
        /\ Total(w) \in Nat /\ workers[w].passed \in Nat /\ workers[w].failed \in Nat
    BY <2>1, ExecutionsAssumption DEF Finished, CountsOk, Proc
  <2>3. AllPassed(w)
    BY <1>2, Published
  <2>4. workers[w].passed = Total(w) /\ FailedCount(w) = 0 /\ NoneFailed(w)
    BY <2>2, <2>3 DEF AllPassed, FailedCount, NoneFailed
  <2>5. ASSUME NEW t \in 1..Total(w) PROVE StillHasRun(e, t, {"PASSED"})
    <3>1. HasRun(e, t, {"PASSED"})
      BY <1>2, <2>1, <2>2, <2>4 DEF RunsOk
    <3> QED
      BY <3>1, HasRunKept
  <2> QED
    BY <1>2, <2>4, <2>5, Published
<1> QED
  BY <1>1, <1>2, PassedMoves

LEMMA ReportedStep == IInv /\ [Next]_vars => ReportedIsRun'
<1> SUFFICES ASSUME IInv, [Next]_vars, NEW e \in Execs, reports'[e] > 0,
                    NEW t \in 1..rows'[e].total
             PROVE  StillHasRun(e, t, {"PASSED", "FAILED"})
  BY DEF ReportedIsRun, Tests, HasRun, StillHasRun
<1>t. reports \in [Execs -> Nat]
  BY DEF IInv, TypeOK
<1>1. CASE reports[e] > 0
  <2>1. rows[e].status # "none"
    BY <1>1 DEF IInv, NewUnreported
  <2>2. HasRun(e, t, {"PASSED", "FAILED"})
    BY <1>1, <2>1, StepKept DEF Kept, TotalsKept, IInv, ReportedIsRun, Tests
  <2> QED
    BY <2>2, HasRunKept
<1>2. ASSUME NEW w \in Workers, Report(w), ExecOf(w) = e
      PROVE  StillHasRun(e, t, {"PASSED", "FAILED"})
  <2>1. rows'[e].total = rows[e].total
    BY <1>2 DEF Report
  <2>2. HasRun(e, t, {"PASSED", "FAILED"})
    BY <1>2, <2>1 DEF Report, IInv, ReportingOk, Tests
  <2> QED
    BY <2>2, HasRunKept
<1>3. ASSUME NEW w \in Workers, Report(w), ExecOf(w) # e PROVE reports'[e] = reports[e]
  BY <1>3, <1>t DEF Report
<1>4. UNCHANGED reports \/ \E w \in Workers : Report(w)
  BY AllStay DEF Next, Pick, Work, Begin, CreateRun, RecordRun, Publish, FileBugs, HandleError,
     Complete, AttemptFailed, Settle, Crash, Restart
<1> QED
  BY <1>1, <1>2, <1>3, <1>4

-----------------------------------------------------------------------------
(* The lock of a job.                                                      *)

\* What changes a job.
LEMMA JobMoves ==
  ASSUME IInv, [Next]_vars, NEW j \in Jobs, jobs'[j] # jobs[j]
  PROVE  \/ jobs[j].state = "free"
         \/ jobs[j].state = "waiting" /\ \E w \in Workers : Pick(w, j)
         \/ jobs'[j] = Stalled(jobs[j]) /\ UNCHANGED workers
         \/ \E w \in Workers : /\ workers[w].job = j /\ jobs[j].owner = w /\ Busy(w)
                               /\ ~Busy(w)' /\ jobs'[j].stalls = jobs[j].stalls
<1>t. jobs \in [Jobs -> Job] /\ jobs[j] \in Job /\ workers \in [Workers -> Proc]
  BY DEF IInv, TypeOK
<1>1. ASSUME NEW c \in Calls, Enqueue(c) PROVE jobs[j].state = "free"
  BY <1>1, <1>t DEF Enqueue
<1>2. ASSUME NEW i \in Jobs, StallDead(i) \/ StallBlocked(i)
      PROVE  jobs'[j] = Stalled(jobs[j]) /\ UNCHANGED workers
  BY <1>2, <1>t DEF StallDead, StallBlocked, Stall
<1>3. ASSUME NEW i \in Jobs, NEW w \in Workers, Pick(w, i) PROVE jobs[j].state = "waiting" /\ Pick(w, j)
  <2>1. i = j
    BY <1>3, <1>t DEF Pick
  <2> QED
    BY <1>3, <2>1 DEF Pick
<1>4. ASSUME NEW w \in Workers, Complete(w) \/ AttemptFailed(w)
      PROVE  /\ workers[w].job = j /\ jobs[j].owner = w /\ Busy(w)
             /\ ~Busy(w)' /\ jobs'[j].stalls = jobs[j].stalls
  <2> DEFINE done == [jobs[j] EXCEPT !.state = "completed", !.owner = None]
             again == [jobs[j] EXCEPT !.made = @ + 1, !.owner = None,
                         !.state = IF jobs[j].made + 1 < Attempts THEN "waiting" ELSE "failed"]
  <2>1. workers[w].job = j /\ jobs[j].owner = w /\ (jobs'[j] = done \/ jobs'[j] = again)
    BY <1>4, <1>t DEF Complete, AttemptFailed, Settle
  <2>2. Busy(w) /\ ~Busy(w)'
    BY <1>4, <1>t DEF Complete, AttemptFailed, Settle, Busy, Resting
  <2>3. done.stalls = jobs[j].stalls /\ again.stalls = jobs[j].stalls
    BY <1>t DEF Job
  <2> QED
    BY <2>1, <2>2, <2>3
<1>5. ASSUME NEW w \in Workers, Work(w) \/ Crash(w) \/ Restart(w), ~(Complete(w) \/ AttemptFailed(w))
      PROVE  FALSE
  BY <1>5 DEF Work, Begin, CreateRun, RecordRun, Publish, Report, FileBugs, HandleError, Crash, Restart
<1>6. CASE Api \/ (\E c \in Calls : StartCreated(c) \/ CancelWrite(c)) \/ UNCHANGED vars
  BY <1>6 DEF Api, Create, Delete, Start, StartMark, CancelCheck, RunOneTest, Retry,
     StartCreated, CancelWrite, vars
<1> QED
  BY <1>1, <1>2, <1>3, <1>4, <1>5, <1>6 DEF Next, Serve

\* A lock that has never expired had not expired before the step.
LEMMA StallsGrow ==
  ASSUME IInv, [Next]_vars, NEW j \in Jobs, jobs[j].state # "free", jobs'[j].stalls = 0
  PROVE  jobs[j].stalls = 0
<1>t. jobs[j] \in Job /\ jobs \in [Jobs -> Job]
  BY DEF IInv, TypeOK
<1>1. CASE jobs'[j] = Stalled(jobs[j])
  BY <1>t, <1>1 DEF Stalled, Job
<1>2. ASSUME NEW w \in Workers, Pick(w, j) PROVE jobs'[j].stalls = jobs[j].stalls
  <2>1. jobs'[j] = [jobs[j] EXCEPT !.state = "active", !.owner = w]
    BY <1>t, <1>2 DEF Pick
  <2> QED
    BY <1>t, <2>1 DEF Job
<1> QED
  BY <1>1, <1>2, JobMoves

\* A worker that is at a job was there before, or has just picked it.
LEMMA BusyMoves ==
  ASSUME IInv, [Next]_vars, NEW w \in Workers, Busy(w)'
  PROVE  \/ Busy(w) /\ workers'[w].job = workers[w].job
         \/ \E j \in Jobs : Pick(w, j) /\ workers'[w].job = j
<1>1. ASSUME NEW j \in Jobs, Pick(w, j), workers'[w] = [Resting("begin") EXCEPT !.job = j]
      PROVE  workers'[w].job = j
  BY <1>1 DEF Resting
<1> QED
  BY <1>1, WorkerStep DEF Busy

LEMMA LockStep == IInv /\ LockInv /\ [Next]_vars => LockInv'
<1> SUFFICES ASSUME IInv, LockInv, [Next]_vars PROVE LockInv'
  OBVIOUS
<1>t. jobs \in [Jobs -> Job] /\ workers \in [Workers -> Proc]
  BY DEF IInv, TypeOK
<1>p. ASSUME NEW w \in Workers, NEW j \in Jobs, Pick(w, j)
      PROVE  /\ jobs'[j].state = "active" /\ jobs'[j].owner = w
             /\ \A v \in Workers : v # w => workers'[v] = workers[v]
             /\ \A v \in Workers : v # w /\ Busy(v) /\ workers[v].job = j => jobs[j].stalls # 0
  <2>1. jobs[j].state = "waiting" /\ jobs'[j] = [jobs[j] EXCEPT !.state = "active", !.owner = w]
    BY <1>t, <1>p DEF Pick
  <2>2. jobs'[j].state = "active" /\ jobs'[j].owner = w
    BY <1>t, <2>1 DEF Job
  <2> QED
    BY <1>p, <2>1, <2>2, OthersStay DEF LockInv, LockHeld
<1>1. LockedUnlessStalled'
  <2> SUFFICES ASSUME NEW v \in Workers, NEW w \in Workers, v # w, Busy(v)', Busy(w)',
                      workers'[v].job = workers'[w].job, jobs'[workers'[v].job].stalls = 0
               PROVE  FALSE
    <3>1. TypeOK' /\ AtKnownJob'
      BY StepTyped, AtKnownJobStep
    <3>2. ASSUME NEW v \in Workers, Busy(v)' PROVE jobs'[workers'[v].job].stalls \in Nat
      BY <3>1, <3>2 DEF TypeOK, AtKnownJob, Job
    <3> QED
      BY <3>2 DEF LockedUnlessStalled
  <2>1. CASE Busy(v) /\ workers'[v].job = workers[v].job /\ Busy(w) /\ workers'[w].job = workers[w].job
    <3>1. workers[v].job \in Jobs /\ jobs[workers[v].job].state # "free"
      BY <2>1 DEF IInv, AtKnownJob
    <3>2. jobs[workers[v].job].stalls = 0
      BY <2>1, <3>1, StallsGrow
    <3>3. workers[v].job = workers[w].job
      BY <2>1
    <3>4. jobs[workers[v].job].stalls \in Nat
      BY <3>1, <1>t DEF Job
    <3>5. jobs[workers[v].job].stalls > 0
      BY <2>1, <3>3 DEF LockInv, LockedUnlessStalled
    <3> QED
      BY <3>2, <3>4, <3>5
  <2>2. ASSUME NEW u \in Workers, NEW x \in Workers, u # x, NEW j \in Jobs, Pick(u, j),
               workers'[x].job = j, workers'[u].job = j, Busy(x)', jobs'[j].stalls = 0
        PROVE  FALSE
    <3>1. workers'[x] = workers[x] /\ Busy(x) /\ workers[x].job = j
      BY <2>2, <1>p DEF Busy
    <3>2. jobs[j].state # "free"
      BY <2>2 DEF Pick
    <3>3. jobs[j].stalls = 0
      BY <2>2, <3>2, StallsGrow
    <3> QED
      BY <2>2, <3>1, <3>3, <1>p
  <2> QED
    BY <2>1, <2>2, BusyMoves
<1>2. LockHeld'
  <2> SUFFICES ASSUME NEW w \in Workers, Busy(w)', jobs'[workers'[w].job].stalls = 0
               PROVE  \/ /\ jobs'[workers'[w].job].state = "active"
                         /\ jobs'[workers'[w].job].owner = w
                      \/ jobs'[workers'[w].job].state = "failed"
    BY DEF LockHeld
  <2>1. CASE \E j \in Jobs : Pick(w, j) /\ workers'[w].job = j
    BY <2>1, <1>p
  <2>2. CASE Busy(w) /\ workers'[w].job = workers[w].job
    <3> DEFINE j == workers[w].job
    <3>1. j \in Jobs /\ jobs[j].state # "free" /\ jobs[j] \in Job
      BY <2>2, <1>t DEF IInv, AtKnownJob
    <3>2. jobs[j].stalls = 0
      BY <2>2, <3>1, StallsGrow
    <3>3. \/ jobs[j].state = "active" /\ jobs[j].owner = w
          \/ jobs[j].state = "failed"
      BY <2>2, <3>2 DEF LockInv, LockHeld
    <3>4. CASE jobs'[j] = jobs[j]
      BY <2>2, <3>3, <3>4
    <3>5. CASE jobs'[j] = Stalled(jobs[j])
      <4>1. jobs'[j].stalls # 0 \/ jobs'[j].state = "failed"
        BY <3>1, <3>5 DEF Stalled, Job
      <4> QED
        BY <2>2, <4>1
    <3>6. ASSUME NEW v \in Workers, workers[v].job = j, jobs[j].owner = v, Busy(v), ~Busy(v)'
          PROVE  FALSE
      BY <2>2, <3>2, <3>6 DEF LockInv, LockedUnlessStalled
    <3> QED
      BY <3>1, <3>3, <3>4, <3>5, <3>6, JobMoves
  <2> QED
    BY <2>1, <2>2, BusyMoves
<1> QED
  BY <1>1, <1>2 DEF LockInv

-----------------------------------------------------------------------------
(* The theorems.                                                           *)

LEMMA Inductive == Spec => []IInv
<1>1. IInv /\ [Next]_vars => IInv'
  BY StepTyped, CallsKnownStep, JobsKnownStep, AtKnownJobStep, NewUnreportedStep,
     LoopStep, CurrentStep, ReportingStep, PassedStep, ReportedStep DEF IInv
<1> QED
  BY InitInv, <1>1, PTL DEF Spec

\* Every variable keeps its type: in particular no count of a row, a worker or a
\* job goes below zero, and no run is stored that was never created.
THEOREM TypeCorrect == Spec => []TypeOK
BY Inductive, PTL DEF IInv

\* However many workers, attempts, crashes and requests there are, an execution
\* that is PASSED has a passed run of every one of its tests, and counts that say so.
THEOREM VerdictsEarned == Spec => []PassedIsEarned
BY Inductive, PTL DEF IInv

\* A report is never written about an execution some of whose tests have not been
\* run to an end.
THEOREM ReportsComplete == Spec => []ReportedIsRun
BY Inductive, PTL DEF IInv

\* The lock of a BullMQ job keeps two workers apart as long as it does not expire.
THEOREM LockKeepsApart == Spec => []LockedUnlessStalled
<1>1. Init => LockInv
  BY DEF Init, LockInv, LockHeld, LockedUnlessStalled, Busy, Resting
<1>2. LockInv => LockedUnlessStalled
  BY DEF LockInv
<1> QED
  BY Inductive, LockStep, <1>1, <1>2, PTL DEF Spec

\* Once a test run has its result, no worker of a later attempt or of a second job
\* writes to it again.
THEOREM ResultsFinal == Spec => ResultsAreFinal
<1>1. IInv /\ [Next]_vars => [RunsGrow]_runs
  BY StepKept DEF Kept
<1> QED
  BY Inductive, <1>1, PTL DEF Spec, ResultsAreFinal
=============================================================================
