---------------------------- MODULE LifecycleProofs ----------------------------
(***************************************************************************)
(* What clients of the API see of an execution: its status moves as in     *)
(* ExecutionLifecycle, its failures, counts and bugs are explained by its  *)
(* test runs, and its runs are left RUNNING by failures only.              *)
(***************************************************************************)
EXTENDS ExecutionsProofs, FiniteSetTheorems

-----------------------------------------------------------------------------
(* Who owes work on an execution.                                          *)

Asked(e)  == \E c \in Calls : calls[c].exec = e /\ calls[c].op \in {"start", "enqueue"}
Queued(e) == \E j \in Jobs : jobs[j].exec = e /\ jobs[j].state \in {"waiting", "active"}
AtIt(e)   == \E w \in Workers : Busy(w) /\ ExecOf(w) = e

LEMMA OwedDef == Owed = {e \in Execs : Asked(e) \/ Queued(e) \/ AtIt(e)}
BY DEF Owed, Asked, Queued, AtIt

\* What neither the requests, the jobs nor the workers show has not changed.
LEMMA OwedKept == UNCHANGED <<calls, jobs, workers>> => UNCHANGED Owed
BY DEF Owed, Busy, ExecOf

-----------------------------------------------------------------------------
(* The abstract steps, in terms of the rows and of the work that is owed.  *)

Statuses == [e \in Execs |-> rows[e].status]

LEMMA StatusTo ==
  ASSUME rows \in [Execs -> Row], NEW e \in Execs, NEW s, SetStatus(e, s)
  PROVE  Lifecycle!To(e, s)
<1>1. \A f \in Execs : rows'[f].status = IF f = e THEN s ELSE rows[f].status
  BY StatusSet
<1> QED
  BY <1>1 DEF Lifecycle!To

LEMMA NewTo ==
  ASSUME rows \in [Execs -> Row], NEW e \in Execs, NEW n, NewRow(e, n)
  PROVE  Lifecycle!To(e, "PENDING")
<1>1. \A f \in Execs : rows'[f].status = IF f = e THEN "PENDING" ELSE rows[f].status
  BY DEF NewRow, NoRow
<1> QED
  BY <1>1 DEF Lifecycle!To

\* Work that ends, or goes from one hand to the next, is discharged or still owed.
LEMMA Shrinks ==
  ASSUME UNCHANGED rows, Owed' \subseteq Owed
  PROVE  [Lifecycle!Next]_(Lifecycle!vars)
<1>1. CASE Owed' = Owed
  BY <1>1 DEF Lifecycle!vars
<1>2. CASE Owed' # Owed
  <2> DEFINE D == Owed \ Owed'
  <2>1. D # {} /\ D \in SUBSET Owed /\ Owed' = Owed \ D
    BY <1>2
  <2> HIDE DEF D
  <2>2. Lifecycle!Discharge(D)
    BY <2>1 DEF Lifecycle!Discharge
  <2> QED
    BY <2>1, <2>2 DEF Lifecycle!Next
<1> QED
  BY <1>1, <1>2

LEMMA StepCreate ==
  ASSUME rows \in [Execs -> Row], NEW e \in Execs, NEW n, NewRow(e, n), rows[e].status = "none",
         Owed' = Owed \/ Owed' = Owed \cup {e}
  PROVE  Lifecycle!Next
<1>1. Lifecycle!Create(e)
  BY NewTo DEF Lifecycle!Create
<1> QED
  BY <1>1 DEF Lifecycle!Next

LEMMA StepSubmit ==
  ASSUME rows \in [Execs -> Row], NEW e \in Execs, Exists(e), SetStatus(e, "PENDING"),
         Owed' = Owed \cup {e}
  PROVE  Lifecycle!Next
<1>1. Lifecycle!Submit(e)
  BY StatusTo DEF Lifecycle!Submit, Lifecycle!Exists, Exists
<1> QED
  BY <1>1 DEF Lifecycle!Next

LEMMA StepCancel ==
  ASSUME rows \in [Execs -> Row], NEW e \in Execs, Exists(e), SetStatus(e, "CANCELLED"),
         UNCHANGED Owed
  PROVE  Lifecycle!Next
<1>1. Lifecycle!Cancel(e)
  BY StatusTo DEF Lifecycle!Cancel, Lifecycle!Exists, Exists
<1> QED
  BY <1>1 DEF Lifecycle!Next

LEMMA StepAdvance ==
  ASSUME rows \in [Execs -> Row], NEW e \in Execs, Exists(e), e \in Owed, UNCHANGED Owed,
         NEW s \in {"RUNNING", "PASSED", "FAILED"}, Lifecycle!To(e, s)
  PROVE  Lifecycle!Next
<1>1. Lifecycle!Advance(e)
  BY DEF Lifecycle!Advance, Lifecycle!Exists, Exists
<1> QED
  BY <1>1 DEF Lifecycle!Next

-----------------------------------------------------------------------------
(* The requests.                                                           *)

Live(call) == call.op \in {"start", "enqueue"}

\* A request that ends, or never asked for work, leaves no execution more work.
LEMMA CallEnds ==
  ASSUME calls \in [Calls -> Call], NEW c \in Calls, NEW call, UNCHANGED <<jobs, workers>>,
         calls' = [calls EXCEPT ![c] = call], ~Live(call)
  PROVE  /\ Owed' \subseteq Owed
         /\ ~Live(calls[c]) => UNCHANGED Owed
<1>1. calls'[c] = call /\ \A d \in Calls : d # c => calls'[d] = calls[d]
  OBVIOUS
<1>2. \A e : (Queued(e)' <=> Queued(e)) /\ (AtIt(e)' <=> AtIt(e))
  BY DEF Queued, AtIt, Busy, ExecOf
<1>3. ASSUME NEW e, Asked(e)' PROVE Asked(e)
  BY <1>1, <1>3 DEF Asked, Live
<1>4. ASSUME NEW e, Asked(e), ~Live(calls[c]) PROVE Asked(e)'
  BY <1>1, <1>4 DEF Asked, Live
<1>5. Owed' = {e \in Execs : Asked(e)' \/ Queued(e)' \/ AtIt(e)'}
  BY DEF Owed, Asked, Queued, AtIt
<1> QED
  BY <1>2, <1>3, <1>4, <1>5, OwedDef

\* A request for work is about one execution, and about no other before.
LEMMA CallStarts ==
  ASSUME calls \in [Calls -> Call], NEW c \in Calls, NEW e \in Execs, NEW call,
         UNCHANGED <<jobs, workers>>, calls' = [calls EXCEPT ![c] = call],
         Live(call), call.exec = e, Live(calls[c]) => calls[c].exec = e
  PROVE  Owed' = Owed \cup {e}
<1>1. calls'[c] = call /\ \A d \in Calls : d # c => calls'[d] = calls[d]
  OBVIOUS
<1>2. \A f : (Queued(f)' <=> Queued(f)) /\ (AtIt(f)' <=> AtIt(f))
  BY DEF Queued, AtIt, Busy, ExecOf
<1>3. ASSUME NEW f, f # e PROVE Asked(f)' <=> Asked(f)
  BY <1>1, <1>3 DEF Asked, Live
<1>4. Asked(e)'
  BY <1>1 DEF Asked, Live
<1>5. Owed' = {f \in Execs : Asked(f)' \/ Queued(f)' \/ AtIt(f)'}
  BY DEF Owed, Asked, Queued, AtIt
<1>6. ASSUME NEW f \in Execs PROVE f \in Owed' <=> (f \in Owed \/ f = e)
  BY <1>2, <1>3, <1>4, <1>5, OwedDef
<1>7. Owed \subseteq Execs /\ Owed' \subseteq Execs
  BY <1>5, OwedDef
<1> QED
  BY <1>6, <1>7

LEMMA ApiImplements == IInv /\ Api => [Lifecycle!Next]_(Lifecycle!vars)
<1> SUFFICES ASSUME IInv, Api PROVE [Lifecycle!Next]_(Lifecycle!vars)
  OBVIOUS
<1>t. rows \in [Execs -> Row] /\ calls \in [Calls -> Call]
  BY DEF IInv, TypeOK
<1>1. ASSUME NEW e \in Execs, Create(e) PROVE Lifecycle!Next
  BY <1>1, <1>t, OwedKept, StepCreate DEF Create
<1>2. ASSUME NEW e \in Execs, Delete(e) PROVE Lifecycle!Next
  <2>1. Lifecycle!Delete(e)
    BY <1>2, <1>t, OwedKept, StatusTo DEF Delete, Lifecycle!Delete, Lifecycle!Exists, Exists
  <2> QED
    BY <2>1 DEF Lifecycle!Next
<1>3. ASSUME NEW c \in Calls, NEW e \in Execs, Start(c, e) PROVE Lifecycle!Next
  <2>1. /\ Exists(e) /\ SetStatus(e, "PENDING") /\ UNCHANGED <<jobs, workers>>
        /\ calls[c].op = "idle" /\ calls' = [calls EXCEPT ![c] = [op |-> "enqueue", exec |-> e]]
    BY <1>3 DEF Start, StartMark, NoCall
  <2>2. Owed' = Owed \cup {e}
    <3>1. Live([op |-> "enqueue", exec |-> e]) /\ ~Live(calls[c])
      BY <2>1 DEF Live
    <3> QED
      BY <1>t, <2>1, <3>1, CallStarts
  <2> QED
    BY <1>t, <2>1, <2>2, StepSubmit
<1>4. ASSUME NEW c \in Calls, NEW e \in Execs, CancelCheck(c, e)
      PROVE  [Lifecycle!Next]_(Lifecycle!vars)
  <2>1. /\ UNCHANGED <<rows, jobs, workers>>
        /\ calls' = [calls EXCEPT ![c] = [op |-> "cancel", exec |-> e]]
    BY <1>4 DEF CancelCheck
  <2>2. Owed' \subseteq Owed
    BY <1>t, <2>1, CallEnds DEF Live
  <2> QED
    BY <2>1, <2>2, Shrinks
<1>5. ASSUME NEW c \in Calls, NEW f \in Execs,
             RunOneTest(c, f) \/ \E e \in Execs : Retry(c, e, f)
      PROVE  Lifecycle!Next
  <2>1. PICK n : NewRow(f, n)
    BY <1>5 DEF RunOneTest, Retry
  <2>2. /\ rows[f].status = "none" /\ UNCHANGED <<jobs, workers>>
        /\ calls[c].op = "idle" /\ calls' = [calls EXCEPT ![c] = [op |-> "start", exec |-> f]]
    BY <1>5 DEF RunOneTest, Retry, NoCall
  <2>3. Owed' = Owed \cup {f}
    <3>1. Live([op |-> "start", exec |-> f]) /\ ~Live(calls[c])
      BY <2>2 DEF Live
    <3> QED
      BY <1>t, <2>2, <3>1, CallStarts
  <2> QED
    BY <1>t, <2>1, <2>2, <2>3, StepCreate
<1> QED
  BY <1>1, <1>2, <1>3, <1>4, <1>5 DEF Api

-----------------------------------------------------------------------------
(* Work goes from a request to a job and from the job to a worker.         *)

LEMMA OwedBy ==
  ASSUME IInv
  PROVE  /\ \A c \in Calls : Live(calls[c]) => calls[c].exec \in Owed
         /\ \A j \in Jobs : jobs[j].state \in {"waiting", "active"} => jobs[j].exec \in Owed
         /\ \A w \in Workers : Busy(w) => ExecOf(w) \in Owed
<1>1. \A c \in Calls : Live(calls[c]) => calls[c].exec \in Execs
  BY DEF IInv, CallsKnown, Known, Live
<1>2. \A j \in Jobs : jobs[j].state \in {"waiting", "active"} => jobs[j].exec \in Execs
  BY DEF IInv, JobsKnown, Known
<1>3. \A w \in Workers : Busy(w) => ExecOf(w) \in Execs
  BY AtWork
<1> QED
  BY <1>1, <1>2, <1>3 DEF Owed, Live

\* A live job is an old one, or has taken over from a request.
LEMMA JobsOwed ==
  ASSUME IInv, [Next]_vars, NEW j \in Jobs, jobs'[j].state \in {"waiting", "active"}
  PROVE  jobs'[j].exec \in Owed
<1>t. jobs \in [Jobs -> Job] /\ jobs[j] \in Job
  BY DEF IInv, TypeOK
<1>k. jobs[j].state # "free" => jobs'[j].exec = jobs[j].exec
  BY StepKept DEF Kept, JobsKept
<1>1. CASE jobs[j].state \in {"waiting", "active"}
  BY <1>1, <1>k, OwedBy
<1>2. ASSUME NEW c \in Calls, Enqueue(c), jobs'[j] # jobs[j] PROVE jobs'[j].exec \in Owed
  <2>1. jobs'[j] = [jobs[j] EXCEPT !.state = "waiting", !.exec = calls[c].exec]
    BY <1>2, <1>t DEF Enqueue
  <2>2. jobs'[j].exec = calls[c].exec
    BY <2>1, <1>t DEF Job
  <2> QED
    BY <1>2, <2>2, OwedBy DEF Enqueue, Live
<1>3. ASSUME NEW w \in Workers, workers[w].job = j, Busy(w), jobs[j].state # "free"
      PROVE  jobs'[j].exec \in Owed
  BY <1>3, <1>k, OwedBy DEF ExecOf
<1>4. CASE jobs[j].state \notin {"waiting", "active"} /\ jobs[j].state # "free"
  <2>1. jobs'[j] # jobs[j]
    BY <1>4
  <2>2. ASSUME NEW i \in Jobs, StallDead(i) \/ StallBlocked(i) \/ \E w \in Workers : Pick(w, i)
        PROVE  FALSE
    BY <1>4, <1>t, <2>1, <2>2 DEF StallDead, StallBlocked, Stall, Pick
  <2>3. ASSUME NEW c \in Calls, Serve(c) PROVE jobs'[j].exec \in Owed
    BY <1>2, <2>1, <2>3 DEF Serve, StartCreated, StartMark, CancelWrite
  <2>4. ASSUME NEW w \in Workers, Complete(w) \/ AttemptFailed(w) PROVE jobs'[j].exec \in Owed
    BY <1>3, <1>4, <1>t, <2>1, <2>4 DEF Complete, AttemptFailed, Settle, Busy
  <2>5. ASSUME NEW w \in Workers, Work(w) \/ Crash(w) \/ Restart(w),
               ~(Complete(w) \/ AttemptFailed(w))
        PROVE  FALSE
    BY <2>1, <2>5 DEF Work, Begin, CreateRun, RecordRun, Publish, Report, FileBugs, HandleError,
       Crash, Restart
  <2>6. CASE Api \/ UNCHANGED vars
    BY <2>1, <2>6 DEF Api, Create, Delete, Start, StartMark, CancelCheck, RunOneTest, Retry,
       vars
  <2> QED
    BY <2>2, <2>3, <2>4, <2>5, <2>6 DEF Next
<1>5. CASE jobs[j].state = "free"
  <2>1. jobs'[j] # jobs[j]
    BY <1>5
  <2>2. ASSUME NEW i \in Jobs, StallDead(i) \/ StallBlocked(i) \/ \E w \in Workers : Pick(w, i)
        PROVE  FALSE
    BY <1>5, <1>t, <2>1, <2>2 DEF StallDead, StallBlocked, Stall, Pick
  <2>3. ASSUME NEW c \in Calls, Serve(c) PROVE jobs'[j].exec \in Owed
    BY <1>2, <2>1, <2>3 DEF Serve, StartCreated, StartMark, CancelWrite
  <2>4. ASSUME NEW w \in Workers, Complete(w) \/ AttemptFailed(w) PROVE FALSE
    <3>1. workers[w].job # j
      BY <1>5, <2>4 DEF Complete, AttemptFailed, Busy, IInv, AtKnownJob
    <3> QED
      BY <1>t, <2>1, <2>4, <3>1 DEF Complete, AttemptFailed, Settle
  <2>5. ASSUME NEW w \in Workers, Work(w) \/ Crash(w) \/ Restart(w),
               ~(Complete(w) \/ AttemptFailed(w))
        PROVE  FALSE
    BY <2>1, <2>5 DEF Work, Begin, CreateRun, RecordRun, Publish, Report, FileBugs, HandleError,
       Crash, Restart
  <2>6. CASE Api \/ UNCHANGED vars
    BY <2>1, <2>6 DEF Api, Create, Delete, Start, StartMark, CancelCheck, RunOneTest, Retry,
       vars
  <2> QED
    BY <2>2, <2>3, <2>4, <2>5, <2>6 DEF Next
<1> QED
  BY <1>1, <1>4, <1>5

\* A worker is at work that a job had on offer.
LEMMA WorkersOwed ==
  ASSUME IInv, [Next]_vars, NEW w \in Workers, Busy(w)'
  PROVE  ExecOf(w)' \in Owed
<1>1. CASE Busy(w) /\ workers'[w].job = workers[w].job
  BY <1>1, SameJob, OwedBy
<1>2. ASSUME NEW j \in Jobs, Pick(w, j), workers'[w].job = j PROVE ExecOf(w)' \in Owed
  <2>1. jobs[j].state = "waiting"
    BY <1>2 DEF Pick
  <2>2. jobs'[j].exec = jobs[j].exec /\ jobs[j].exec \in Owed
    BY <2>1, StepKept, OwedBy DEF Kept, JobsKept
  <2> QED
    BY <1>2, <2>2 DEF ExecOf
<1> QED
  BY <1>1, <1>2, BusyMoves

\* No step but a request for it makes work on an execution owed.
LEMMA NoNewWork ==
  ASSUME IInv, [Next]_vars, \A c \in Calls : calls'[c] = calls[c] \/ ~Live(calls[c]')
  PROVE  Owed' \subseteq Owed
<1> SUFFICES ASSUME NEW e \in Owed' PROVE e \in Owed
  OBVIOUS
<1>1. Asked(e)' \/ Queued(e)' \/ AtIt(e)'
  BY DEF Owed, Asked, Queued, AtIt
<1>2. CASE Asked(e)'
  BY <1>2, OwedBy DEF Asked, Live
<1>3. CASE Queued(e)'
  BY <1>3, JobsOwed DEF Queued
<1>4. CASE AtIt(e)'
  BY <1>4, WorkersOwed DEF AtIt
<1> QED
  BY <1>1, <1>2, <1>3, <1>4

\* While every worker stays where it is, and jobs and requests do, work stays owed.
LEMMA SameWork ==
  ASSUME UNCHANGED <<calls, jobs>>,
         \A w \in Workers : (Busy(w)' <=> Busy(w)) /\ workers'[w].job = workers[w].job
  PROVE  UNCHANGED Owed
BY DEF Owed, ExecOf

-----------------------------------------------------------------------------
(* The handlers' writes, the queue and the workers.                        *)

LEMMA ServeImplements ==
  ASSUME IInv, NEW c \in Calls, Serve(c) PROVE [Lifecycle!Next]_(Lifecycle!vars)
<1>t. rows \in [Execs -> Row] /\ calls \in [Calls -> Call]
  BY DEF IInv, TypeOK
<1>n. [Next]_vars
  BY DEF Next
<1>i. ~Live(NoCall)
  BY DEF Live, NoCall
<1> DEFINE e == calls[c].exec
<1>1. CASE StartCreated(c)
  <2>1. /\ e \in Execs /\ calls[c].op = "start" /\ UNCHANGED <<jobs, workers>>
    BY <1>1 DEF StartCreated, StartMark, IInv, CallsKnown, Known
  <2>2. CASE Exists(e)
    <3>1. /\ SetStatus(e, "PENDING")
          /\ calls' = [calls EXCEPT ![c] = [op |-> "enqueue", exec |-> e]]
      BY <1>1, <2>2 DEF StartCreated, StartMark
    <3>2. Live([op |-> "enqueue", exec |-> e])
      BY DEF Live
    <3> HIDE DEF e
    <3>3. calls[c].exec = e
      BY DEF e
    <3>4. Owed' = Owed \cup {e}
      BY <1>t, <2>1, <3>1, <3>2, <3>3, CallStarts
    <3> QED
      BY <1>t, <2>1, <2>2, <3>1, <3>4, StepSubmit
  <2>3. CASE ~Exists(e)
    <3>1. calls' = [calls EXCEPT ![c] = NoCall] /\ UNCHANGED rows
      BY <1>1, <2>3 DEF StartCreated, StartMark
    <3>2. Owed' \subseteq Owed
      BY <1>t, <1>i, <2>1, <3>1, CallEnds
    <3> QED
      BY <3>1, <3>2, Shrinks
  <2> QED
    BY <2>2, <2>3
<1>2. CASE Enqueue(c)
  <2>1. calls' = [calls EXCEPT ![c] = NoCall] /\ UNCHANGED rows
    BY <1>2 DEF Enqueue
  <2>2. \A d \in Calls : calls'[d] = calls[d] \/ ~Live(calls[d]')
    BY <1>t, <1>i, <2>1
  <2>3. Owed' \subseteq Owed
    BY <1>n, <2>2, NoNewWork
  <2> QED
    BY <2>1, <2>3, Shrinks
<1>3. CASE CancelWrite(c)
  <2>1. /\ calls' = [calls EXCEPT ![c] = NoCall] /\ UNCHANGED <<jobs, workers>>
        /\ ~Live(calls[c]) /\ e \in Execs
    BY <1>3 DEF CancelWrite, Live, IInv, CallsKnown, Known
  <2>2. UNCHANGED Owed
    BY <1>t, <1>i, <2>1, CallEnds
  <2>3. CASE Exists(e)
    <3>1. SetStatus(e, "CANCELLED")
      BY <1>3, <2>3 DEF CancelWrite
    <3> QED
      BY <1>t, <2>1, <2>2, <2>3, <3>1, StepCancel
  <2>4. CASE ~Exists(e)
    BY <1>3, <2>2, <2>4, Shrinks DEF CancelWrite
  <2> QED
    BY <2>3, <2>4
<1> QED
  BY <1>1, <1>2, <1>3 DEF Serve

LEMMA QueueImplements ==
  ASSUME IInv, NEW j \in Jobs, StallDead(j) \/ StallBlocked(j) \/ \E w \in Workers : Pick(w, j)
  PROVE  [Lifecycle!Next]_(Lifecycle!vars)
<1>1. [Next]_vars
  BY DEF Next
<1>2. UNCHANGED <<rows, calls>>
  BY DEF StallDead, StallBlocked, Stall, Pick
<1>3. Owed' \subseteq Owed
  BY <1>1, <1>2, NoNewWork
<1> QED
  BY <1>2, <1>3, Shrinks

\* On its way from the beginning of a job to its end a worker stays at it.
LEMMA StaysAtWork ==
  ASSUME IInv, NEW w \in Workers,
         Begin(w) \/ CreateRun(w) \/ RecordRun(w) \/ Publish(w) \/ Report(w) \/ FileBugs(w)
           \/ HandleError(w)
  PROVE  UNCHANGED Owed
<1>t. workers \in [Workers -> Proc]
  BY DEF IInv, TypeOK
<1>1. Work(w) /\ UNCHANGED <<calls, jobs>>
  BY DEF Work, Begin, CreateRun, RecordRun, Publish, Report, FileBugs, HandleError
<1>2. ASSUME NEW pc, Leave(w, pc) \/ Goto(w, pc)
      PROVE  workers'[w].job = workers[w].job /\ workers'[w].pc = pc
  BY <1>t, <1>2, Left, Gone
<1>3. OnError(w) \in {"fail", "throw"}
  BY DEF OnError
<1>4. Busy(w) /\ Busy(w)' /\ workers'[w].job = workers[w].job
  <2>1. CASE Begin(w) \/ Publish(w)
    BY <1>2, <1>3, <2>1 DEF Begin, Publish, Rejected, Busy
  <2>2. CASE CreateRun(w)
    BY <1>2, <1>3, <2>2, RunCreated DEF CreateRun, Rejected, Busy
  <2>3. CASE RecordRun(w)
    BY <1>t, <1>2, <2>3, CountedTo DEF RecordRun, Busy
  <2>4. CASE Report(w) \/ FileBugs(w) \/ HandleError(w)
    BY <1>2, <2>4 DEF Report, FileBugs, HandleError, Busy
  <2> QED
    BY <2>1, <2>2, <2>3, <2>4
<1>5. \A v \in Workers : v # w => workers'[v] = workers[v]
  BY <1>1, OthersStay
<1>6. \A v \in Workers : (Busy(v)' <=> Busy(v)) /\ workers'[v].job = workers[v].job
  BY <1>4, <1>5 DEF Busy
<1> QED
  BY <1>1, <1>6, SameWork

LEMMA WorkImplements ==
  ASSUME IInv, NEW w \in Workers, Work(w) PROVE [Lifecycle!Next]_(Lifecycle!vars)
<1>n. [Next]_vars
  BY DEF Next
<1>t. rows \in [Execs -> Row]
  BY DEF IInv, TypeOK
<1>1. CASE UNCHANGED rows
  <2>1. CASE Complete(w) \/ AttemptFailed(w)
    <3>1. Owed' \subseteq Owed
      BY <1>n, <2>1, NoNewWork DEF Complete, AttemptFailed, Settle
    <3> QED
      BY <1>1, <3>1, Shrinks
  <2>2. CASE ~(Complete(w) \/ AttemptFailed(w))
    BY <1>1, <2>2, StaysAtWork, Shrinks DEF Work
  <2> QED
    BY <2>1, <2>2
<1>2. CASE ~UNCHANGED rows
  <2>1. Begin(w) \/ Publish(w) \/ HandleError(w)
    BY <1>2 DEF Work, CreateRun, RecordRun, Report, FileBugs, Complete, AttemptFailed,
       Settle, Rejected
  <2>2. UNCHANGED Owed /\ ExecOf(w) \in Owed /\ ExecOf(w) \in Execs
    BY <2>1, StaysAtWork, OwedBy, AtWork DEF Begin, Publish, HandleError, Busy
  <2>3. Exists(ExecOf(w))
    BY <1>2, <2>1 DEF Begin, Publish, HandleError, Rejected
  <2>4. \E s \in {"RUNNING", "PASSED", "FAILED"} : Lifecycle!To(ExecOf(w), s)
    <3>1. CASE Begin(w) \/ HandleError(w)
      <4>1. \E s \in {"RUNNING", "PASSED", "FAILED"} : SetStatus(ExecOf(w), s)
        BY <1>2, <3>1 DEF Begin, HandleError, Rejected
      <4> QED
        BY <1>t, <2>2, <4>1, StatusTo
    <3>2. CASE Publish(w)
      <4>1. ~Rejected(w)
        BY <1>2 DEF Rejected
      <4>2. PICK s \in {"RUNNING", "PASSED", "FAILED"} :
              s = IF AllPassed(w) THEN "PASSED" ELSE "FAILED"
        OBVIOUS
      <4>3. \A f \in Execs : rows'[f].status = IF f = ExecOf(w) THEN s ELSE rows[f].status
        BY <3>2, <4>1, <4>2, Published
      <4>4. Lifecycle!To(ExecOf(w), s)
        BY <4>3 DEF Lifecycle!To
      <4> QED
        BY <4>4
    <3> QED
      BY <2>1, <3>1, <3>2
  <2> QED
    BY <1>t, <2>2, <2>3, <2>4, StepAdvance
<1> QED
  BY <1>1, <1>2

LEMMA CrashImplements ==
  ASSUME IInv, NEW w \in Workers, Crash(w) \/ Restart(w)
  PROVE  [Lifecycle!Next]_(Lifecycle!vars)
<1>n. [Next]_vars
  BY DEF Next
<1>t. rows \in [Execs -> Row] /\ workers \in [Workers -> Proc]
  BY DEF IInv, TypeOK
<1>1. CASE Crash(w)
  <2>1. \A c \in Calls : calls'[c] = calls[c] \/ ~Live(calls[c]')
    BY <1>1 DEF Crash, Live, NoCall
  <2>2. Owed' \subseteq Owed /\ UNCHANGED rows
    BY <1>n, <1>1, <2>1, NoNewWork DEF Crash
  <2> QED
    BY <2>2, Shrinks
<1>2. CASE Restart(w)
  <2>1. UNCHANGED <<calls, jobs>> /\ workers[w].pc = "down"
        /\ workers' = [workers EXCEPT ![w] = Resting("idle")]
    BY <1>2 DEF Restart
  <2>2. ~Busy(w) /\ ~Busy(w)' /\ \A v \in Workers : v # w => workers'[v] = workers[v]
    BY <1>t, <2>1 DEF Busy, Resting
  <2>3. UNCHANGED Owed
    <3>1. \A v \in Workers : Busy(v)' <=> Busy(v)
      BY <2>2 DEF Busy
    <3>2. \A e \in Execs : (\E v \in Workers : Busy(v)' /\ ExecOf(v)' = e)
                               <=> (\E v \in Workers : Busy(v) /\ ExecOf(v) = e)
      BY <2>1, <2>2, <3>1 DEF ExecOf
    <3> QED
      BY <2>1, <3>2 DEF Owed
  <2>4. CASE UNCHANGED rows
    BY <2>3, <2>4, Shrinks
  <2>5. CASE CleanupStale
    <3>1. PICK S \in SUBSET {e \in Execs : rows[e].status = "RUNNING"} :
            rows' = [e \in Execs |->
                       IF e \in S THEN [rows[e] EXCEPT !.status = "FAILED"] ELSE rows[e]]
      BY <2>5 DEF CleanupStale
    <3>2. \A e \in Execs : [rows[e] EXCEPT !.status = "FAILED"].status = "FAILED"
      BY <1>t DEF Row
    <3>3. \A e \in Execs : rows'[e].status = IF e \in S THEN "FAILED" ELSE rows[e].status
      BY <3>1, <3>2
    <3>4. S \in SUBSET {e \in Execs : Statuses[e] = "RUNNING"}
      BY <3>1 DEF Statuses
    <3>5. Lifecycle!Sweep
      BY <2>3, <3>3, <3>4 DEF Lifecycle!Sweep, Statuses
    <3> QED
      BY <3>5 DEF Lifecycle!Next
  <2> QED
    BY <1>2, <2>4, <2>5 DEF Restart
<1> QED
  BY <1>1, <1>2

-----------------------------------------------------------------------------
\* Whatever the requests, workers, faults and crashes of the system do, a client of the
\* API sees the status of an execution change by its own requests, by the sweep of a
\* restarting backend, and otherwise only while work on the execution is owed.
THEOREM LifecycleImplemented == Spec => ImplementsLifecycle
<1>1. Init => Lifecycle!Init
  <2> SUFFICES ASSUME Init PROVE Lifecycle!Init
    OBVIOUS
  <2>1. Owed = {}
    BY DEF Init, Owed, Busy, NoCall, FreeJob, Resting
  <2>2. [e \in Execs |-> rows[e].status] = [e \in Execs |-> "none"]
    BY DEF Init, NoRow
  <2> QED
    BY <2>1, <2>2 DEF Lifecycle!Init
<1>2. IInv /\ [Next]_vars => [Lifecycle!Next]_(Lifecycle!vars)
  <2>1. CASE UNCHANGED vars
    <3>1. UNCHANGED <<rows, Owed>>
      BY <2>1, OwedKept DEF vars
    <3> QED
      BY <3>1 DEF Lifecycle!vars
  <2> QED
    BY <2>1, ApiImplements, ServeImplements, QueueImplements, WorkImplements, CrashImplements
       DEF Next
<1> QED
  BY Inductive, <1>1, <1>2, PTL DEF Spec, ImplementsLifecycle, Lifecycle!Spec

-----------------------------------------------------------------------------
(* Why an execution is FAILED.                                             *)

\* What has broken stays broken; a call that throws counts as a fault.
LEMMA MoreBroken ==
  ASSUME IInv, [Next]_vars
  PROVE  /\ faults \in Nat /\ crashes \in Nat /\ faults' \in Nat /\ crashes' \in Nat
         /\ faults <= faults' /\ crashes <= crashes'
         /\ (Throws \/ faults' = faults + 2) => faults < faults'
         /\ Broken => Broken'
<1>1. faults \in Nat /\ crashes \in Nat /\ faults' \in Nat /\ crashes' \in Nat
  BY StepTyped DEF IInv, TypeOK
<1>2. faults' = faults \/ faults' = faults + 1 \/ faults' = faults + 2
  BY DEF Next, Api, Create, Delete, Start, StartMark, CancelCheck, RunOneTest, Retry, Serve,
     StartCreated, Enqueue, CancelWrite, StallDead, StallBlocked, Stall, Pick, Work, Begin,
     CreateRun, RecordRun, Publish, Report, FileBugs, HandleError, Complete, AttemptFailed,
     Settle, Crash, Restart, Rejected, Throws, vars
<1>3. crashes' = crashes \/ crashes' = crashes + 1
  BY DEF Next, Api, Create, Delete, Start, StartMark, CancelCheck, RunOneTest, Retry, Serve,
     StartCreated, Enqueue, CancelWrite, StallDead, StallBlocked, Stall, Pick, Work, Begin,
     CreateRun, RecordRun, Publish, Report, FileBugs, HandleError, Complete, AttemptFailed,
     Settle, Crash, Restart, vars
<1>4. Throws => faults' = faults + 1
  BY DEF Throws
<1>5. faults <= faults' /\ crashes <= crashes'
  BY <1>1, <1>2, <1>3
<1>a. \A a, b, c, d \in Nat : a <= c /\ b <= d /\ a + b > 0 => c + d > 0
  OBVIOUS
<1>6. faults + crashes > 0 => faults' + crashes' > 0
  BY <1>a, <1>1, <1>5
<1>7. ASSUME Throws \/ faults' = faults + 2 PROVE faults < faults'
  BY <1>1, <1>4, <1>7
<1> QED
  BY <1>1, <1>5, <1>6, <1>7 DEF Broken

\* A failed test stays one.
LEMMA SomeFailedKept ==
  ASSUME IInv, [Next]_vars, NEW e \in Execs, rows[e].status # "none", SomeFailed(e)
  PROVE  \E t \in 1..rows'[e].total : StillHasRun(e, t, {"FAILED"})
BY StepKept, HasRunKept DEF Kept, TotalsKept, SomeFailed, Tests

\* A deleted row stays deleted.
LEMMA DeletedStays ==
  ASSUME IInv, [Next]_vars, NEW e \in Execs, rows[e].status = "deleted"
  PROVE  rows'[e].status = "deleted"
<1>t. rows \in [Execs -> Row]
  BY DEF IInv, TypeOK
<1>1. ASSUME NEW f, NEW s, SetStatus(f, s), Exists(f) PROVE rows'[e].status = "deleted"
  BY <1>t, <1>1, StatusSet DEF Exists
<1>2. ASSUME NEW f, NEW n, NewRow(f, n), rows[f].status = "none"
      PROVE  rows'[e].status = "deleted"
  BY <1>t, <1>2 DEF NewRow
<1>3. CASE UNCHANGED rows
  BY <1>3
<1>4. CASE Api
  BY <1>1, <1>2, <1>3, <1>4 DEF Api, Create, Delete, Start, StartMark, CancelCheck,
     RunOneTest, Retry
<1>5. ASSUME NEW c \in Calls, Serve(c) PROVE rows'[e].status = "deleted"
  BY <1>1, <1>3, <1>5 DEF Serve, StartCreated, StartMark, Enqueue, CancelWrite
<1>6. ASSUME NEW w \in Workers, Work(w) PROVE rows'[e].status = "deleted"
  <2>1. CASE Publish(w) /\ ~Rejected(w)
    <3>1. ExecOf(w) # e
      BY <2>1 DEF Publish, Exists
    <3> QED
      BY <2>1, <3>1, Published
  <2>2. CASE ~(Publish(w) /\ ~Rejected(w))
    BY <1>1, <1>3, <1>6, <2>2 DEF Work, Begin, CreateRun, RecordRun, Publish, Report, FileBugs,
       HandleError, Complete, AttemptFailed, Settle, Rejected
  <2> QED
    BY <2>1, <2>2
<1>7. ASSUME NEW w \in Workers, Restart(w) PROVE rows'[e].status = "deleted"
  BY <1>3, <1>7, <1>t DEF Restart, CleanupStale
<1>8. CASE (\E w \in Workers : Crash(w) \/ \E j \in Jobs : Pick(w, j))
           \/ (\E j \in Jobs : StallDead(j) \/ StallBlocked(j)) \/ UNCHANGED vars
  BY <1>3, <1>8 DEF Crash, Pick, StallDead, StallBlocked, Stall, vars
<1> QED
  BY <1>4, <1>5, <1>6, <1>7, <1>8 DEF Next

\* What fails an execution.
LEMMA FailedMoves ==
  ASSUME IInv, [Next]_vars, NEW e \in Execs, rows'[e].status = "FAILED"
  PROVE  \/ rows[e].status = "FAILED"
         \/ \E w \in Workers : Publish(w) /\ ~Rejected(w) /\ ExecOf(w) = e
         \/ \E w \in Workers : workers[w].pc = "fail" /\ ExecOf(w) = e /\ Exists(e)
         \/ \E w \in Workers : workers[w].pc = "down"
<1>t. rows \in [Execs -> Row]
  BY DEF IInv, TypeOK
<1>1. ASSUME NEW f, NEW s, SetStatus(f, s), s # "FAILED" PROVE rows[e].status = "FAILED"
  BY <1>t, <1>1, StatusSet
<1>2. ASSUME NEW f, NEW n, NewRow(f, n) PROVE rows[e].status = "FAILED"
  BY <1>t, <1>2 DEF NewRow, NoRow
<1>3. CASE UNCHANGED rows
  BY <1>3
<1>4. CASE Api
  BY <1>1, <1>2, <1>3, <1>4 DEF Api, Create, Delete, Start, StartMark, CancelCheck,
     RunOneTest, Retry
<1>5. ASSUME NEW c \in Calls, Serve(c) PROVE rows[e].status = "FAILED"
  BY <1>1, <1>3, <1>5 DEF Serve, StartCreated, StartMark, Enqueue, CancelWrite
<1>6. ASSUME NEW w \in Workers, Publish(w), ~Rejected(w), ExecOf(w) # e
      PROVE  rows[e].status = "FAILED"
  BY <1>6, Published
<1>7. ASSUME NEW w \in Workers, HandleError(w)
      PROVE  \/ rows[e].status = "FAILED"
             \/ workers[w].pc = "fail" /\ ExecOf(w) = e /\ Exists(e)
  BY <1>3, <1>7, <1>t, StatusSet DEF HandleError
<1>8. ASSUME NEW w \in Workers, Work(w), ~(Publish(w) /\ ~Rejected(w)), ~HandleError(w)
      PROVE  rows[e].status = "FAILED"
  BY <1>1, <1>3, <1>8 DEF Work, Begin, CreateRun, RecordRun, Publish, Report, FileBugs,
     Complete, AttemptFailed, Settle, Rejected
<1>9. CASE (\E w \in Workers : Crash(w) \/ \E j \in Jobs : Pick(w, j))
           \/ (\E j \in Jobs : StallDead(j) \/ StallBlocked(j)) \/ UNCHANGED vars
  BY <1>3, <1>9 DEF Crash, Pick, StallDead, StallBlocked, Stall, vars
<1>10. ASSUME NEW w \in Workers, Restart(w) PROVE workers[w].pc = "down"
  BY <1>10 DEF Restart
<1> QED
  BY <1>4, <1>5, <1>6, <1>7, <1>8, <1>9, <1>10 DEF Next

\* A worker comes to an error, or goes down, when something breaks or its row is gone.
LEMMA FailMoves ==
  ASSUME IInv, [Next]_vars, NEW w \in Workers, workers'[w].pc \in {"fail", "down"}
  PROVE  \/ workers'[w] = workers[w]
         \/ Broken'
         \/ workers'[w].pc = "fail" /\ Busy(w) /\ rows[ExecOf(w)].status = "deleted"
<1>t. workers \in [Workers -> Proc]
  BY DEF IInv, TypeOK
<1>0. ASSUME NEW pc, Leave(w, pc) \/ Goto(w, pc), pc \notin {"fail", "down"} PROVE FALSE
  BY <1>t, <1>0, Left, Gone
<1>f. ASSUME Throws PROVE Broken'
  BY <1>f, MoreBroken DEF Broken
<1>r. ASSUME Rejected(w), Busy(w) PROVE Broken' \/ rows[ExecOf(w)].status = "deleted"
  BY <1>f, <1>r, AtWork DEF Rejected, Exists
<1>l. ASSUME NEW pc, Leave(w, pc) PROVE workers'[w].pc = pc
  BY <1>t, <1>l, Left
<1>1. CASE Work(w)
  <2>1. CASE Begin(w) \/ Publish(w)
    <3>1. Busy(w)
      BY <2>1 DEF Begin, Publish, Busy
    <3>2. CASE Rejected(w)
      BY <3>1, <3>2, <1>r, <1>l DEF Rejected, OnError
    <3>3. CASE ~Rejected(w)
      BY <1>0, <2>1, <3>3 DEF Begin, Publish
    <3> QED
      BY <3>2, <3>3
  <2>2. CASE CreateRun(w)
    <3>1. Busy(w)
      BY <2>2 DEF CreateRun, Busy
    <3>2. CASE Rejected(w)
      BY <3>1, <3>2, <1>r, <1>l DEF Rejected, OnError
    <3>3. CASE ~Rejected(w)
      BY <2>2, <3>3, RunCreated
    <3> QED
      BY <3>2, <3>3
  <2>3. CASE RecordRun(w)
    BY <1>0, <1>f, <1>t, <2>3, CountedTo DEF RecordRun
  <2>4. CASE Report(w) \/ FileBugs(w) \/ HandleError(w)
    BY <1>0, <2>4 DEF Report, FileBugs, HandleError
  <2>5. CASE Complete(w) \/ AttemptFailed(w)
    BY <1>t, <2>5 DEF Complete, AttemptFailed, Settle, Resting
  <2> QED
    BY <1>1, <2>1, <2>2, <2>3, <2>4, <2>5 DEF Work
<1>2. CASE Crash(w)
  <2>1. crashes' = crashes + 1
    BY <1>2 DEF Crash
  <2> QED
    BY <2>1, MoreBroken DEF Broken
<1>3. CASE Restart(w) \/ \E j \in Jobs : Pick(w, j)
  <2>1. \E j : workers' = [workers EXCEPT ![w] = [Resting("begin") EXCEPT !.job = j]]
               \/ workers' = [workers EXCEPT ![w] = Resting("idle")]
    BY <1>3 DEF Restart, Pick
  <2>2. workers'[w].pc \in {"begin", "idle"}
    BY <1>t, <2>1 DEF Resting
  <2> QED
    BY <2>2
<1>4. ASSUME NEW v \in Workers, v # w,
             Work(v) \/ Crash(v) \/ Restart(v) \/ \E j \in Jobs : Pick(v, j)
      PROVE  workers'[w] = workers[w]
  BY <1>4, OthersStay
<1>5. CASE Api \/ (\E c \in Calls : Serve(c))
           \/ (\E j \in Jobs : StallDead(j) \/ StallBlocked(j))
           \/ UNCHANGED vars
  BY <1>5, AllStay
<1> QED
  BY <1>1, <1>2, <1>3, <1>4, <1>5 DEF Next

\* A result that is counted was a success, a failure that was stored, or a fault.
LEMMA Blames ==
  ASSUME IInv, [Next]_vars, NEW w \in Workers, RecordRun(w), Looping(w)'
  PROVE  \/ Broken'
         \/ NoneFailed(w) => NoneFailed(w)'
         \/ \E t \in 1..rows'[ExecOf(w)].total : StillHasRun(ExecOf(w), t, {"FAILED"})
<1> DEFINE d == ExecOf(w)  b == workers[w].begun  i == workers[w].run
<1>1. /\ workers[w].pc = "running" /\ workers[w] \in Proc /\ workers \in [Workers -> Proc]
      /\ CountsOk(w) /\ d \in Execs /\ rows[d].status # "none"
      /\ i \in DOMAIN runs[d] /\ runs[d][i].test = b /\ Total(w) \in 0..MaxTests
  BY AtWork DEF IInv, TypeOK, LoopOk, Looping, Busy, CurrentOk, RecordRun
<1>0. ASSUME NEW pc, Leave(w, pc), pc \notin {"begin", "loop", "running"} PROVE FALSE
  BY <1>0, <1>1, Left DEF Looping
<1>2. ASSUME Throws PROVE Broken'
  BY <1>2, MoreBroken DEF Broken
<1>3. \/ Broken'
      \/ \E ok \in BOOLEAN : Store(w, IF ok THEN "PASSED" ELSE "FAILED") /\ Counted(w, ok, 0)
  BY <1>0, <1>2 DEF RecordRun, Outcomes, RunTest, RunSingleTest
<1>4. CASE Counted(w, TRUE, 0)
  <2>1. /\ workers'[w].pc = "loop" /\ workers'[w].begun = b
        /\ workers'[w].passed = workers[w].passed + 1
        /\ workers'[w].failed = workers[w].failed + 0 + 0
    BY <1>1, <1>4, CountedTo
  <2>2. b \in Nat /\ b > 0 /\ workers[w].failed \in Nat /\ workers[w].passed \in Nat
    BY <1>1 DEF CountsOk, Proc
  <2> QED
    BY <1>1, <2>1, <2>2 DEF NoneFailed, Finished
<1>5. CASE Store(w, "FAILED")
  <2>1. runs'[d][i].status = "FAILED"
    BY <1>1, <1>5, RunsStored
  <2>2. i \in DOMAIN runs'[d] /\ runs'[d][i].test = b
    BY <1>1, StepKept DEF Kept, RunsGrow
  <2>3. b \in 1..rows'[d].total
    <3>1. rows'[d].total = Total(w)
      BY <1>1, StepKept DEF Kept, TotalsKept, Total
    <3> QED
      BY <1>1, <3>1 DEF CountsOk, Proc
  <2> QED
    BY <2>1, <2>2, <2>3 DEF StillHasRun
<1> QED
  BY <1>3, <1>4, <1>5

StillSomeFailed(e) == \E t \in 1..rows'[e].total : StillHasRun(e, t, {"FAILED"})

\* A worker that has not passed all its tests can name the reason.
LEMMA BlamedStep ==
  ASSUME IInv, BlameInv, [Next]_vars, NEW w \in Workers PROVE Blamed(w)'
<1>t. workers \in [Workers -> Proc] /\ workers[w] \in Proc
  BY DEF IInv, TypeOK
<1>k. ASSUME NEW e \in Execs, rows[e].status # "none", SomeFailed(e) PROVE StillSomeFailed(e)
  BY <1>k, SomeFailedKept DEF StillSomeFailed
<1>b. Broken => Broken'
  BY MoreBroken
<1>1. ASSUME Looping(w)', ~Broken' PROVE NoneFailed(w)' \/ SomeFailed(ExecOf(w))'
  <2>1. ASSUME Looping(w), NoneFailed(w) => NoneFailed(w)', workers'[w].job = workers[w].job
        PROVE  NoneFailed(w)' \/ SomeFailed(ExecOf(w))'
    <3>1. /\ ExecOf(w) \in Execs /\ rows[ExecOf(w)].status # "none" /\ ExecOf(w)' = ExecOf(w)
          /\ NoneFailed(w) \/ SomeFailed(ExecOf(w))
      BY <1>1, <1>b, <2>1, AtWork, SameJob DEF Looping, Busy, BlameInv, Blamed
    <3>2. CASE NoneFailed(w)
      BY <2>1, <3>2
    <3>3. CASE SomeFailed(ExecOf(w))
      <4>1. StillSomeFailed(ExecOf(w))
        BY <1>k, <3>1, <3>3
      <4> QED
        BY <3>1, <4>1 DEF StillSomeFailed, StillHasRun, SomeFailed, Tests, HasRun
    <3> QED
      BY <3>1, <3>2, <3>3
  <2>2. CASE workers'[w] = workers[w]
    BY <1>1, <2>1, <2>2 DEF Looping, NoneFailed, Finished
  <2>3. ASSUME NEW j \in Jobs, workers'[w] = [Resting("begin") EXCEPT !.job = j]
        PROVE  NoneFailed(w)'
    <3>1. /\ workers'[w].pc = "begin" /\ workers'[w].begun = 0
          /\ workers'[w].passed = 0 /\ workers'[w].failed = 0
      BY <2>3 DEF Resting
    <3> QED
      BY <3>1 DEF NoneFailed, Finished
  <2>4. CASE workers[w].pc = "begin" /\ Goto(w, "loop")
    BY <1>t, <2>1, <2>4, Gone DEF Looping, NoneFailed, Finished
  <2>5. CASE CreateRun(w) /\ ~Rejected(w)
    <3>1. workers[w].pc = "loop" /\ workers[w].begun \in Nat
      BY <1>t, <2>5 DEF CreateRun, Proc
    <3>2. Finished(w)' = Finished(w)
      <4>1. workers'[w].pc = "running" /\ workers'[w].begun = workers[w].begun + 1
        BY <2>5, RunCreated
      <4> QED
        BY <3>1, <4>1 DEF Finished
    <3> QED
      BY <2>1, <2>5, <3>1, <3>2, RunCreated DEF Looping, NoneFailed
  <2>6. ASSUME RecordRun(w), NEW ok \in BOOLEAN, NEW more \in 0..1, Counted(w, ok, more)
        PROVE  NoneFailed(w)' \/ SomeFailed(ExecOf(w))'
    <3>1. workers'[w].job = workers[w].job /\ Looping(w) /\ Busy(w)
      BY <1>t, <2>6, CountedTo DEF RecordRun, Looping, Busy
    <3>2. CASE NoneFailed(w) => NoneFailed(w)'
      BY <2>1, <3>1, <3>2
    <3>3. CASE \E t \in 1..rows'[ExecOf(w)].total : StillHasRun(ExecOf(w), t, {"FAILED"})
      <4>1. ExecOf(w)' = ExecOf(w)
        BY <3>1, SameJob
      <4> QED
        BY <3>3, <4>1 DEF StillHasRun, SomeFailed, Tests, HasRun
    <3> QED
      BY <1>1, <2>6, <3>2, <3>3, Blames
  <2> QED
    BY <1>1, <2>2, <2>3, <2>4, <2>5, <2>6, LoopMoves
<1>2. ASSUME workers'[w].pc \in {"fail", "down"}, ~Broken'
      PROVE  workers'[w].pc = "fail" /\ ~Exists(ExecOf(w))'
  <2>1. CASE workers'[w] = workers[w]
    <3>1. workers[w].pc = "fail" /\ ~Exists(ExecOf(w))
      BY <1>2, <1>b, <2>1 DEF BlameInv, Blamed
    <3>2. /\ ExecOf(w) \in Execs /\ rows[ExecOf(w)].status = "deleted" /\ ExecOf(w)' = ExecOf(w)
      BY <2>1, <3>1, AtWork, SameJob DEF Busy, Exists
    <3> QED
      BY <2>1, <3>1, <3>2, DeletedStays DEF Exists
  <2>2. CASE workers'[w].pc = "fail" /\ Busy(w) /\ rows[ExecOf(w)].status = "deleted"
    <3>1. workers'[w].job = workers[w].job
      <4>1. ASSUME NEW j \in Jobs, workers'[w] = [Resting("begin") EXCEPT !.job = j]
            PROVE  workers'[w].pc = "begin"
        BY <4>1 DEF Resting
      <4> QED
        BY <2>2, <4>1, WorkerStep
    <3>2. ExecOf(w) \in Execs /\ ExecOf(w)' = ExecOf(w)
      BY <2>2, <3>1, AtWork, SameJob
    <3> QED
      BY <2>2, <3>2, DeletedStays DEF Exists
  <2> QED
    BY <1>2, <2>1, <2>2, FailMoves
<1> QED
  BY <1>1, <1>2 DEF Blamed

\* So the verdict it publishes is explained, and so is the FAILED of its catch and that of
\* the sweep of a restart.
LEMMA ExplainedStep == IInv /\ BlameInv /\ [Next]_vars => FailedIsExplained'
<1> SUFFICES ASSUME IInv, BlameInv, [Next]_vars, NEW e \in Execs, rows'[e].status = "FAILED",
                    ~Broken'
             PROVE  StillSomeFailed(e)
  BY DEF FailedIsExplained, Broken, StillSomeFailed, StillHasRun, Tests, HasRun
<1>1. ~Broken
  BY MoreBroken
<1>k. ASSUME rows[e].status # "none", SomeFailed(e) PROVE StillSomeFailed(e)
  BY <1>k, SomeFailedKept DEF StillSomeFailed
<1>2. CASE rows[e].status = "FAILED"
  BY <1>1, <1>2, <1>k DEF BlameInv, FailedIsExplained, Broken, SomeFailed
<1>3. ASSUME NEW w \in Workers, Publish(w), ~Rejected(w), ExecOf(w) = e PROVE StillSomeFailed(e)
  <2>1. /\ workers[w].pc = "loop" /\ workers[w].begun = Total(w) /\ CountsOk(w)
        /\ workers[w] \in Proc /\ Total(w) \in 0..MaxTests /\ rows[e].status # "none"
    BY <1>3, AtWork DEF Publish, LoopDone, Busy, IInv, LoopOk, Looping
  <2>2. ~AllPassed(w)
    BY <1>3, Published
  <2>3. ~NoneFailed(w)
    BY <2>1, <2>2 DEF AllPassed, NoneFailed, Finished
  <2>4. SomeFailed(e)
    BY <1>1, <1>3, <2>1, <2>3 DEF BlameInv, Blamed, Looping
  <2> QED
    BY <2>1, <2>4, <1>k
<1>4. ASSUME NEW w \in Workers, workers[w].pc = "fail", ExecOf(w) = e, Exists(e) PROVE FALSE
  BY <1>1, <1>4 DEF BlameInv, Blamed
<1>5. ASSUME NEW w \in Workers, workers[w].pc = "down" PROVE FALSE
  BY <1>1, <1>5 DEF BlameInv, Blamed
<1> QED
  BY <1>2, <1>3, <1>4, <1>5, FailedMoves

\* An execution is FAILED because one of its tests was stored as failed, or else some call
\* failed or some process died: no interleaving of starts, cancels, retries and workers
\* fails an execution by itself.
THEOREM FailuresExplained == Spec => []FailedIsExplained
<1>1. Init => BlameInv
  BY DEF Init, BlameInv, FailedIsExplained, NoRow, Blamed, Looping, Resting
<1>2. IInv /\ BlameInv /\ [Next]_vars => BlameInv'
  BY BlamedStep, ExplainedStep DEF BlameInv
<1>3. BlameInv => FailedIsExplained
  BY DEF BlameInv
<1> QED
  BY Inductive, <1>1, <1>2, <1>3, PTL DEF Spec

-----------------------------------------------------------------------------
(* The counts of a row.                                                    *)

\* The counts of a row are written by a verdict only.
LEMMA CountsMove ==
  ASSUME IInv, [Next]_vars, NEW e \in Execs
  PROVE  \/ /\ rows'[e].passed = rows[e].passed /\ rows'[e].failed = rows[e].failed
            /\ rows'[e].total = rows[e].total
         \/ rows'[e].passed = 0 /\ rows'[e].failed = 0
         \/ \E w \in Workers : Publish(w) /\ ~Rejected(w) /\ ExecOf(w) = e
<1> DEFINE same == /\ rows'[e].passed = rows[e].passed /\ rows'[e].failed = rows[e].failed
                   /\ rows'[e].total = rows[e].total
           none == rows'[e].passed = 0 /\ rows'[e].failed = 0
<1>t. rows \in [Execs -> Row] /\ rows[e] \in Row
  BY DEF IInv, TypeOK
<1>0. \A s : /\ [rows[e] EXCEPT !.status = s].passed = rows[e].passed
             /\ [rows[e] EXCEPT !.status = s].failed = rows[e].failed
             /\ [rows[e] EXCEPT !.status = s].total = rows[e].total
  BY <1>t DEF Row
<1>1. ASSUME NEW f, NEW s, SetStatus(f, s) PROVE same
  BY <1>t, <1>0, <1>1 DEF SetStatus
<1>2. ASSUME NEW f, NEW n, NewRow(f, n) PROVE same \/ none
  BY <1>t, <1>2 DEF NewRow, NoRow
<1>3. ASSUME UNCHANGED rows PROVE same
  BY <1>3
<1> HIDE DEF same, none
<1>4. ASSUME Api PROVE same \/ none
  BY <1>1, <1>2, <1>3, <1>4 DEF Api, Create, Delete, Start, StartMark, CancelCheck,
     RunOneTest, Retry
<1>5. ASSUME NEW c \in Calls, Serve(c) PROVE same
  BY <1>1, <1>3, <1>5 DEF Serve, StartCreated, StartMark, Enqueue, CancelWrite
<1>6. ASSUME NEW w \in Workers, Work(w)
      PROVE  same \/ (Publish(w) /\ ~Rejected(w) /\ ExecOf(w) = e)
  <2>1. CASE Publish(w) /\ ~Rejected(w) /\ ExecOf(w) # e
    BY <2>1, Published DEF same
  <2>2. CASE ~(Publish(w) /\ ~Rejected(w))
    BY <1>1, <1>3, <1>6, <2>2 DEF Work, Begin, CreateRun, RecordRun, Publish, Report, FileBugs,
       HandleError, Complete, AttemptFailed, Settle, Rejected
  <2> QED
    BY <2>1, <2>2
<1>7. ASSUME NEW w \in Workers, Restart(w) PROVE same
  <2>1. ASSUME NEW stale, rows' = [f \in Execs |-> IF f \in stale
                                    THEN [rows[f] EXCEPT !.status = "FAILED"] ELSE rows[f]]
        PROVE  same
    <3>1. rows'[e] = [rows[e] EXCEPT !.status = "FAILED"] \/ rows'[e] = rows[e]
      BY <2>1
    <3> QED
      BY <1>0, <3>1 DEF same
  <2> QED
    BY <1>3, <1>7, <2>1 DEF Restart, CleanupStale
<1>8. ASSUME (\E w \in Workers : Crash(w) \/ \E j \in Jobs : Pick(w, j))
           \/ (\E j \in Jobs : StallDead(j) \/ StallBlocked(j)) \/ UNCHANGED vars
      PROVE  same
  BY <1>3, <1>8 DEF Crash, Pick, StallDead, StallBlocked, Stall, vars
<1>9. same \/ none \/ \E w \in Workers : Publish(w) /\ ~Rejected(w) /\ ExecOf(w) = e
  BY <1>4, <1>5, <1>6, <1>7, <1>8 DEF Next
<1> QED
  BY <1>9 DEF same, none

\* A worker counts a test once, and twice only when its result could not be stored.
LEMMA CountedOnce ==
  ASSUME IInv, CountInv, [Next]_vars, NEW w \in TestWorkers, Looping(w)'
  PROVE  workers'[w].passed + workers'[w].failed <= Finished(w)' + faults'
<1> DEFINE p == workers[w].passed  q == workers[w].failed  b == workers[w].begun
<1>t. w \in Workers /\ workers \in [Workers -> Proc] /\ workers[w] \in Proc
  BY DEF IInv, TypeOK, Workers
<1>n. p \in Nat /\ q \in Nat /\ b \in Nat
  BY <1>t DEF Proc
<1>f. faults \in Nat /\ faults' \in Nat /\ faults <= faults'
  BY MoreBroken
<1>k. ASSUME Looping(w) PROVE p + q <= Finished(w) + faults
  BY <1>k DEF CountInv
<1>1. ASSUME Looping(w), workers'[w].passed = p, workers'[w].failed = q,
             Finished(w)' = Finished(w)
      PROVE  workers'[w].passed + workers'[w].failed <= Finished(w)' + faults'
  <2>1. Finished(w) \in Int
    BY <1>n DEF Finished
  <2>2. \A x, y, z, u \in Int : x <= y + z /\ z <= u => x <= y + u
    OBVIOUS
  <2>3. p + q \in Int
    BY <1>n
  <2> QED
    BY <1>1, <1>f, <1>k, <2>1, <2>2, <2>3
<1>2. CASE workers'[w] = workers[w]
  BY <1>1, <1>2 DEF Looping, Finished
<1>3. ASSUME NEW j \in Jobs, workers'[w] = [Resting("begin") EXCEPT !.job = j]
      PROVE  workers'[w].passed + workers'[w].failed <= Finished(w)' + faults'
  <2>1. /\ workers'[w].pc = "begin" /\ workers'[w].begun = 0
        /\ workers'[w].passed = 0 /\ workers'[w].failed = 0
    BY <1>3 DEF Resting
  <2>2. Finished(w)' = 0 /\ workers'[w].passed + workers'[w].failed = 0
    BY <2>1 DEF Finished
  <2>3. \A v \in Nat : 0 <= 0 + v
    OBVIOUS
  <2> QED
    BY <1>f, <2>2, <2>3
<1>4. CASE workers[w].pc = "begin" /\ Goto(w, "loop")
  BY <1>t, <1>1, <1>4, Gone DEF Looping, Finished
<1>5. CASE CreateRun(w) /\ ~Rejected(w)
  <2>1. /\ workers[w].pc = "loop" /\ workers'[w].pc = "running" /\ workers'[w].begun = b + 1
        /\ workers'[w].passed = p /\ workers'[w].failed = q
    BY <1>t, <1>5, RunCreated DEF CreateRun
  <2>2. Finished(w)' = Finished(w)
    BY <1>n, <2>1 DEF Finished
  <2> QED
    BY <1>1, <2>1, <2>2 DEF Looping
<1>6. CASE RecordRun(w)
  <2>1. ASSUME NEW ok \in BOOLEAN, NEW more \in 0..1, Counted(w, ok, more),
               more = 1 => faults' = faults + 1
        PROVE  workers'[w].passed + workers'[w].failed <= Finished(w)' + faults'
    <3>1. /\ workers'[w].pc = "loop" /\ workers'[w].begun = b
          /\ workers'[w].passed = p + (IF ok THEN 1 ELSE 0)
          /\ workers'[w].failed = q + (IF ok THEN 0 ELSE 1) + more
      BY <1>t, <2>1, CountedTo
    <3>2. workers[w].pc = "running" /\ Finished(w) = b - 1 /\ Finished(w)' = b
      BY <1>6, <3>1 DEF RecordRun, Finished
    <3>3. p + q <= b - 1 + faults
      BY <1>k, <3>2 DEF Looping
    <3>4. workers'[w].passed + workers'[w].failed = p + q + 1 + more
      BY <1>n, <3>1
    <3>5. more + faults <= faults'
      BY <1>f, <2>1
    <3> HIDE DEF p, q, b
    <3>6. \A x, y, z, u, v \in Nat, m \in 0..1 :
            x + y <= z - 1 + u /\ m + u <= v => x + y + 1 + m <= z + v
      OBVIOUS
    <3>7. p + q + 1 + more <= b + faults'
      BY <1>n, <1>f, <3>3, <3>5, <3>6
    <3> QED
      BY <3>2, <3>4, <3>7
  <2>2. \E ok \in BOOLEAN, more \in 0..1 :
          Counted(w, ok, more) /\ (more = 1 => faults' = faults + 1)
    <3>1. ASSUME NEW pc, Leave(w, pc), pc \notin {"begin", "loop", "running"} PROVE FALSE
      BY <1>t, <3>1, Left DEF Looping
    <3> QED
      BY <1>6, <3>1 DEF RecordRun, Outcomes, RunTest, RunSingleTest, Throws
  <2> QED
    BY <2>1, <2>2
<1> QED
  BY <1>t, <1>2, <1>3, <1>4, <1>5, <1>6, LoopMoves

\* So the counts of a verdict add up.
LEMMA AddUpStep ==
  ASSUME IInv, CountInv, [Next]_vars, NEW e \in Execs
  PROVE  LET n == rows'[e].passed + rows'[e].failed IN
           n = 0 \/ (rows'[e].total <= n /\ n <= rows'[e].total + faults')
<1>f. faults \in Nat /\ faults' \in Nat /\ faults <= faults'
  BY MoreBroken
<1>1. CASE /\ rows'[e].passed = rows[e].passed /\ rows'[e].failed = rows[e].failed
           /\ rows'[e].total = rows[e].total
  <2>1. rows[e].passed \in Nat /\ rows[e].failed \in Nat /\ rows[e].total \in Nat
    BY ExecutionsAssumption DEF IInv, TypeOK, Row
  <2>2. \/ rows[e].passed + rows[e].failed = 0
        \/ /\ rows[e].total <= rows[e].passed + rows[e].failed
           /\ rows[e].passed + rows[e].failed <= rows[e].total + faults
    BY DEF CountInv, CountsAddUp
  <2> QED
    BY <1>f, <1>1, <2>1, <2>2
<1>2. CASE rows'[e].passed = 0 /\ rows'[e].failed = 0
  BY <1>2
<1>3. ASSUME NEW w \in Workers, Publish(w), ~Rejected(w), ExecOf(w) = e
      PROVE  /\ rows'[e].total <= rows'[e].passed + rows'[e].failed
             /\ rows'[e].passed + rows'[e].failed <= rows'[e].total + faults'
  <2> DEFINE p == workers[w].passed  q == workers[w].failed  n == Total(w)
  <2>1. /\ workers[w].pc = "loop" /\ workers[w].begun = n /\ CountsOk(w)
        /\ workers[w] \in Proc /\ n \in 0..MaxTests
    BY <1>3, AtWork DEF Publish, LoopDone, Busy, IInv, LoopOk, Looping
  <2>2. p \in Nat /\ q \in Nat /\ n \in Nat /\ p <= n /\ n <= p + q /\ Finished(w) = n
    BY <2>1, ExecutionsAssumption DEF CountsOk, Finished, Proc
  <2>3. rows'[e].total = n /\ rows'[e].passed = p /\ rows'[e].failed = FailedCount(w)
    BY <1>3, Published
  <2>4. CASE w \in Processors
    BY <1>f, <2>2, <2>3, <2>4 DEF FailedCount
  <2>5. CASE w \notin Processors
    <3>1. w \in TestWorkers /\ FailedCount(w) = q
      BY <2>5 DEF FailedCount, Workers
    <3>2. p + q <= n + faults
      BY <2>1, <2>2, <3>1 DEF CountInv, Looping
    <3> QED
      BY <1>f, <2>2, <2>3, <3>1, <3>2
  <2> QED
    BY <2>4, <2>5
<1> QED
  BY <1>1, <1>2, <1>3, CountsMove

\* The counts of a row are those of one attempt, never a mixture of two: they add up to the
\* number of tests, and to more only by the results that could not be stored.
THEOREM CountsAgree == Spec => []CountsAddUp
<1>1. Init => CountInv
  BY DEF Init, CountInv, CountsAddUp, NoRow, Looping, Resting, Workers
<1>2. IInv /\ CountInv /\ [Next]_vars => CountInv'
  BY AddUpStep, CountedOnce DEF CountInv, CountsAddUp
<1>3. CountInv => CountsAddUp
  BY DEF CountInv
<1> QED
  BY Inductive, <1>1, <1>2, <1>3, PTL DEF Spec

-----------------------------------------------------------------------------
(* Bugs follow reports.                                                    *)

\* A worker files bugs after its report only.
LEMMA FilingMoves ==
  ASSUME IInv, [Next]_vars, NEW w \in Workers, workers'[w].pc = "bugs"
  PROVE  /\ workers'[w] = workers[w] \/ Report(w)
         /\ Busy(w) /\ workers'[w].job = workers[w].job
<1>t. workers \in [Workers -> Proc]
  BY DEF IInv, TypeOK
<1>0. ASSUME NEW pc, Leave(w, pc) \/ Goto(w, pc), pc # "bugs" PROVE FALSE
  BY <1>t, <1>0, Left, Gone
<1>1. ASSUME Work(w), ~Report(w) PROVE FALSE
  <2>1. ~Rejected(w)
    BY <1>0 DEF Rejected, OnError
  <2>2. CASE Begin(w) \/ Publish(w)
    BY <1>0, <2>1, <2>2 DEF Begin, Publish
  <2>3. CASE CreateRun(w)
    BY <2>1, <2>3, RunCreated
  <2>4. CASE RecordRun(w)
    BY <1>t, <1>0, <2>4, CountedTo DEF RecordRun
  <2>5. CASE FileBugs(w) \/ HandleError(w)
    BY <1>0, <2>5 DEF FileBugs, HandleError
  <2>6. CASE Complete(w) \/ AttemptFailed(w)
    BY <1>t, <2>6 DEF Complete, AttemptFailed, Settle, Resting
  <2> QED
    BY <1>1, <2>2, <2>3, <2>4, <2>5, <2>6 DEF Work
<1>2. ASSUME Crash(w) \/ Restart(w) \/ \E j \in Jobs : Pick(w, j) PROVE FALSE
  <2>1. \E j : workers' = [workers EXCEPT ![w] = [Resting("begin") EXCEPT !.job = j]]
               \/ workers' = [workers EXCEPT ![w] = Resting("down")]
               \/ workers' = [workers EXCEPT ![w] = Resting("idle")]
    BY <1>2 DEF Crash, Restart, Pick
  <2> QED
    BY <1>t, <2>1 DEF Resting
<1>3. ASSUME NEW v \in Workers, v # w,
             Work(v) \/ Crash(v) \/ Restart(v) \/ \E j \in Jobs : Pick(v, j)
      PROVE  workers'[w] = workers[w]
  BY <1>3, OthersStay
<1>4. workers'[w] = workers[w] \/ Report(w)
  BY <1>1, <1>2, <1>3, AllStay DEF Next
<1>5. ASSUME Report(w) PROVE Busy(w) /\ workers'[w].job = workers[w].job
  BY <1>t, <1>5, Left DEF Report, Busy
<1> QED
  BY <1>4, <1>5 DEF Busy

\* Only a report, or one that fails, adds to the processors that file bugs.
LEMMA FilingGrows ==
  ASSUME IInv, [Next]_vars, NEW e \in Execs
  PROVE  \/ Filing(e)' \subseteq Filing(e)
         \/ \E w \in Workers : /\ Report(w) /\ ExecOf(w) = e /\ w \notin Filing(e)
                               /\ Filing(e)' \subseteq Filing(e) \cup {w}
<1>1. ASSUME NEW v \in Workers, workers'[v].pc = "bugs", ExecOf(v)' = e, ~Report(v)
      PROVE  v \in Filing(e)
  BY <1>1, FilingMoves, SameJob DEF Filing
<1>2. ASSUME NEW v \in Workers, workers'[v].pc = "bugs", ExecOf(v)' = e PROVE ExecOf(v) = e
  BY <1>2, FilingMoves, SameJob
<1>3. Filing(e)' = {v \in Workers : workers'[v].pc = "bugs" /\ ExecOf(v)' = e}
  BY DEF Filing
<1>4. CASE \E w \in Workers : Report(w) /\ w \in Filing(e)'
  <2>1. PICK w \in Workers : Report(w) /\ w \in Filing(e)'
    BY <1>4
  <2>2. ASSUME NEW v \in Filing(e)', v # w PROVE v \in Filing(e)
    <3>1. v \in Workers /\ workers'[v] = workers[v] /\ workers'[v].pc = "bugs" /\ ExecOf(v)' = e
      BY <1>3, <2>1, <2>2, OthersStay DEF Work
    <3>2. workers[v].pc # "report"
      BY <3>1
    <3> QED
      BY <1>1, <3>1, <3>2 DEF Report
  <2>3. w \notin Filing(e)
    BY <2>1 DEF Report, Filing
  <2> QED
    BY <1>2, <1>3, <2>1, <2>2, <2>3
<1>5. CASE ~\E w \in Workers : Report(w) /\ w \in Filing(e)'
  BY <1>1, <1>3, <1>5
<1> QED
  BY <1>4, <1>5

\* Reports are added one at a time, each by a processor that may go on to file bugs.
LEMMA ReportsGrow ==
  ASSUME IInv, [Next]_vars, NEW e \in Execs
  PROVE  /\ reports[e] \in Nat /\ reports'[e] \in Nat /\ reports[e] <= reports'[e]
         /\ \A w \in Workers : Report(w) /\ ExecOf(w) = e
              => reports'[e] = reports[e] + 1 \/ faults' = faults + 1
<1>t. reports \in [Execs -> Nat] /\ reports' \in [Execs -> Nat]
  BY StepTyped DEF IInv, TypeOK
<1>1. ASSUME NEW w \in Workers, Report(w)
      PROVE  /\ reports'[e] = reports[e] \/ reports'[e] = reports[e] + 1
             /\ ExecOf(w) = e => reports'[e] = reports[e] + 1 \/ faults' = faults + 1
  BY <1>1, <1>t DEF Report, Throws
<1>2. UNCHANGED reports \/ \E w \in Workers : Report(w)
  BY AllStay DEF Next, Pick, Work, Begin, CreateRun, RecordRun, Publish, FileBugs, HandleError,
     Complete, AttemptFailed, Settle, Crash, Restart
<1> QED
  BY <1>t, <1>1, <1>2

\* A run is created without bugs, and gets one more of those who file them.
LEMMA BugsMove ==
  ASSUME IInv, [Next]_vars, NEW e \in Execs, NEW k \in DOMAIN runs'[e]
  PROVE  \/ k \in DOMAIN runs[e] /\ runs'[e][k].bugs = runs[e][k].bugs
         \/ k \notin DOMAIN runs[e] /\ runs'[e][k].bugs = 0
         \/ /\ k \in DOMAIN runs[e] /\ runs'[e][k].bugs = runs[e][k].bugs + 1
            /\ runs[e][k].status = "FAILED"
            /\ \E w \in Workers : FileBugs(w) /\ ExecOf(w) = e
<1>t. runs \in [Execs -> Seq(Run)] /\ runs[e] \in Seq(Run)
  BY DEF IInv, TypeOK
<1>1. CASE runs'[e] = runs[e]
  BY <1>1
<1>2. ASSUME NEW w \in Workers, CreateRun(w), runs'[e] # runs[e]
      PROVE  \/ k \in DOMAIN runs[e] /\ runs'[e][k].bugs = runs[e][k].bugs
             \/ k \notin DOMAIN runs[e] /\ runs'[e][k].bugs = 0
  <2>1. ~Rejected(w)
    BY <1>2 DEF Rejected
  <2>2. ExecOf(w) = e
    BY <1>t, <1>2, <2>1, RunCreated
  <2> DEFINE r == [test |-> workers[w].begun + 1, status |-> "RUNNING", bugs |-> 0]
  <2>3. r \in Run
    <3>1. workers[w].begun \in Nat /\ Total(w) \in 0..MaxTests /\ workers[w].begun < Total(w)
      BY <1>2, AtWork DEF CreateRun, Busy, Proc
    <3>2. workers[w].begun + 1 \in 1..MaxTests
      BY <3>1, ExecutionsAssumption
    <3> QED
      BY <3>2 DEF Run
  <2>4. runs'[e] = Append(runs[e], r) /\ r.bugs = 0
    BY <1>t, <1>2, <2>1, <2>2, RunCreated
  <2> HIDE DEF r
  <2>5. /\ DOMAIN runs[e] = 1..Len(runs[e]) /\ DOMAIN runs'[e] = 1..Len(runs[e]) + 1
        /\ Len(runs[e]) \in Nat /\ runs'[e][Len(runs[e]) + 1] = r
        /\ \A i \in DOMAIN runs[e] : runs'[e][i] = runs[e][i]
    BY <1>t, <2>3, <2>4, RunAppended
  <2>6. k \in DOMAIN runs[e] \/ k = Len(runs[e]) + 1
    BY <2>5
  <2> QED
    BY <2>4, <2>5, <2>6
<1>3. ASSUME NEW w \in Workers, NEW s \in {"PASSED", "FAILED"}, Store(w, s),
             workers[w].pc = "running"
      PROVE  k \in DOMAIN runs[e] /\ runs'[e][k].bugs = runs[e][k].bugs
  <2> DEFINE d == ExecOf(w)  i == workers[w].run
  <2>1. runs' = [runs EXCEPT ![d] = [runs[d] EXCEPT ![i].status = s]]
    BY <1>3 DEF Store
  <2> HIDE DEF d, i
  <2>2. CASE d # e
    BY <1>t, <2>1, <2>2
  <2>3. CASE d = e
    <3>1. runs'[e] = [runs[e] EXCEPT ![i].status = s]
      BY <1>t, <2>1, <2>3
    <3>2. /\ DOMAIN runs'[e] = DOMAIN runs[e]
          /\ runs'[e][k] = IF k = i THEN [runs[e][k] EXCEPT !.status = s] ELSE runs[e][k]
      BY <1>t, <3>1, RunStored
    <3>3. runs[e][k] \in Run
      BY <1>t, <3>2
    <3>4. [runs[e][k] EXCEPT !.status = s].bugs = runs[e][k].bugs
      BY <3>3 DEF Run
    <3> QED
      BY <3>2, <3>4
  <2> QED
    BY <2>2, <2>3
<1>4. ASSUME NEW w \in Workers, FileBugs(w), runs'[e] # runs[e]
      PROVE  \/ k \in DOMAIN runs[e] /\ runs'[e][k].bugs = runs[e][k].bugs
             \/ /\ k \in DOMAIN runs[e] /\ runs'[e][k].bugs = runs[e][k].bugs + 1
                /\ runs[e][k].status = "FAILED" /\ ExecOf(w) = e
  <2>1. PICK F \in SUBSET (IF Exists(ExecOf(w)) THEN Failures(ExecOf(w)) ELSE {}) :
          runs' = [runs EXCEPT ![ExecOf(w)] = WithBugs(runs[ExecOf(w)], F)]
    BY <1>4 DEF FileBugs
  <2>2. ExecOf(w) = e
    BY <1>t, <1>4, <2>1
  <2>3. runs'[e] = WithBugs(runs[e], F) /\ F \subseteq Failures(e)
    BY <1>t, <2>1, <2>2
  <2>4. k \in DOMAIN runs[e] /\ runs[e][k] \in Run
    BY <1>t, <2>3, BugsKept
  <2>5. runs'[e][k] = IF k \in F THEN [runs[e][k] EXCEPT !.bugs = @ + 1] ELSE runs[e][k]
    BY <2>3, <2>4 DEF WithBugs
  <2>6. [runs[e][k] EXCEPT !.bugs = @ + 1].bugs = runs[e][k].bugs + 1
    BY <2>4 DEF Run
  <2> QED
    BY <2>2, <2>3, <2>4, <2>5, <2>6 DEF Failures
<1>5. ASSUME NEW w \in Workers, RecordRun(w)
      PROVE  \/ UNCHANGED runs
             \/ workers[w].pc = "running" /\ \E s \in {"PASSED", "FAILED"} : Store(w, s)
  BY <1>5 DEF RecordRun
<1>6. ASSUME NEW w \in Workers, Work(w) \/ Crash(w) \/ Restart(w) \/ \E j \in Jobs : Pick(w, j),
             ~(CreateRun(w) \/ RecordRun(w) \/ FileBugs(w))
      PROVE  UNCHANGED runs
  BY <1>6 DEF Work, Begin, Publish, Report, HandleError, Complete, AttemptFailed, Settle,
     Rejected,
     Crash, Restart, Pick
<1> QED
  BY <1>1, <1>2, <1>3, <1>4, <1>5, <1>6, AllStay DEF Next

\* Each test run has no more bugs than reports that were followed by filing.
LEMMA BugStep ==
  ASSUME IInv, BugInv, [Next]_vars, NEW e \in Execs
  PROVE  /\ IsFiniteSet(Filing(e)') /\ Cardinality(Filing(e)') <= reports'[e] + faults'
         /\ \A k \in DOMAIN runs'[e] :
              /\ runs'[e][k].bugs > 0 => runs'[e][k].status = "FAILED"
              /\ runs'[e][k].bugs + Cardinality(Filing(e)') <= reports'[e] + faults'
<1> DEFINE S == Filing(e)  T == Filing(e)'  b == reports[e] + faults  c == reports'[e] + faults'
<1>1. /\ reports[e] \in Nat /\ reports'[e] \in Nat /\ reports[e] <= reports'[e]
      /\ faults \in Nat /\ faults' \in Nat /\ faults <= faults'
  BY ReportsGrow, MoreBroken
<1>2. b \in Nat /\ c \in Nat /\ b <= c
  BY <1>1
<1>3. ASSUME NEW w \in Workers, Report(w), ExecOf(w) = e PROVE b + 1 <= c
  <2>1. reports'[e] = reports[e] + 1 \/ faults' = faults + 1
    BY <1>3, ReportsGrow
  <2> QED
    BY <1>1, <2>1
<1>4. IsFiniteSet(S) /\ Cardinality(S) <= b
  BY DEF BugInv
<1>5. /\ IsFiniteSet(T) /\ Cardinality(S) \in Nat /\ Cardinality(T) \in Nat
      /\ \/ Cardinality(T) <= Cardinality(S)
         \/ Cardinality(T) <= Cardinality(S) + 1 /\ b + 1 <= c
  <2> HIDE DEF S, T, b, c
  <2>1. Cardinality(S) \in Nat
    BY <1>4, FS_CardinalityType
  <2>2. CASE T \subseteq S
    <3>1. IsFiniteSet(T) /\ Cardinality(T) <= Cardinality(S)
      BY <1>4, <2>2, FS_Subset
    <3> QED
      BY <2>1, <3>1, FS_CardinalityType
  <2>3. ASSUME NEW w \in Workers, Report(w), ExecOf(w) = e, w \notin S, T \subseteq S \cup {w}
        PROVE  IsFiniteSet(T) /\ Cardinality(T) <= Cardinality(S) + 1
    <3>1. IsFiniteSet(S \cup {w}) /\ Cardinality(S \cup {w}) = Cardinality(S) + 1
      BY <1>4, <2>3, FS_AddElement
    <3> QED
      BY <2>3, <3>1, FS_Subset
  <2>4. CASE \E w \in Workers : /\ Report(w) /\ ExecOf(w) = e /\ w \notin S
                                 /\ T \subseteq S \cup {w}
    <3>1. IsFiniteSet(T) /\ Cardinality(T) <= Cardinality(S) + 1 /\ b + 1 <= c
      BY <1>3, <2>3, <2>4
    <3> QED
      BY <2>1, <3>1, FS_CardinalityType
  <2>5. \/ T \subseteq S
        \/ \E w \in Workers : /\ Report(w) /\ ExecOf(w) = e /\ w \notin S
                               /\ T \subseteq S \cup {w}
    BY FilingGrows DEF S, T
  <2> QED
    BY <2>2, <2>4, <2>5
<1>6. Cardinality(T) <= c
  <2> HIDE DEF S, T, b, c
  <2> QED
    BY <1>2, <1>4, <1>5
<1>7. ASSUME NEW k \in DOMAIN runs'[e]
      PROVE  /\ runs'[e][k].bugs > 0 => runs'[e][k].status = "FAILED"
             /\ runs'[e][k].bugs + Cardinality(T) <= c
  <2>t. runs[e] \in Seq(Run)
    BY DEF IInv, TypeOK
  <2>k. ASSUME k \in DOMAIN runs[e]
        PROVE  /\ runs[e][k].bugs \in Nat /\ runs[e][k].bugs + Cardinality(S) <= b
               /\ runs[e][k].bugs > 0 => runs[e][k].status = "FAILED"
    <3>1. runs[e][k] \in Run
      BY <2>t, <2>k
    <3> QED
      BY <2>k, <3>1 DEF Run, BugInv
  <2>s. ASSUME k \in DOMAIN runs[e], runs[e][k].status = "FAILED"
        PROVE  runs'[e][k].status = "FAILED"
    BY <2>s, StepKept DEF Kept, RunsGrow
  <2>1. CASE k \in DOMAIN runs[e] /\ runs'[e][k].bugs = runs[e][k].bugs
    <3> HIDE DEF S, T, b, c
    <3>1. runs[e][k].bugs + Cardinality(T) <= c
      BY <1>2, <1>5, <2>1, <2>k
    <3> QED
      BY <2>1, <2>k, <2>s, <3>1
  <2>2. CASE k \notin DOMAIN runs[e] /\ runs'[e][k].bugs = 0
    <3> HIDE DEF S, T, b, c
    <3>1. 0 + Cardinality(T) <= c
      BY <1>2, <1>5, <1>6
    <3> QED
      BY <2>2, <3>1
  <2>3. ASSUME NEW w \in Workers, FileBugs(w), ExecOf(w) = e, k \in DOMAIN runs[e],
               runs'[e][k].bugs = runs[e][k].bugs + 1, runs[e][k].status = "FAILED"
        PROVE  /\ runs'[e][k].status = "FAILED"
               /\ runs'[e][k].bugs + Cardinality(T) <= c
    <3>1. w \in S
      BY <2>3 DEF Filing, FileBugs
    <3>2. w \notin T
      <4>1. workers \in [Workers -> Proc]
        BY DEF IInv, TypeOK
      <4>2. workers'[w].pc = "done"
        BY <2>3, <4>1, Left DEF FileBugs
      <4> QED
        BY <4>2 DEF Filing
    <3>3. T \subseteq S
      <4>1. ASSUME NEW v \in Workers, Report(v) PROVE FALSE
        <5>1. v # w /\ UNCHANGED reports /\ UNCHANGED runs
          BY <2>3, <4>1 DEF FileBugs, Report
        <5> QED
          BY <2>3, <2>k, <5>1
      <4> QED
        BY <4>1, FilingGrows
    <3> HIDE DEF S, T, b, c
    <3>4. Cardinality(S \ {w}) = Cardinality(S) - 1 /\ IsFiniteSet(S \ {w})
      BY <1>4, <3>1, FS_RemoveElement
    <3>5. Cardinality(T) <= Cardinality(S \ {w})
      BY <3>2, <3>3, <3>4, FS_Subset
    <3>6. Cardinality(T) <= Cardinality(S) - 1
      BY <3>4, <3>5
    <3>7. runs[e][k].bugs + 1 + Cardinality(T) <= c
      BY <1>2, <1>5, <2>3, <2>k, <3>6
    <3> QED
      BY <2>3, <2>s, <3>7
  <2> QED
    BY <2>1, <2>2, <2>3, BugsMove
<1> QED
  BY <1>5, <1>6, <1>7

\* A bug is filed for a failed run only, and the same run has never more bugs than the
\* execution has reports, written or attempted.
THEOREM BugsFollow == Spec => []BugsFollowReports
<1>1. Init => BugInv
  <2> SUFFICES ASSUME Init, NEW e \in Execs
               PROVE  /\ IsFiniteSet(Filing(e)) /\ Cardinality(Filing(e)) <= reports[e] + faults
                      /\ DOMAIN runs[e] = {}
    BY DEF BugInv
  <2>1. Filing(e) = {} /\ reports[e] + faults = 0 /\ DOMAIN runs[e] = {}
    BY DEF Init, Filing, Resting
  <2> QED
    BY <2>1, FS_EmptySet
<1>2. IInv /\ BugInv /\ [Next]_vars => BugInv'
  BY BugStep DEF BugInv
<1>3. IInv /\ BugInv => BugsFollowReports
  <2> SUFFICES ASSUME IInv, BugInv, NEW e \in Execs, NEW k \in DOMAIN runs[e]
               PROVE  /\ runs[e][k].bugs > 0 => runs[e][k].status = "FAILED"
                      /\ runs[e][k].bugs <= reports[e] + faults
    BY DEF BugsFollowReports
  <2>1. runs[e] \in Seq(Run) /\ reports[e] \in Nat /\ faults \in Nat
    BY DEF IInv, TypeOK
  <2>2. runs[e][k].bugs \in Nat
    <3>1. runs[e][k] \in Run
      BY <2>1
    <3> QED
      BY <3>1 DEF Run
  <2>3. Cardinality(Filing(e)) \in Nat
    BY FS_CardinalityType DEF BugInv
  <2>4. /\ runs[e][k].bugs > 0 => runs[e][k].status = "FAILED"
        /\ runs[e][k].bugs + Cardinality(Filing(e)) <= reports[e] + faults
    BY DEF BugInv
  <2> QED
    BY <2>1, <2>2, <2>3, <2>4
<1> QED
  BY Inductive, <1>1, <1>2, <1>3, PTL DEF Spec

-----------------------------------------------------------------------------
(* Test runs that are left RUNNING.                                        *)

\* Some worker is at the k-th test run of e.
Held(e, k) ==
  \E w \in Workers : workers[w].pc = "running" /\ ExecOf(w) = e /\ workers[w].run = k

\* A run is abandoned when it is RUNNING and no worker is at it.
LEMMA AbandonedIs ==
  Abandoned = {r \in UNION {{e} \X DOMAIN runs[e] : e \in Execs} :
                 runs[r[1]][r[2]].status = "RUNNING" /\ ~Held(r[1], r[2])}
BY DEF Abandoned, Held

\* A step moves one worker at most.
LEMMA OneMoves ==
  ASSUME IInv, [Next]_vars, NEW v \in Workers, NEW w \in Workers,
         workers'[v] # workers[v], workers'[w] # workers[w]
  PROVE  v = w
<1>1. \E u \in Workers : Work(u) \/ Crash(u) \/ Restart(u) \/ \E j \in Jobs : Pick(u, j)
  BY AllStay DEF Next
<1> QED
  BY <1>1, OthersStay

\* A test run begins in the hands of the worker that creates it.
LEMMA BornHeld ==
  ASSUME IInv, [Next]_vars, NEW e \in Execs, NEW k \in DOMAIN runs'[e], k \notin DOMAIN runs[e]
  PROVE  \E w \in Workers : workers'[w].pc = "running" /\ ExecOf(w)' = e /\ workers'[w].run = k
<1>t. runs \in [Execs -> Seq(Run)] /\ workers \in [Workers -> Proc]
  BY DEF IInv, TypeOK
<1>1. ASSUME NEW w \in Workers, CreateRun(w), ~Rejected(w)
      PROVE  workers'[w].pc = "running" /\ ExecOf(w)' = e /\ workers'[w].run = k
  <2> DEFINE r == [test |-> workers[w].begun + 1, status |-> "RUNNING", bugs |-> 0]
  <2>1. /\ runs' = [runs EXCEPT ![ExecOf(w)] = Append(runs[ExecOf(w)], r)]
        /\ workers'[w].pc = "running" /\ workers'[w].job = workers[w].job
        /\ workers'[w].run = Len(runs[ExecOf(w)]) + 1
    BY <1>1, RunCreated
  <2>2. Busy(w) /\ ExecOf(w)' = ExecOf(w) /\ ExecOf(w) \in Execs
    BY <1>1, <2>1, SameJob, AtWork DEF CreateRun, Busy
  <2>3. ExecOf(w) = e
    BY <1>t, <2>1, <2>2
  <2>4. r \in Run
    <3>1. workers[w].begun \in Nat /\ Total(w) \in 0..MaxTests /\ workers[w].begun < Total(w)
      BY <1>1, AtWork DEF CreateRun, Busy, Proc
    <3>2. workers[w].begun + 1 \in 1..MaxTests
      BY <3>1, ExecutionsAssumption
    <3> QED
      BY <3>2 DEF Run
  <2> HIDE DEF r
  <2>5. runs'[e] = Append(runs[e], r) /\ runs[e] \in Seq(Run)
    BY <1>t, <2>1, <2>3
  <2>6. DOMAIN runs[e] = 1..Len(runs[e]) /\ DOMAIN runs'[e] = 1..Len(runs[e]) + 1
        /\ Len(runs[e]) \in Nat
    BY <2>4, <2>5, RunAppended
  <2>7. k = Len(runs[e]) + 1
    BY <2>6
  <2> QED
    BY <2>1, <2>2, <2>3, <2>7
<1>2. ASSUME NEW w \in Workers, FileBugs(w) PROVE DOMAIN runs'[e] = DOMAIN runs[e]
  <2>1. PICK F : runs' = [runs EXCEPT ![ExecOf(w)] = WithBugs(runs[ExecOf(w)], F)]
    BY <1>2 DEF FileBugs
  <2> QED
    BY <1>t, <2>1, BugsKept
<1>3. ASSUME NEW w \in Workers, RecordRun(w) PROVE DOMAIN runs'[e] = DOMAIN runs[e]
  <2>1. UNCHANGED runs \/ \E s \in {"PASSED", "FAILED"} : Store(w, s)
    BY <1>3 DEF RecordRun
  <2>2. ASSUME NEW s \in {"PASSED", "FAILED"}, Store(w, s)
        PROVE  DOMAIN runs'[e] = DOMAIN runs[e]
    <3>1. runs' = [runs EXCEPT ![ExecOf(w)] =
                     [runs[ExecOf(w)] EXCEPT ![workers[w].run].status = s]]
      BY <2>2 DEF Store
    <3>2. ASSUME NEW q \in Seq(Run)
          PROVE  DOMAIN [q EXCEPT ![workers[w].run].status = s] = DOMAIN q
      BY RunStored
    <3> QED
      BY <1>t, <3>1, <3>2
  <2> QED
    BY <2>1, <2>2
<1>4. \/ UNCHANGED runs
      \/ \E w \in Workers : (CreateRun(w) /\ ~Rejected(w)) \/ FileBugs(w) \/ RecordRun(w)
  BY AllStay DEF Next, Work, Begin, CreateRun, Publish, Report, HandleError, Complete,
     AttemptFailed, Settle, Crash, Restart, Pick, Rejected
<1> QED
  BY <1>1, <1>2, <1>3, <1>4

\* A worker lets go of a test run without a result only when something breaks.
LEMMA LetGo ==
  ASSUME IInv, [Next]_vars, NEW w \in Workers, workers[w].pc = "running",
         workers'[w].pc # "running", runs'[ExecOf(w)][workers[w].run].status = "RUNNING"
  PROVE  faults < faults' \/ crashes < crashes'
<1>1. RecordRun(w) \/ Crash(w)
  <2>1. Work(w) \/ Crash(w) \/ Restart(w) \/ \E j \in Jobs : Pick(w, j)
    BY OthersStay, AllStay DEF Next
  <2> QED
    BY <2>1 DEF Work, Begin, CreateRun, Publish, Report, FileBugs, HandleError, Complete,
       AttemptFailed, Restart, Pick
<1>2. CASE Crash(w)
  <2>1. crashes' = crashes + 1
    BY <1>2 DEF Crash
  <2> QED
    BY <2>1, MoreBroken
<1>3. CASE RecordRun(w)
  <2>1. ASSUME NEW s \in {"PASSED", "FAILED"}, Store(w, s) PROVE FALSE
    <3>1. ExecOf(w) \in Execs /\ workers[w].run \in DOMAIN runs[ExecOf(w)]
      BY AtWork DEF Busy, IInv, CurrentOk
    <3>2. runs'[ExecOf(w)][workers[w].run].status = s
      BY <2>1, RunsStored
    <3> QED
      BY <3>2
  <2>2. Throws \/ faults' = faults + 2
    BY <1>3, <2>1 DEF RecordRun
  <2> QED
    BY <2>2, MoreBroken
<1> QED
  BY <1>1, <1>2, <1>3

\* What is abandoned in a step is the test run of a worker that moved, for a reason.
LEMMA AbandonMoves ==
  ASSUME IInv, [Next]_vars, NEW r \in Abandoned', r \notin Abandoned
  PROVE  /\ faults < faults' \/ crashes < crashes'
         /\ \E w \in Workers : workers'[w] # workers[w] /\ r = <<ExecOf(w), workers[w].run>>
<1>0. PICK e \in Execs : \E k \in DOMAIN runs'[e] :
        /\ r = <<e, k>> /\ runs'[e][k].status = "RUNNING"
        /\ \A w \in Workers :
             ~(workers'[w].pc = "running" /\ ExecOf(w)' = e /\ workers'[w].run = k)
  BY DEF Abandoned
<1>1. PICK k \in DOMAIN runs'[e] :
        /\ r = <<e, k>> /\ runs'[e][k].status = "RUNNING"
        /\ \A w \in Workers :
             ~(workers'[w].pc = "running" /\ ExecOf(w)' = e /\ workers'[w].run = k)
  BY <1>0
<1>2. k \in DOMAIN runs[e]
  BY <1>1, BornHeld
<1>3. runs[e][k].status = "RUNNING"
  BY <1>1, <1>2, StepKept DEF Kept, RunsGrow
<1>4. Held(e, k)
  <2>1. r \in UNION {{f} \X DOMAIN runs[f] : f \in Execs}
    BY <1>1, <1>2
  <2>2. r[1] = e /\ r[2] = k
    BY <1>1
  <2> QED
    BY <1>3, <2>1, <2>2, AbandonedIs
<1>5. PICK w \in Workers : workers[w].pc = "running" /\ ExecOf(w) = e /\ workers[w].run = k
  BY <1>4 DEF Held
<1>6. workers'[w].pc # "running"
  <2> SUFFICES ASSUME workers'[w].pc = "running" PROVE FALSE
    OBVIOUS
  <2>1. workers'[w] = workers[w]
    BY <1>5, RunningMoves DEF CreateRun
  <2>2. ExecOf(w)' = e
    BY <1>5, <2>1, SameJob DEF Busy
  <2> QED
    BY <1>1, <1>5, <2>1, <2>2
<1>7. faults < faults' \/ crashes < crashes'
  BY <1>1, <1>5, <1>6, LetGo
<1> QED
  BY <1>1, <1>5, <1>6, <1>7

\* So a step abandons one run at most, and counts an error or a dead process for it.
LEMMA AbandonStep == IInv /\ AbandonInv /\ [Next]_vars => AbandonInv'
<1> SUFFICES ASSUME IInv, AbandonInv, [Next]_vars PROVE AbandonInv'
  OBVIOUS
<1>1. IsFiniteSet(Abandoned) /\ Cardinality(Abandoned) <= faults + crashes
  BY DEF AbandonInv, NoRunAbandoned
<1>2. /\ faults \in Nat /\ crashes \in Nat /\ faults' \in Nat /\ crashes' \in Nat
      /\ faults <= faults' /\ crashes <= crashes'
  BY MoreBroken
<1>c. Cardinality(Abandoned) \in Nat
  BY <1>1, FS_CardinalityType
<1> SUFFICES IsFiniteSet(Abandoned') /\ Cardinality(Abandoned') <= faults' + crashes'
  BY DEF AbandonInv, NoRunAbandoned
<1> DEFINE A == Abandoned  B == Abandoned'
<1>3. CASE B \subseteq A
  <2>1. IsFiniteSet(B) /\ Cardinality(B) <= Cardinality(A)
    BY <1>1, <1>3, FS_Subset
  <2>2. Cardinality(B) \in Nat
    BY <2>1, FS_CardinalityType
  <2> HIDE DEF A, B
  <2>3. \A a, b, c, d, m, n \in Nat : a <= c /\ b <= d /\ n <= a + b /\ m <= n => m <= c + d
    OBVIOUS
  <2> QED
    BY <1>1, <1>2, <1>c, <2>1, <2>2, <2>3 DEF A, B
<1>4. CASE ~(B \subseteq A)
  <2>1. PICK r \in B : r \notin A
    BY <1>4
  <2>2. faults < faults' \/ crashes < crashes'
    BY <2>1, AbandonMoves
  <2>3. PICK w \in Workers : workers'[w] # workers[w] /\ r = <<ExecOf(w), workers[w].run>>
    BY <2>1, AbandonMoves
  <2>4. ASSUME NEW q \in B, q \notin A PROVE q = r
    <3>1. PICK v \in Workers : workers'[v] # workers[v] /\ q = <<ExecOf(v), workers[v].run>>
      BY <2>4, AbandonMoves
    <3>2. v = w
      BY <2>3, <3>1, OneMoves
    <3> QED
      BY <2>3, <3>1, <3>2
  <2>5. B \subseteq A \cup {r}
    BY <2>4
  <2>6. IsFiniteSet(A \cup {r}) /\ Cardinality(A \cup {r}) = Cardinality(A) + 1
    BY <1>1, <2>1, FS_AddElement
  <2>7. IsFiniteSet(B) /\ Cardinality(B) <= Cardinality(A \cup {r})
    BY <2>5, <2>6, FS_Subset
  <2>8. Cardinality(B) \in Nat
    BY <2>7, FS_CardinalityType
  <2>9. \A a, b, c, d, m, n \in Nat :
          a <= c /\ b <= d /\ (a < c \/ b < d) /\ n <= a + b /\ m <= n + 1 => m <= c + d
    OBVIOUS
  <2> HIDE DEF A, B
  <2> QED
    BY <1>1, <1>2, <1>c, <2>2, <2>6, <2>7, <2>8, <2>9 DEF A, B
<1> QED
  BY <1>3, <1>4

\* There are never more test runs left RUNNING, with nobody at them, than errors and dead
\* processes: no order of steps loses sight of a run otherwise.
THEOREM AbandonedByFailures == Spec => []NoRunAbandoned
<1>1. Init => AbandonInv
  <2> SUFFICES ASSUME Init
               PROVE  IsFiniteSet(Abandoned) /\ Cardinality(Abandoned) <= faults + crashes
    BY DEF AbandonInv, NoRunAbandoned
  <2>1. Abandoned = {} /\ faults + crashes = 0
    BY DEF Init, Abandoned
  <2> QED
    BY <2>1, FS_EmptySet
<1>2. AbandonInv => NoRunAbandoned
  BY DEF AbandonInv
<1> QED
  BY Inductive, AbandonStep, <1>1, <1>2, PTL DEF Spec
=============================================================================
