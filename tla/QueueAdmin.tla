----------------------------- MODULE QueueAdmin -----------------------------
(***************************************************************************)
(* One of the queues of QueueModule and what its administrators do to it:  *)
(* QueueController with QueueService and QueueHealthService.  BullMQ keeps *)
(* a job through its tries, pauses and stalls; each call of an             *)
(* administrator reads jobs and acts on them an await later, while workers *)
(* and other administrators go on.                                         *)
(***************************************************************************)
EXTENDS Naturals, FiniteSets

CONSTANTS
  QueueJobs,      \* jobs, by their fixed ids
  AdminCalls,     \* calls of the administrators
  QueueAttempts,  \* attempts of the queues (2 for reports, 3 for executions, ...)
  MaxQueueFaults  \* bound: stalls

ASSUME QueueAssumption == QueueAttempts \subseteq Nat \ {0} /\ MaxQueueFaults \in Nat

VARIABLES
  queueAttempts,  \* of the queue this is
  queuePaused,
  queueJobs,      \* each job: its state, and its attemptsMade
  queueCalls,     \* each call and the jobs it has still to act on
  queueAsked,     \* retries of each job that an administrator asked for
  queueFaults

queueVars == <<queueAttempts, queuePaused, queueJobs, queueCalls, queueAsked, queueFaults>>

-----------------------------------------------------------------------------
\* made: attemptsMade (TriesBounded is its bound); stalls: times its worker was lost;
\* again: retries by retryAllFailed.
QueueJob ==
  [state : {"none", "waiting", "active", "delayed", "failed", "completed", "removed"},
   made : Nat, stalls : 0..MaxQueueFaults, again : Nat]
NoQueueJob == [state |-> "none", made |-> 0, stalls |-> 0, again |-> 0]

\* left: the jobs of the list that are still to be retried.
AdminCall ==
  [kind : {"none", "retry", "retryAll", "remove", "queue"}, pc : {"new", "found", "done", "error"},
   left : SUBSET QueueJobs]

QueueInit ==
  /\ queueAttempts \in QueueAttempts
  /\ queuePaused = FALSE
  /\ queueJobs = [j \in QueueJobs |-> NoQueueJob]
  /\ queueCalls = [c \in AdminCalls |-> [kind |-> "none", pc |-> "new", left |-> {}]]
  /\ queueAsked = [j \in QueueJobs |-> 0]
  /\ queueFaults = 0

JobGoes(j, state) == queueJobs' = [queueJobs EXCEPT ![j].state = state]
CallEnds(c, pc) == queueCalls' = [queueCalls EXCEPT ![c].pc = pc, ![c].left = {}]

-----------------------------------------------------------------------------
(* BullMQ.                                                                 *)

\* add: a job whose id the queue has, ended or not, is not added again.
AddJob(j) ==
  /\ queueJobs[j].state = "none"
  /\ JobGoes(j, "waiting")
  /\ UNCHANGED <<queueAttempts, queuePaused, queueCalls, queueAsked, queueFaults>>

Moves(j, from, to) ==
  /\ queueJobs[j].state = from
  /\ JobGoes(j, to)
  /\ UNCHANGED <<queueAttempts, queuePaused, queueCalls, queueAsked, queueFaults>>

TakeJob(j) == ~queuePaused /\ Moves(j, "waiting", "active")
Due(j) == Moves(j, "delayed", "waiting")

\* The processor returns, or throws.
JobEnds(j, ok) ==
  LET made == queueJobs[j].made + 1 IN
  /\ queueJobs[j].state = "active"
  /\ queueJobs' = [queueJobs EXCEPT ![j].made = made, ![j].state =
       IF ok THEN "completed" ELSE IF made < queueAttempts THEN "delayed" ELSE "failed"]
  /\ UNCHANGED <<queueAttempts, queuePaused, queueCalls, queueAsked, queueFaults>>

\* The worker is lost; the second time the job has failed, whatever attempts it has left.
StallJob(j) ==
  /\ queueJobs[j].state = "active"
  /\ queueFaults < MaxQueueFaults /\ queueFaults' = queueFaults + 1
  /\ queueJobs' = [queueJobs EXCEPT ![j].stalls = @ + 1, ![j].state =
       IF queueJobs[j].stalls = 0 THEN "waiting" ELSE "failed"]
  /\ UNCHANGED <<queueAttempts, queuePaused, queueCalls, queueAsked>>

-----------------------------------------------------------------------------
(* The administrators.                                                     *)

Calls(c, kind, left) ==
  /\ queueCalls[c].pc = "new"
  /\ queueCalls' = [queueCalls EXCEPT ![c] = [kind |-> kind, pc |-> "found", left |-> left]]
  /\ UNCHANGED <<queueAttempts, queuePaused, queueJobs, queueAsked, queueFaults>>

\* getJob, of retryJob and of removeJob.
FindJob(c, j) ==
  /\ queueJobs[j].state \notin {"none", "removed"}
  /\ \E kind \in {"retry", "remove"} : Calls(c, kind, {j})

\* Mutant: whatever attempts they made.
AllFailed == {j \in QueueJobs : queueJobs[j].state = "failed"}

\* The failed jobs with less than three attempts behind them.
FewAttempts == {j \in QueueJobs : queueJobs[j].state = "failed" /\ queueJobs[j].made < 3}

\* retryAllFailed: the list is read ...
ListFailed(c) == Calls(c, "retryAll", FewAttempts)

\* ... and each job on it is retried.  A job that is not failed any more makes retry throw,
\* and the rest of the list is not retried.
RetryNext(c, j) ==
  LET call == queueCalls[c] IN
  /\ call.kind = "retryAll" /\ call.pc = "found" /\ j \in call.left
  /\ IF queueJobs[j].state = "failed" THEN
       /\ queueJobs' = [queueJobs EXCEPT ![j].state = "waiting", ![j].again = @ + 1]
       /\ queueCalls' = [queueCalls EXCEPT ![c].left = @ \ {j}]
     ELSE CallEnds(c, "error") /\ UNCHANGED queueJobs
  /\ UNCHANGED <<queueAttempts, queuePaused, queueAsked, queueFaults>>

EndRetryAll(c) ==
  /\ queueCalls[c].kind = "retryAll" /\ queueCalls[c].pc = "found" /\ queueCalls[c].left = {}
  /\ CallEnds(c, "done")
  /\ UNCHANGED <<queueAttempts, queuePaused, queueJobs, queueAsked, queueFaults>>

\* job.retry() of retryJob.
RetryJob(c, j) ==
  /\ queueCalls[c].kind = "retry" /\ queueCalls[c].pc = "found" /\ j \in queueCalls[c].left
  /\ IF queueJobs[j].state = "failed" THEN
       /\ JobGoes(j, "waiting") /\ CallEnds(c, "done")
       /\ queueAsked' = [queueAsked EXCEPT ![j] = @ + 1]
     ELSE CallEnds(c, "error") /\ UNCHANGED <<queueJobs, queueAsked>>
  /\ UNCHANGED <<queueAttempts, queuePaused, queueFaults>>

\* job.remove() of removeJob: a job that is being processed is locked.
RemoveJob(c, j) ==
  /\ queueCalls[c].kind = "remove" /\ queueCalls[c].pc = "found" /\ j \in queueCalls[c].left
  /\ IF queueJobs[j].state = "active" THEN CallEnds(c, "error") /\ UNCHANGED queueJobs
     ELSE CallEnds(c, "done") /\ JobGoes(j, "removed")
  /\ UNCHANGED <<queueAttempts, queuePaused, queueAsked, queueFaults>>

QueueCall(c) ==
  /\ queueCalls[c].pc = "new"
  /\ queueCalls' = [queueCalls EXCEPT ![c] = [kind |-> "queue", pc |-> "done", left |-> {}]]
  /\ UNCHANGED <<queueAttempts, queueAsked, queueFaults>>

PauseQueue(c) == QueueCall(c) /\ queuePaused' = TRUE /\ UNCHANGED queueJobs
ResumeQueue(c) == QueueCall(c) /\ queuePaused' = FALSE /\ UNCHANGED queueJobs

\* Every job that waits is removed; the delayed ones stay.
DrainQueue(c) ==
  /\ QueueCall(c)
  /\ queueJobs' = [j \in QueueJobs |->
       IF queueJobs[j].state = "waiting" THEN [queueJobs[j] EXCEPT !.state = "removed"]
       ELSE queueJobs[j]]
  /\ UNCHANGED queuePaused

-----------------------------------------------------------------------------
QueueNext ==
  \/ \E j \in QueueJobs :
       \/ AddJob(j) \/ TakeJob(j) \/ Due(j) \/ StallJob(j)
       \/ \E ok \in BOOLEAN : JobEnds(j, ok)
  \/ \E c \in AdminCalls :
       \/ ListFailed(c) \/ EndRetryAll(c)
       \/ PauseQueue(c) \/ ResumeQueue(c) \/ DrainQueue(c)
       \/ \E j \in QueueJobs :
            FindJob(c, j) \/ RetryNext(c, j) \/ RetryJob(c, j) \/ RemoveJob(c, j)

QueueSpec == QueueInit /\ [][QueueNext]_queueVars

\* A worker takes the jobs there are and comes to an end with them, and time passes.
QueueFair ==
  \A j \in QueueJobs :
    /\ WF_queueVars(TakeJob(j)) /\ WF_queueVars(Due(j))
    /\ WF_queueVars(\E ok \in BOOLEAN : JobEnds(j, ok))

-----------------------------------------------------------------------------
(* Properties.                                                             *)

QueueTypeOK ==
  /\ queueAttempts \in QueueAttempts
  /\ queuePaused \in BOOLEAN
  /\ queueJobs \in [QueueJobs -> QueueJob]
  /\ queueCalls \in [AdminCalls -> AdminCall]
  /\ queueAsked \in [QueueJobs -> Nat]
  /\ queueFaults \in 0..MaxQueueFaults

RetryAlls == {c \in AdminCalls : queueCalls[c].kind = "retryAll"}

\* The tries of a job stay within its attempts and the three of retryAllFailed, one more for
\* each retry that was asked for, and for each retryAllFailed but one: two of them whose
\* lists overlap both retry a job that has failed in between (queue-health.service.ts:166
\* looks at the attempts its list was read with).
TriesBounded ==
  \A j \in QueueJobs :
    LET bound == IF queueAttempts < 3 THEN 3 ELSE queueAttempts
        overlaps == IF Cardinality(RetryAlls) = 0 THEN 0 ELSE Cardinality(RetryAlls) - 1
    IN queueJobs[j].made <= bound + queueAsked[j] + overlaps

\* retryAllFailed retries nothing on a queue of three attempts or more, such as that of the
\* executions: its failed jobs have used them up, those apart whose worker was lost twice.
RetryAllReaches ==
  \A j \in QueueJobs :
    queueJobs[j].again > 0 => queueAttempts < 3 \/ queueJobs[j].stalls > 1

\* What administrators may retry is bounded, in how often and in which queues.
RetriesBounded == TriesBounded /\ RetryAllReaches

\* A job that was added comes to an end, unless the queue is left paused.
QueueEnds ==
  \A j \in QueueJobs :
    queueJobs[j].state \in {"waiting", "active", "delayed"}
      ~> queueJobs[j].state \in {"removed", "completed", "failed"} \/ queuePaused
=============================================================================
