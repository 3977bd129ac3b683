----------------------------- MODULE Schedules ------------------------------
(***************************************************************************)
(* SchedulerService: rows with a cron pattern, and the repeatable jobs of  *)
(* the queue "scheduler", which are added an await after the row was       *)
(* written and never taken away.  BullMQ knows a repeatable job by its     *)
(* name and pattern, and they all have one name: of two with one pattern   *)
(* one is kept.  It reads the pattern when a job is added, after the row   *)
(* was written with any string.  Nothing in the repository consumes the    *)
(* queue: a job is in it, and that is all it is.                           *)
(***************************************************************************)
EXTENDS Naturals, FiniteSets

CONSTANTS
  SchedRows,       \* rows that may be created
  Patterns,        \* strings a schedule is given
  Malformed,       \* those of them that cron-parser throws on
  SchedCalls,      \* calls of create, update and delete
  NoSchedule,      \* the schedule of a row without one, and no row
  MaxSchedFaults   \* bound: calls to Redis that fail

ASSUME SchedAssumption ==
  MaxSchedFaults \in Nat /\ NoSchedule \notin Patterns /\ Malformed \subseteq Patterns

VARIABLES
  schedRows,    \* table jobs
  schedRepeats, \* repeatable jobs of the queue, by pattern: the row each runs for
  schedCalls,   \* each call, and the row and pattern it has still to add
  schedPast,    \* patterns each row has had
  schedFaults

schedVars == <<schedRows, schedRepeats, schedCalls, schedPast, schedFaults>>

-----------------------------------------------------------------------------
Crons == Patterns \cup {NoSchedule}
SchedRow == [state : {"none", "there", "deleted"}, schedule : Crons]
SchedCall == [pc : {"new", "add", "done", "rejected", "error"}, row : SchedRows \cup {NoSchedule},
              pattern : Crons]

SchedInit ==
  /\ schedRows = [r \in SchedRows |-> [state |-> "none", schedule |-> NoSchedule]]
  /\ schedRepeats = [p \in Patterns |-> {}]
  /\ schedCalls = [c \in SchedCalls |->
       [pc |-> "new", row |-> NoSchedule, pattern |-> NoSchedule]]
  /\ schedPast = [r \in SchedRows |-> {}]
  /\ schedFaults = 0

\* A row is written with a pattern, or keeps the one it has; then the job is to be added.
Writes(c, r, p) ==
  /\ schedCalls[c].pc = "new"
  /\ schedCalls' = [schedCalls EXCEPT ![c] =
       [pc |-> IF p = NoSchedule THEN "done" ELSE "add", row |-> r, pattern |-> p]]
  /\ schedRows' = [schedRows EXCEPT ![r] =
       [state |-> "there", schedule |-> IF p = NoSchedule THEN schedRows[r].schedule ELSE p]]
  /\ schedPast' = [schedPast EXCEPT ![r] = @ \cup ({p} \ {NoSchedule})]
  /\ UNCHANGED <<schedRepeats, schedFaults>>

CreateSchedule(c, r, p) == schedRows[r].state = "none" /\ Writes(c, r, p)

\* Mutant: the row alone.
UpdateRow(c, r, p) ==
  /\ schedCalls[c].pc = "new" /\ schedRows[r].state = "there"
  /\ schedCalls' = [schedCalls EXCEPT ![c].pc = "done"]
  /\ schedRows' = [schedRows EXCEPT ![r].schedule = p]
  /\ UNCHANGED <<schedRepeats, schedPast, schedFaults>>

\* Mutant: whether a pattern came or not.
UpdateAnyway(c, r, p) ==
  /\ schedCalls[c].pc = "new" /\ schedRows[r].state = "there"
  /\ schedCalls' = [schedCalls EXCEPT ![c] = [pc |-> "add", row |-> r, pattern |-> p]]
  /\ schedRows' = [schedRows EXCEPT ![r].schedule = p]
  /\ schedPast' = [schedPast EXCEPT ![r] = @ \cup {p}]
  /\ UNCHANGED <<schedRepeats, schedFaults>>

UpdateSchedule(c, r, p) == schedRows[r].state = "there" /\ Writes(c, r, p)

\* update with an empty schedule: the row has none any more, and what was added stays.
ClearSchedule(c, r) ==
  /\ schedCalls[c].pc = "new" /\ schedRows[r].state = "there"
  /\ schedCalls' = [schedCalls EXCEPT ![c].pc = "done"]
  /\ schedRows' = [schedRows EXCEPT ![r].schedule = NoSchedule]
  /\ UNCHANGED <<schedRepeats, schedPast, schedFaults>>

\* delete: the row alone.
DeleteSchedule(c, r) ==
  /\ schedCalls[c].pc = "new" /\ schedRows[r].state = "there"
  /\ schedCalls' = [schedCalls EXCEPT ![c].pc = "done"]
  /\ schedRows' = [schedRows EXCEPT ![r] = [state |-> "deleted", schedule |-> NoSchedule]]
  /\ UNCHANGED <<schedRepeats, schedPast, schedFaults>>

\* What BullMQ may have of a pattern when a job is added: the job it has stays while its
\* date is to come, and gives way to the new one afterwards.
JobsAfter(call) == {jobs \in {schedRepeats[call.pattern], {call.row}} : jobs # {}}

\* scheduleJob, with a pattern that can be read.
ScheduleJob(c) ==
  LET call == schedCalls[c] IN
  /\ call.pc = "add" /\ call.pattern \notin Malformed
  /\ schedCalls' = [schedCalls EXCEPT ![c].pc = "done"]
  /\ \E jobs \in JobsAfter(call) :
       schedRepeats' = [schedRepeats EXCEPT ![call.pattern] = jobs]
  /\ UNCHANGED <<schedRows, schedPast, schedFaults>>

\* queue.add throws on the pattern, before it goes to Redis: the call is an error, and the
\* row stays as it was written.  (The DTOs ask for a string only.)
RejectPattern(c) ==
  /\ schedCalls[c].pc = "add" /\ schedCalls[c].pattern \in Malformed
  /\ schedCalls' = [schedCalls EXCEPT ![c].pc = "rejected"]
  /\ UNCHANGED <<schedRows, schedRepeats, schedPast, schedFaults>>

\* Redis fails, or its answer is lost when the job was added: the call is an error, and the
\* row stays.
ScheduleFails(c) ==
  LET call == schedCalls[c] IN
  /\ call.pc = "add" /\ call.pattern \notin Malformed
  /\ schedFaults < MaxSchedFaults /\ schedFaults' = schedFaults + 1
  /\ schedCalls' = [schedCalls EXCEPT ![c].pc = "error"]
  /\ \E jobs \in JobsAfter(call) \cup {schedRepeats[call.pattern]} :
       schedRepeats' = [schedRepeats EXCEPT ![call.pattern] = jobs]
  /\ UNCHANGED <<schedRows, schedPast>>

SchedNext ==
  \E c \in SchedCalls :
    \/ \E r \in SchedRows :
         \/ ClearSchedule(c, r) \/ DeleteSchedule(c, r)
         \/ \E p \in Crons : CreateSchedule(c, r, p) \/ UpdateSchedule(c, r, p)
    \/ ScheduleJob(c) \/ RejectPattern(c) \/ ScheduleFails(c)

SchedSpec == SchedInit /\ [][SchedNext]_schedVars

-----------------------------------------------------------------------------
(* Properties.                                                             *)

SchedTypeOK ==
  /\ schedRows \in [SchedRows -> SchedRow]
  /\ schedRepeats \in [Patterns -> SUBSET SchedRows]
  /\ schedCalls \in [SchedCalls -> SchedCall]
  /\ schedPast \in [SchedRows -> SUBSET Patterns]
  /\ schedFaults \in 0..MaxSchedFaults

\* A call that was to add a job of the row r with the pattern p, and how far it is.
CallAt(pc, r, p) == \E c \in SchedCalls : schedCalls[c] = [pc |-> pc, row |-> r, pattern |-> p]

\* A row with a pattern that can be read has a job in the queue, its own or that of another
\* row that was given the pattern (scheduler.service.ts:46 gives all jobs one name), but
\* while a call has still to add it, and when the call that wrote this pattern into this row
\* failed at Redis.
ReadableHaveJobs ==
  \A r \in SchedRows : schedRows[r].schedule \in Patterns \ Malformed =>
    LET p == schedRows[r].schedule IN
    \/ schedRepeats[p] # {}
    \/ CallAt("add", r, p) \/ CallAt("error", r, p)

\* A row with a pattern that cannot be read has no job, now or later, with no failure of
\* Redis: the caller of this row and pattern has got an error, or is going to.
MalformedHaveNone ==
  /\ \A p \in Malformed : schedRepeats[p] = {}
  /\ \A r \in SchedRows : schedRows[r].schedule \in Malformed =>
       LET p == schedRows[r].schedule IN CallAt("add", r, p) \/ CallAt("rejected", r, p)

\* A pattern has one job at most, for a row that was given the pattern, be that deleted or
\* changed since.
JobsWereScheduled ==
  \A p \in Patterns :
    Cardinality(schedRepeats[p]) <= 1 /\ \A r \in schedRepeats[p] : p \in schedPast[r]

\* What the rows say and what the queue has: a readable pattern has its one repeatable job
\* unless the call that wrote it failed, a malformed one has none and its caller knows.
SchedulesHaveJobs == ReadableHaveJobs /\ MalformedHaveNone /\ JobsWereScheduled
=============================================================================
