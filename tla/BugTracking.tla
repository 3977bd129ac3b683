----------------------------- MODULE BugTracking -----------------------------
(***************************************************************************)
(* BugsService: the status flow of a bug, its activity log and its         *)
(* attachments.  A request reads the bug, and writes after later awaits    *)
(* what it decided on that read; requests on one bug interleave.           *)
(***************************************************************************)
EXTENDS Naturals

CONSTANTS
  Bugs,      \* bug ids
  Requests,  \* calls of update, assign and addAttachment; an attachment is named by its request
  Columns    \* the columns addAttachment appends to: screenshots, videos, logs

VARIABLES
  bugs,       \* the bugs table
  activities, \* the status_changed rows of the activities table
  requests    \* where each call is, and what it has read

vars == <<bugs, activities, requests>>

-----------------------------------------------------------------------------
Statuses == {"OPEN", "IN_PROGRESS", "RESOLVED", "CLOSED", "REOPENED"}

StatusFlow == [s \in Statuses |->
  CASE s = "OPEN"        -> {"IN_PROGRESS", "CLOSED"}
    [] s = "IN_PROGRESS" -> {"RESOLVED", "OPEN", "CLOSED"}
    [] s = "RESOLVED"    -> {"CLOSED", "REOPENED"}
    [] s = "CLOSED"      -> {"REOPENED"}
    [] s = "REOPENED"    -> {"IN_PROGRESS", "CLOSED"}]

\* A row that is not there keeps what it was created with and is not read.
Bug    == [there : {"no", "yes", "deleted"}, status : Statuses, assigned : BOOLEAN,
           files : [Columns -> SUBSET Requests]]
NewBug == [there |-> "no", status |-> "OPEN", assigned |-> FALSE,
           files |-> [k \in Columns |-> {}]]

Activity == [bug : Bugs, from : Statuses, to : Statuses]

None == "none"

\* bug, to and column are the arguments of the call; seen and files are what it has read.
Request   == [pc : {"new", "check", "log", "write", "assign", "attach",
                    "done", "refused", "lost"},
              bug : Bugs \cup {None}, to : Statuses \cup {None}, column : Columns \cup {None},
              seen : Statuses \cup {None}, files : SUBSET Requests]
NoRequest == [pc |-> "new", bug |-> None, to |-> None, column |-> None,
              seen |-> None, files |-> {}]

Init ==
  /\ bugs = [b \in Bugs |-> NewBug]
  /\ activities = {}
  /\ requests = [r \in Requests |-> NoRequest]

There(b) == bugs[b].there = "yes"

GoTo(r, pc) == requests' = [requests EXCEPT ![r].pc = pc]

Calls(r, q) ==
  /\ requests[r].pc = "new"
  /\ requests' = [requests EXCEPT ![r] = q]
  /\ UNCHANGED <<bugs, activities>>

-----------------------------------------------------------------------------
(* create, delete.                                                         *)

Create(b) ==
  /\ bugs[b].there = "no"
  /\ bugs' = [bugs EXCEPT ![b].there = "yes"]
  /\ UNCHANGED <<activities, requests>>

Delete(b) ==
  /\ There(b)
  /\ bugs' = [bugs EXCEPT ![b].there = "deleted"]
  /\ UNCHANGED <<activities, requests>>

-----------------------------------------------------------------------------
(* update, with or without a new status: findById, then the lifecycle      *)
(* check on a second findById, its log entry, and the write.               *)

Update(r, b, to) ==
  Calls(r, [NoRequest EXCEPT !.bug = b, !.to = to, !.seen = bugs[b].status,
     !.pc = IF ~There(b) THEN "lost"
            ELSE IF to \in {None, bugs[b].status} THEN "write" ELSE "check"])

CheckLifecycle(r) ==
  LET b == requests[r].bug
  IN /\ requests[r].pc = "check"
     /\ requests' = [requests EXCEPT ![r] = [@ EXCEPT !.seen = bugs[b].status,
          !.pc = IF ~There(b) THEN "lost"
                 ELSE IF requests[r].to \notin StatusFlow[bugs[b].status] THEN "refused"
                 ELSE "log"]]
     /\ UNCHANGED <<bugs, activities>>

\* Mutant: the change is logged as a change to the status the bug has.
LogSeen(r) ==
  /\ requests[r].pc = "log"
  /\ activities' = activities \cup
       {[bug |-> requests[r].bug, from |-> requests[r].to, to |-> requests[r].seen]}
  /\ GoTo(r, "write")
  /\ UNCHANGED bugs

LogChange(r) ==
  /\ requests[r].pc = "log"
  /\ activities' = activities \cup
       {[bug |-> requests[r].bug, from |-> requests[r].seen, to |-> requests[r].to]}
  /\ GoTo(r, "write")
  /\ UNCHANGED bugs

\* Writes the row, which may have been deleted meanwhile.
Row(r, row) ==
  /\ IF There(requests[r].bug)
     THEN bugs' = [bugs EXCEPT ![requests[r].bug] = row] /\ GoTo(r, "done")
     ELSE bugs' = bugs /\ GoTo(r, "lost")
  /\ UNCHANGED activities

WriteUpdate(r) ==
  /\ requests[r].pc = "write"
  /\ Row(r, [bugs[requests[r].bug] EXCEPT !.status =
               IF requests[r].to = None THEN @ ELSE requests[r].to])

-----------------------------------------------------------------------------
(* assign: a status of its own, and no look at the lifecycle.              *)

Assign(r, b) ==
  Calls(r, [NoRequest EXCEPT !.bug = b, !.pc = IF There(b) THEN "assign" ELSE "lost"])

WriteAssign(r) ==
  /\ requests[r].pc = "assign"
  /\ Row(r, [bugs[requests[r].bug] EXCEPT !.status = "IN_PROGRESS", !.assigned = TRUE])

-----------------------------------------------------------------------------
(* addAttachment: the column is read, and written back with one more.      *)

AddAttachment(r, b, k) ==
  Calls(r, [NoRequest EXCEPT !.bug = b, !.column = k, !.files = bugs[b].files[k],
     !.pc = IF There(b) THEN "attach" ELSE "lost"])

\* Mutant: the column holds one attachment.
WriteAttachmentOnly(r) ==
  /\ requests[r].pc = "attach"
  /\ Row(r, [bugs[requests[r].bug] EXCEPT !.files[requests[r].column] = {r}])

WriteAttachment(r) ==
  /\ requests[r].pc = "attach"
  /\ Row(r, [bugs[requests[r].bug] EXCEPT !.files[requests[r].column] =
               requests[r].files \cup {r}])

-----------------------------------------------------------------------------
\* The call's next database call rejects.
Fail(r) ==
  /\ requests[r].pc \in {"check", "log", "write", "assign", "attach"}
  /\ GoTo(r, "lost")
  /\ UNCHANGED <<bugs, activities>>

Next ==
  \/ \E b \in Bugs : Create(b) \/ Delete(b)
  \/ \E r \in Requests, b \in Bugs :
       \/ \E to \in Statuses \cup {None} : Update(r, b, to)
       \/ Assign(r, b)
       \/ \E k \in Columns : AddAttachment(r, b, k)
  \/ \E r \in Requests :
       \/ CheckLifecycle(r) \/ LogChange(r) \/ WriteUpdate(r)
       \/ WriteAssign(r) \/ WriteAttachment(r) \/ Fail(r)

Spec == Init /\ [][Next]_vars

-----------------------------------------------------------------------------
(* Properties.                                                             *)

\* Every variable keeps its type.
TypeOK ==
  /\ bugs \in [Bugs -> Bug]
  /\ activities \subseteq Activity
  /\ requests \in [Requests -> Request]

\* The history of a bug accounts for s: bugs begin OPEN, an assignment makes them
\* IN_PROGRESS without a trace, and every other status is in the activity log.
Explained(b, s) ==
  \/ s = "OPEN"
  \/ s = "IN_PROGRESS" /\ bugs[b].assigned
  \/ \E a \in activities : a.bug = b /\ a.to = s

\* However update, assign and delete interleave and fail, the status of a bug, and the
\* status each logged change began at, can be traced in the activity log (updateLifecycle
\* logs before update writes, and a write of an unchanged status repeats a traced one).
StatusInLog ==
  /\ \A b \in Bugs : Explained(b, bugs[b].status)
  /\ \A a \in activities : Explained(a.bug, a.from)

\* What a call carries between its awaits: enough for StatusInLog to be inductive.
PendingAt(q) ==
  /\ q.pc \in {"check", "log", "write", "assign", "attach"} => q.bug \in Bugs
  /\ q.pc \in {"check", "log"} => q.to \in Statuses
  /\ q.pc = "log" => q.seen \in Statuses /\ Explained(q.bug, q.seen)
  /\ q.pc = "write" => q.to = None \/ (q.to \in Statuses /\ Explained(q.bug, q.to))
  /\ q.pc = "attach" => q.column \in Columns

Pending == \A r \in Requests : PendingAt(requests[r])

IInv == TypeOK /\ StatusInLog /\ Pending

\* A call of update takes a bug only where its status may go, however calls interleave.  The
\* error message of updateLifecycle promises it; see section 5 of the README.
StatusMovesByFlow ==
  [][\A b \in Bugs, r \in Requests :
       WriteUpdate(r) /\ bugs'[b].status # bugs[b].status =>
         bugs'[b].status \in StatusFlow[bugs[b].status]]_vars

\* An attachment whose call succeeded is on the bug, unless a call that overlapped it (neither
\* has read the other's) wrote the column back: addAttachment's read and write are two awaits.
LostInOverlapOnly ==
  \A r \in Requests : requests[r].pc = "done" /\ requests[r].column # None =>
    \/ r \in bugs[requests[r].bug].files[requests[r].column]
    \/ \E q \in Requests : /\ requests[q].pc = "done" /\ r \notin requests[q].files
                            /\ q \notin requests[r].files
                            /\ q # r /\ requests[q].bug = requests[r].bug
                            /\ requests[q].column = requests[r].column
=============================================================================
