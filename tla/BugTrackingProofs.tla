-------------------------- MODULE BugTrackingProofs --------------------------
(***************************************************************************)
(* Type correctness and the traceability of a bug's status, for any number *)
(* of bugs and calls.  The log and the assignments only grow, so that what *)
(* they explain stays explained (StillExplained); a call that is about to  *)
(* write a status has found it explained, or has logged it itself.         *)
(***************************************************************************)
EXTENDS BugTracking, TLAPS

LEMMA InitIInv == Init => IInv
  BY DEF Init, IInv, TypeOK, StatusInLog, Pending, PendingAt, Explained, NewBug, NoRequest,
         Bug, Request, Activity, Statuses, None

\* What a step adds to the history: nothing is taken from the log, no assignment undone.
HistoryGrows ==
  /\ activities \subseteq activities'
  /\ \A b \in Bugs : bugs[b].assigned => bugs'[b].assigned

LEMMA StillExplained ==
  ASSUME HistoryGrows, NEW b \in Bugs, NEW s, Explained(b, s)
  PROVE  Explained(b, s)'
  BY DEF HistoryGrows, Explained

LEMMA StillPending ==
  ASSUME HistoryGrows, NEW q, PendingAt(q)
  PROVE  PendingAt(q)'
  BY StillExplained DEF PendingAt, HistoryGrows, Explained

-----------------------------------------------------------------------------
(* The three things a step may do, each with the invariant it keeps.       *)

\* A call moves on: its row is replaced by one of the right type.
LEMMA CallMoves ==
  ASSUME IInv, NEW r \in Requests, NEW q \in Request, PendingAt(q),
         requests' = [requests EXCEPT ![r] = q], UNCHANGED <<bugs, activities>>
  PROVE  IInv'
<1>1. HistoryGrows BY DEF HistoryGrows
<1>2. TypeOK' BY DEF IInv, TypeOK
<1>3. StatusInLog' BY DEF IInv, StatusInLog, Explained
<1>4. Pending'
  <2>1. \A x \in Requests : PendingAt(requests[x])' <=> PendingAt(requests'[x])
    BY DEF PendingAt, Explained
  <2>2. ASSUME NEW x \in Requests PROVE PendingAt(requests'[x])
    BY DEF IInv, Pending, TypeOK
  <2>3. QED BY <2>1, <2>2 DEF Pending
<1>5. QED BY <1>2, <1>3, <1>4 DEF IInv

\* A call ends where it is, with nothing left to do.
LEMMA CallEnds ==
  ASSUME TypeOK, NEW r \in Requests, NEW pc \in {"done", "refused", "lost"}
  PROVE  /\ [requests[r] EXCEPT !.pc = pc] \in Request
         /\ PendingAt([requests[r] EXCEPT !.pc = pc])
<1>1. requests[r] \in Request BY DEF TypeOK
<1>2. [requests[r] EXCEPT !.pc = pc] \in Request BY <1>1 DEF Request
<1>3. PendingAt([requests[r] EXCEPT !.pc = pc]) BY <1>1 DEF PendingAt, Request
<1>4. QED BY <1>2, <1>3

\* A row is written and the call is done, or the row is gone and the call is lost.
LEMMA RowWritten ==
  ASSUME IInv, NEW r \in Requests, requests[r].bug \in Bugs,
         NEW row \in Bug, bugs[requests[r].bug].assigned => row.assigned,
         \/ Explained(requests[r].bug, row.status)
         \/ row.status = "IN_PROGRESS" /\ row.assigned,
         Row(r, row)
  PROVE  IInv'
<1> SUFFICES ASSUME NEW b \in Bugs, b = requests[r].bug PROVE IInv' OBVIOUS
<1> DEFINE done == [requests[r] EXCEPT !.pc = "done"]
           lost == [requests[r] EXCEPT !.pc = "lost"]
<1>t. TypeOK /\ Pending BY DEF IInv
<1>1. CASE ~There(b)
  <2>1. requests' = [requests EXCEPT ![r] = lost] /\ UNCHANGED <<bugs, activities>>
    BY <1>1, <1>t DEF Row, GoTo, TypeOK
  <2>2. lost \in Request /\ PendingAt(lost) BY <1>t, CallEnds
  <2>3. QED BY <2>1, <2>2, CallMoves
<1>2. CASE There(b)
  <2>1. bugs' = [bugs EXCEPT ![b] = row] /\ activities' = activities
    BY <1>2 DEF Row
  <2>2. requests' = [requests EXCEPT ![r] = done]
    BY <1>2, <1>t DEF Row, GoTo, TypeOK
  <2>3. done \in Request /\ PendingAt(done) BY <1>t, CallEnds
  <2>4. HistoryGrows BY <2>1, <1>t DEF HistoryGrows, TypeOK
  <2>5. TypeOK' BY <2>1, <2>2, <2>3, <1>t DEF TypeOK
  <2>6. StatusInLog'
    <3>1. Explained(b, row.status)'
      <4>1. CASE Explained(b, row.status) BY <4>1, <2>4, StillExplained
      <4>2. CASE row.status = "IN_PROGRESS" /\ row.assigned
        BY <4>2, <2>1, <1>t DEF Explained, TypeOK
      <4>3. QED BY <4>1, <4>2
    <3>2. ASSUME NEW x \in Bugs PROVE Explained(x, bugs[x].status)'
      <4>1. CASE x = b BY <4>1, <3>1, <2>1, <1>t DEF TypeOK, Explained
      <4>2. CASE x # b
        BY <4>2, <2>1, <1>t DEF TypeOK, Explained, IInv, StatusInLog
      <4>3. QED BY <4>1, <4>2
    <3>3. ASSUME NEW a \in activities PROVE Explained(a.bug, a.from)'
      <4>1. a.bug \in Bugs /\ Explained(a.bug, a.from)
        BY <1>t DEF TypeOK, Activity, IInv, StatusInLog
      <4>2. QED BY <4>1, <2>4, StillExplained
    <3>4. QED BY <3>2, <3>3, <2>1 DEF StatusInLog
  <2>7. Pending'
    <3>1. ASSUME NEW x \in Requests, NEW q, q = requests'[x] PROVE PendingAt(q)'
      <4>1. PendingAt(q) BY <3>1, <2>2, <2>3, <1>t DEF Pending, TypeOK
      <4>2. QED BY <4>1, <2>4, StillPending
    <3>2. QED BY <3>1 DEF Pending, PendingAt, Explained
  <2>8. QED BY <2>5, <2>6, <2>7 DEF IInv
<1>3. QED BY <1>1, <1>2

-----------------------------------------------------------------------------
(* One lemma for each kind of step.                                        *)

LEMMA RowsCome ==
  ASSUME IInv, NEW b \in Bugs, Create(b) \/ Delete(b)
  PROVE  IInv'
<1>1. PICK there \in {"yes", "deleted"} : bugs' = [bugs EXCEPT ![b].there = there]
  BY DEF Create, Delete
<1>2. UNCHANGED <<activities, requests>> BY DEF Create, Delete
<1>3. \A x \in Bugs : /\ bugs'[x] \in Bug
                      /\ bugs'[x].status = bugs[x].status
                      /\ bugs'[x].assigned = bugs[x].assigned
  BY <1>1 DEF IInv, TypeOK, Bug
<1>4. TypeOK' BY <1>1, <1>2, <1>3 DEF IInv, TypeOK
<1>5. HistoryGrows BY <1>2, <1>3 DEF HistoryGrows
<1>6. StatusInLog' BY <1>2, <1>3, <1>5, StillExplained DEF IInv, TypeOK, Activity, StatusInLog
<1>7. Pending'
  <2>1. ASSUME NEW x \in Requests, NEW q, q = requests[x] PROVE PendingAt(q)'
    BY <2>1, <1>5, StillPending DEF IInv, Pending
  <2>2. QED BY <2>1, <1>2 DEF Pending
<1>8. QED BY <1>4, <1>6, <1>7 DEF IInv

LEMMA CallsBegin ==
  ASSUME IInv, NEW r \in Requests, NEW b \in Bugs,
         \/ \E to \in Statuses \cup {None} : Update(r, b, to)
         \/ Assign(r, b)
         \/ \E k \in Columns : AddAttachment(r, b, k)
  PROVE  IInv'
<1>t. bugs[b] \in Bug /\ Explained(b, bugs[b].status)
  BY DEF IInv, TypeOK, StatusInLog
<1>1. ASSUME NEW to \in Statuses \cup {None}, Update(r, b, to) PROVE IInv'
  <2> DEFINE q == [NoRequest EXCEPT !.bug = b, !.to = to, !.seen = bugs[b].status,
                     !.pc = IF ~There(b) THEN "lost"
                            ELSE IF to \in {None, bugs[b].status} THEN "write" ELSE "check"]
  <2>1. q \in Request BY <1>t DEF Request, NoRequest, Bug
  <2>2. PendingAt(q) BY <1>t DEF PendingAt, NoRequest, Bug
  <2>3. QED BY <2>1, <2>2, <1>1, CallMoves DEF Update, Calls
<1>2. ASSUME Assign(r, b) PROVE IInv'
  <2> DEFINE q == [NoRequest EXCEPT !.bug = b, !.pc = IF There(b) THEN "assign" ELSE "lost"]
  <2>1. q \in Request /\ PendingAt(q) BY DEF Request, NoRequest, PendingAt
  <2>2. QED BY <2>1, <1>2, CallMoves DEF Assign, Calls
<1>3. ASSUME NEW k \in Columns, AddAttachment(r, b, k) PROVE IInv'
  <2> DEFINE q == [NoRequest EXCEPT !.bug = b, !.column = k, !.files = bugs[b].files[k],
                     !.pc = IF There(b) THEN "attach" ELSE "lost"]
  <2>1. q \in Request BY <1>t DEF Request, NoRequest, Bug
  <2>2. PendingAt(q) BY DEF NoRequest, PendingAt
  <2>3. QED BY <2>1, <2>2, <1>3, CallMoves DEF AddAttachment, Calls
<1>4. QED BY <1>1, <1>2, <1>3

LEMMA LifecycleChecked ==
  ASSUME IInv, NEW r \in Requests, CheckLifecycle(r)
  PROVE  IInv'
<1> DEFINE b == requests[r].bug
           q == [requests[r] EXCEPT !.seen = bugs[b].status,
                   !.pc = IF ~There(b) THEN "lost"
                          ELSE IF requests[r].to \notin StatusFlow[bugs[b].status]
                               THEN "refused" ELSE "log"]
<1>1. b \in Bugs /\ requests[r].to \in Statuses
  BY DEF CheckLifecycle, IInv, Pending, PendingAt
<1>2. bugs[b].status \in Statuses /\ Explained(b, bugs[b].status)
  BY <1>1 DEF IInv, TypeOK, Bug, StatusInLog
<1>3. requests[r] \in Request BY DEF IInv, TypeOK
<1>4. q \in Request BY <1>2, <1>3 DEF Request
<1>5. PendingAt(q) BY <1>1, <1>2, <1>3 DEF PendingAt, Request
<1>6. requests' = [requests EXCEPT ![r] = q] /\ UNCHANGED <<bugs, activities>>
  BY DEF CheckLifecycle
<1>7. QED BY <1>4, <1>5, <1>6, CallMoves

LEMMA ChangeLogged ==
  ASSUME IInv, NEW r \in Requests, LogChange(r)
  PROVE  IInv'
<1> SUFFICES ASSUME NEW q, q = [requests[r] EXCEPT !.pc = "write"] PROVE IInv' OBVIOUS
<1> DEFINE e == [bug |-> requests[r].bug, from |-> requests[r].seen, to |-> requests[r].to]
<1>t. TypeOK /\ StatusInLog /\ Pending BY DEF IInv
<1>1. /\ requests[r].bug \in Bugs /\ requests[r].to \in Statuses
      /\ requests[r].seen \in Statuses /\ Explained(requests[r].bug, requests[r].seen)
  BY <1>t DEF LogChange, Pending, PendingAt
<1>2. activities' = activities \cup {e} /\ bugs' = bugs BY DEF LogChange
<1>3. requests' = [requests EXCEPT ![r] = q] BY <1>t DEF LogChange, GoTo, TypeOK
<1>4. requests[r] \in Request BY <1>t DEF TypeOK
<1>5. q \in Request BY <1>4 DEF Request
<1>6. HistoryGrows BY <1>2 DEF HistoryGrows
<1>7. TypeOK' BY <1>1, <1>2, <1>3, <1>5, <1>t DEF TypeOK, Activity
<1>8. StatusInLog'
  <2>1. ASSUME NEW a \in activities' PROVE a.bug \in Bugs /\ Explained(a.bug, a.from)
    BY <1>1, <1>2, <1>t DEF TypeOK, Activity, StatusInLog
  <2>2. \A x \in Bugs : Explained(x, bugs[x].status)'
    BY <1>2, <1>6, <1>t, StillExplained DEF StatusInLog
  <2>3. ASSUME NEW a \in activities' PROVE Explained(a.bug, a.from)'
    BY <2>1, <1>6, StillExplained
  <2>4. QED BY <2>2, <2>3 DEF StatusInLog
<1>9. Pending'
  <2>1. PendingAt(q)'
    <3>0. e \in activities' /\ e.bug = q.bug /\ e.to = q.to BY <1>2, <1>4 DEF Request
    <3>1. Explained(q.bug, q.to)' BY <3>0 DEF Explained
    <3>2. q.bug \in Bugs /\ q.to \in Statuses /\ q.pc = "write" BY <1>1, <1>4 DEF Request
    <3>3. QED BY <3>1, <3>2 DEF PendingAt
  <2>2. ASSUME NEW x \in Requests, NEW p, p = requests'[x] PROVE PendingAt(p)'
    <3>1. CASE x = r BY <3>1, <2>1, <2>2, <1>3, <1>t DEF TypeOK
    <3>2. CASE x # r
      <4>1. PendingAt(p) BY <3>2, <2>2, <1>3, <1>t DEF Pending, TypeOK
      <4>2. QED BY <4>1, <1>6, StillPending
    <3>3. QED BY <3>1, <3>2
  <2>3. QED BY <2>2 DEF Pending
<1>10. QED BY <1>7, <1>8, <1>9 DEF IInv

\* update's write: the new status has been logged, or the old one stays.
LEMMA UpdateWritten ==
  ASSUME IInv, NEW r \in Requests, WriteUpdate(r)
  PROVE  IInv'
<1> DEFINE b == requests[r].bug
           to == IF requests[r].to = None THEN bugs[b].status ELSE requests[r].to
           row == [bugs[b] EXCEPT !.status = to]
<1>1. b \in Bugs /\ (requests[r].to = None \/ (requests[r].to \in Statuses
                                                 /\ Explained(b, requests[r].to)))
  BY DEF WriteUpdate, IInv, Pending, PendingAt
<1>2. bugs[b] \in Bug /\ Explained(b, bugs[b].status)
  BY <1>1 DEF IInv, TypeOK, StatusInLog
<1>3. to \in Statuses /\ Explained(b, to) BY <1>1, <1>2 DEF Bug
<1>4. row \in Bug /\ row.assigned = bugs[b].assigned /\ row.status = to
  BY <1>2, <1>3 DEF Bug
<1>5. Row(r, row) BY DEF WriteUpdate
<1>6. QED BY <1>1, <1>3, <1>4, <1>5, RowWritten

LEMMA AssignWritten ==
  ASSUME IInv, NEW r \in Requests, WriteAssign(r)
  PROVE  IInv'
<1> DEFINE b == requests[r].bug
           row == [bugs[b] EXCEPT !.status = "IN_PROGRESS", !.assigned = TRUE]
<1>1. b \in Bugs BY DEF WriteAssign, IInv, Pending, PendingAt
<1>2. bugs[b] \in Bug BY <1>1 DEF IInv, TypeOK
<1>3. row \in Bug /\ row.assigned /\ row.status = "IN_PROGRESS" BY <1>2 DEF Bug, Statuses
<1>4. Row(r, row) BY DEF WriteAssign
<1>5. QED BY <1>1, <1>3, <1>4, RowWritten

LEMMA AttachmentWritten ==
  ASSUME IInv, NEW r \in Requests, WriteAttachment(r)
  PROVE  IInv'
<1> DEFINE b == requests[r].bug
           k == requests[r].column
           files == [bugs[b].files EXCEPT ![k] = requests[r].files \cup {r}]
           row == [bugs[b] EXCEPT !.files = files]
<1>1. b \in Bugs /\ k \in Columns BY DEF WriteAttachment, IInv, Pending, PendingAt
<1>2. bugs[b] \in Bug /\ requests[r] \in Request /\ Explained(b, bugs[b].status)
  BY <1>1 DEF IInv, TypeOK, StatusInLog
<1>3. files \in [Columns -> SUBSET Requests] BY <1>2 DEF Bug, Request
<1>4. /\ row \in Bug /\ row.assigned = bugs[b].assigned
      /\ row.status = bugs[b].status
  BY <1>2, <1>3 DEF Bug
<1>5. Row(r, row) BY DEF WriteAttachment
<1>6. QED BY <1>1, <1>2, <1>4, <1>5, RowWritten

LEMMA CallFailed ==
  ASSUME IInv, NEW r \in Requests, Fail(r)
  PROVE  IInv'
<1> DEFINE q == [requests[r] EXCEPT !.pc = "lost"]
<1>1. TypeOK BY DEF IInv
<1>2. q \in Request /\ PendingAt(q) BY <1>1, CallEnds
<1>3. requests' = [requests EXCEPT ![r] = q] /\ UNCHANGED <<bugs, activities>>
  BY <1>1 DEF Fail, GoTo, TypeOK
<1>4. QED BY <1>2, <1>3, CallMoves

LEMMA NextIInv == IInv /\ [Next]_vars => IInv'
<1> SUFFICES ASSUME IInv, [Next]_vars PROVE IInv' OBVIOUS
<1>1. CASE \E b \in Bugs : Create(b) \/ Delete(b)
  BY <1>1, RowsCome
<1>2. CASE \E r \in Requests, b \in Bugs :
             \/ \E to \in Statuses \cup {None} : Update(r, b, to)
             \/ Assign(r, b)
             \/ \E k \in Columns : AddAttachment(r, b, k)
  BY <1>2, CallsBegin
<1>3. CASE \E r \in Requests :
             \/ CheckLifecycle(r) \/ LogChange(r) \/ WriteUpdate(r)
             \/ WriteAssign(r) \/ WriteAttachment(r) \/ Fail(r)
  BY <1>3, LifecycleChecked, ChangeLogged, UpdateWritten, AssignWritten, AttachmentWritten,
     CallFailed
<1>4. CASE UNCHANGED vars
  BY <1>4 DEF vars, IInv, TypeOK, StatusInLog, Pending, PendingAt, Explained
<1>5. QED BY <1>1, <1>2, <1>3, <1>4 DEF Next

-----------------------------------------------------------------------------

LEMMA Invariance == Spec => []IInv
<1>1. QED BY InitIInv, NextIInv, PTL DEF Spec

\* Every variable of BugsService's tables and calls keeps its type.
THEOREM BugsTypeCorrect == Spec => []TypeOK
<1>1. IInv => TypeOK BY DEF IInv
<1>2. QED BY <1>1, Invariance, PTL

\* The status of every bug can be traced in the activity log, however the calls of update,
\* assign, addAttachment and delete interleave and fail.
THEOREM StatusTraceable == Spec => []StatusInLog
<1>1. IInv => StatusInLog BY DEF IInv
<1>2. QED BY <1>1, Invariance, PTL

-----------------------------------------------------------------------------
(* Attachments.  A call that has succeeded keeps its column as it read and *)
(* wrote it, so that whoever takes its attachment away is there to show.   *)

\* A call has a column if it is one of addAttachment, which is written to a bug there is.
ColumnOf(q) ==
  /\ q.pc \in {"check", "log", "write", "assign"} => q.column = None
  /\ q.pc \in {"attach", "done"} /\ q.column # None => q.bug \in Bugs /\ q.column \in Columns

\* A column has the attachments of calls that are done, whoever has read it.
Done == {r \in Requests : requests[r].pc = "done"}
FilesDone ==
  /\ \A r \in Requests : requests[r].files \subseteq Done
  /\ \A b \in Bugs, k \in Columns : bugs[b].files[k] \subseteq Done

Attachments == (\A r \in Requests : ColumnOf(requests[r])) /\ FilesDone /\ LostInOverlapOnly

\* q is the call that overlapped r and took its attachment away.
TakenBy(r, q) ==
  /\ requests[q].pc = "done" /\ r \notin requests[q].files /\ q \notin requests[r].files
  /\ q # r /\ requests[q].bug = requests[r].bug
  /\ requests[q].column = requests[r].column

\* A call moves on without being done, and the attachments stay.
LEMMA AttachmentsStay ==
  ASSUME TypeOK, Attachments, NEW r \in Requests, NEW q, requests[r].pc # "done",
         q.pc # "done", ColumnOf(q), q.files \subseteq Done,
         requests' = [requests EXCEPT ![r] = q],
         \A b \in Bugs : bugs'[b].files = bugs[b].files
  PROVE  Attachments'
<1>1. /\ requests'[r] = q
      /\ \A x \in Requests \ {r} : requests'[x] = requests[x]
  BY DEF TypeOK
<1>2. \A x \in Requests : ColumnOf(requests'[x])
  BY <1>1 DEF Attachments
<1>3. ASSUME NEW x \in Requests, requests'[x].pc = "done", requests'[x].column # None
      PROVE  \/ x \in bugs'[requests'[x].bug].files[requests'[x].column]
             \/ \E y \in Requests : TakenBy(x, y)'
  <2>1. x # r /\ requests'[x] = requests[x]
    BY <1>1, <1>3
  <2>2. requests[x].bug \in Bugs
    BY <2>1, <1>3 DEF Attachments, ColumnOf
  <2>3. CASE x \in bugs[requests[x].bug].files[requests[x].column]
    BY <2>1, <2>2, <2>3
  <2>4. CASE x \notin bugs[requests[x].bug].files[requests[x].column]
    <3>1. PICK y \in Requests : TakenBy(x, y)
      BY <2>1, <2>4, <1>3 DEF Attachments, LostInOverlapOnly, TakenBy
    <3>2. y # r /\ requests'[y] = requests[y]
      BY <1>1, <3>1 DEF TakenBy
    <3> QED BY <2>1, <3>1, <3>2 DEF TakenBy
  <2> QED BY <2>3, <2>4
<1>4. LostInOverlapOnly'
  BY <1>3 DEF LostInOverlapOnly, TakenBy
<1>5. (\A x \in Requests : ColumnOf(requests[x]))'
  BY <1>2
<1>6. Done' = Done
  BY <1>1 DEF Done
<1>7. FilesDone'
  BY <1>1, <1>6 DEF Attachments, FilesDone
<1> QED BY <1>4, <1>5, <1>7 DEF Attachments

\* A call that writes its row: what it takes away it has not read.
LEMMA AttachmentsWritten ==
  ASSUME TypeOK, Attachments, NEW r \in Requests, requests[r].bug \in Bugs, NEW row \in Bug,
         requests[r].pc # "done", Row(r, row), requests[r].pc \in {"write", "assign", "attach"},
         \A k \in Columns : \/ row.files[k] = bugs[requests[r].bug].files[k]
                            \/ /\ k = requests[r].column
                               /\ row.files[k] = requests[r].files \cup {r},
         requests[r].column # None => r \in row.files[requests[r].column]
  PROVE  Attachments'
<1> DEFINE b == requests[r].bug
           done == [requests[r] EXCEPT !.pc = "done"]
           lost == [requests[r] EXCEPT !.pc = "lost"]
<1>0. requests[r] \in Request
  BY DEF TypeOK
<1>1. CASE ~There(b)
  <2>1. requests' = [requests EXCEPT ![r] = lost] /\ bugs' = bugs
    BY <1>1 DEF Row, GoTo, TypeOK
  <2>2. lost.pc # "done" /\ ColumnOf(lost) /\ lost.files \subseteq Done
    BY <1>0 DEF ColumnOf, Request, Attachments, FilesDone
  <2> QED BY <2>1, <2>2, AttachmentsStay
<1>2. CASE There(b)
  <2>1. bugs' = [bugs EXCEPT ![b] = row] /\ requests' = [requests EXCEPT ![r] = done]
    BY <1>2 DEF Row, GoTo, TypeOK
  <2>2. /\ done.pc = "done" /\ done.bug = b /\ done.column = requests[r].column
        /\ done.files = requests[r].files
    BY <1>0 DEF Request
  <2>3. /\ requests'[r] = done /\ bugs'[b] = row
        /\ \A x \in Requests \ {r} : requests'[x] = requests[x]
        /\ \A x \in Bugs \ {b} : bugs'[x] = bugs[x]
    BY <2>1 DEF TypeOK
  <2>4. ColumnOf(requests[r])
    BY DEF Attachments
  <2>5. ColumnOf(done)
    BY <2>2, <2>4 DEF ColumnOf
  <2> HIDE DEF b, done
  <2>6. \A x \in Requests : ColumnOf(requests'[x])
    BY <2>3, <2>5 DEF Attachments
  <2>7. ASSUME NEW x \in Requests, requests'[x].pc = "done", requests'[x].column # None
        PROVE  \/ x \in bugs'[requests'[x].bug].files[requests'[x].column]
               \/ \E y \in Requests : TakenBy(x, y)'
    <3>1. CASE x = r
      BY <2>2, <2>3, <2>7, <3>1
    <3>2. CASE x # r
      <4>1. requests'[x] = requests[x]
        BY <2>3, <3>2
      <4>2. requests[x].bug \in Bugs /\ requests[x].column \in Columns
        BY <2>7, <4>1 DEF Attachments, ColumnOf
      <4>3. CASE \E y \in Requests : TakenBy(x, y)
        <5>1. PICK y \in Requests : TakenBy(x, y)
          BY <4>3
        <5>2. y # r /\ requests'[y] = requests[y]
          BY <2>3, <5>1 DEF TakenBy
        <5> QED BY <4>1, <5>1, <5>2 DEF TakenBy
      <4>4. CASE x \in bugs[requests[x].bug].files[requests[x].column]
        <5>1. CASE \/ requests[x].bug # b
                   \/ row.files[requests[x].column] = bugs[b].files[requests[x].column]
          BY <2>3, <4>1, <4>2, <4>4, <5>1
        <5>2. CASE /\ requests[x].bug = b /\ requests[x].column = requests[r].column
                   /\ row.files[requests[r].column] = requests[r].files \cup {r}
          <6>1. CASE x \in requests[r].files
            BY <2>3, <4>1, <5>2, <6>1
          <6>2. CASE x \notin requests[r].files
            <7>1. r \notin requests[x].files
              BY DEF Attachments, FilesDone, Done
            <7> QED BY <2>2, <2>3, <3>2, <4>1, <5>2, <6>2, <7>1 DEF TakenBy
          <6> QED BY <6>1, <6>2
        <5> QED BY <4>2, <5>1, <5>2 DEF b
      <4> QED BY <2>7, <4>1, <4>3, <4>4 DEF Attachments, LostInOverlapOnly, TakenBy
    <3> QED BY <3>1, <3>2
  <2>8. LostInOverlapOnly'
    BY <2>7 DEF LostInOverlapOnly, TakenBy
  <2>9. (\A x \in Requests : ColumnOf(requests[x]))'
    BY <2>6
  <2>10. Done' = Done \cup {r}
    BY <2>2, <2>3 DEF Done
  <2>11. FilesDone'
    <3>1. \A x \in Requests : requests'[x].files \subseteq Done'
      BY <2>2, <2>3, <2>10 DEF Attachments, FilesDone
    <3>2. \A k \in Columns : row.files[k] \subseteq Done'
      BY <2>10 DEF Attachments, FilesDone, b
    <3>3. \A x \in Bugs, k \in Columns : bugs'[x].files[k] \subseteq Done'
      BY <2>3, <2>10, <3>2 DEF Attachments, FilesDone
    <3> QED BY <3>1, <3>3 DEF FilesDone
  <2> QED BY <2>8, <2>9, <2>11 DEF Attachments
<1> QED BY <1>1, <1>2

\* Calls begin, and move on to their write.
LEMMA AttachmentsCalled ==
  ASSUME TypeOK, Attachments, NEW r \in Requests,
         \/ \E b \in Bugs : \/ \E to \in Statuses \cup {None} : Update(r, b, to)
                            \/ Assign(r, b)
                            \/ \E k \in Columns : AddAttachment(r, b, k)
         \/ CheckLifecycle(r) \/ LogChange(r) \/ Fail(r)
  PROVE  Attachments'
<1>0. requests[r] \in Request /\ ColumnOf(requests[r]) /\ requests[r].files \subseteq Done
  BY DEF TypeOK, Attachments, FilesDone
<1>1. ASSUME NEW b \in Bugs, NEW to \in Statuses \cup {None}, Update(r, b, to)
      PROVE  Attachments'
  <2> DEFINE q == [NoRequest EXCEPT !.bug = b, !.to = to, !.seen = bugs[b].status,
                     !.pc = IF ~There(b) THEN "lost"
                            ELSE IF to \in {None, bugs[b].status} THEN "write" ELSE "check"]
  <2>1. q.pc # "done" /\ ColumnOf(q) /\ q.files \subseteq Done
    BY DEF ColumnOf, NoRequest, Attachments, FilesDone
  <2>2. requests[r].pc # "done" /\ requests' = [requests EXCEPT ![r] = q] /\ bugs' = bugs
    BY <1>1 DEF Update, Calls
  <2> HIDE DEF q
  <2> QED BY <2>1, <2>2, AttachmentsStay
<1>2. ASSUME NEW b \in Bugs, Assign(r, b) PROVE Attachments'
  <2> DEFINE q == [NoRequest EXCEPT !.bug = b, !.pc = IF There(b) THEN "assign" ELSE "lost"]
  <2>1. q.pc # "done" /\ ColumnOf(q) /\ q.files \subseteq Done
    BY DEF ColumnOf, NoRequest, Attachments, FilesDone
  <2>2. requests[r].pc # "done" /\ requests' = [requests EXCEPT ![r] = q] /\ bugs' = bugs
    BY <1>2 DEF Assign, Calls
  <2> HIDE DEF q
  <2> QED BY <2>1, <2>2, AttachmentsStay
<1>3. ASSUME NEW b \in Bugs, NEW k \in Columns, AddAttachment(r, b, k) PROVE Attachments'
  <2> DEFINE q == [NoRequest EXCEPT !.bug = b, !.column = k, !.files = bugs[b].files[k],
                     !.pc = IF There(b) THEN "attach" ELSE "lost"]
  <2>1. q.pc # "done" /\ ColumnOf(q) /\ q.files \subseteq Done
    BY DEF ColumnOf, NoRequest, Attachments, FilesDone
  <2>2. requests[r].pc # "done" /\ requests' = [requests EXCEPT ![r] = q] /\ bugs' = bugs
    BY <1>3 DEF AddAttachment, Calls
  <2> HIDE DEF q
  <2> QED BY <2>1, <2>2, AttachmentsStay
<1>4. CASE CheckLifecycle(r)
  <2> DEFINE b == requests[r].bug
             q == [requests[r] EXCEPT !.seen = bugs[b].status,
                     !.pc = IF ~There(b) THEN "lost"
                            ELSE IF requests[r].to \notin StatusFlow[bugs[b].status]
                                 THEN "refused" ELSE "log"]
  <2>1. requests[r].pc = "check" /\ requests' = [requests EXCEPT ![r] = q] /\ bugs' = bugs
    BY <1>4 DEF CheckLifecycle
  <2>2. q.pc # "done" /\ ColumnOf(q) /\ q.files \subseteq Done
    BY <1>0, <2>1 DEF ColumnOf, Request
  <2> HIDE DEF q
  <2> QED BY <2>1, <2>2, AttachmentsStay
<1>5. CASE LogChange(r)
  <2> DEFINE q == [requests[r] EXCEPT !.pc = "write"]
  <2>1. requests[r].pc = "log" /\ requests' = [requests EXCEPT ![r] = q] /\ bugs' = bugs
    BY <1>5 DEF LogChange, GoTo, TypeOK
  <2>2. q.pc # "done" /\ ColumnOf(q) /\ q.files \subseteq Done
    BY <1>0, <2>1 DEF ColumnOf, Request
  <2> HIDE DEF q
  <2> QED BY <2>1, <2>2, AttachmentsStay
<1>6. CASE Fail(r)
  <2> DEFINE q == [requests[r] EXCEPT !.pc = "lost"]
  <2>1. requests[r].pc # "done" /\ requests' = [requests EXCEPT ![r] = q] /\ bugs' = bugs
    BY <1>6 DEF Fail, GoTo, TypeOK
  <2>2. q.pc # "done" /\ ColumnOf(q) /\ q.files \subseteq Done
    BY <1>0 DEF ColumnOf, Request
  <2> HIDE DEF q
  <2> QED BY <2>1, <2>2, AttachmentsStay
<1> QED BY <1>1, <1>2, <1>3, <1>4, <1>5, <1>6

\* The three writes: only addAttachment's touches a column.
LEMMA AttachmentsAreWritten ==
  ASSUME IInv, Attachments, NEW r \in Requests,
         WriteUpdate(r) \/ WriteAssign(r) \/ WriteAttachment(r)
  PROVE  Attachments'
<1> DEFINE b == requests[r].bug
           k == requests[r].column
<1>0. /\ TypeOK /\ b \in Bugs /\ bugs[b] \in Bug /\ requests[r] \in Request
      /\ ColumnOf(requests[r])
  BY DEF IInv, Pending, PendingAt, TypeOK, Attachments, WriteUpdate, WriteAssign,
         WriteAttachment
<1>1. CASE WriteUpdate(r)
  <2> DEFINE to == IF requests[r].to = None THEN bugs[b].status ELSE requests[r].to
             row == [bugs[b] EXCEPT !.status = to]
  <2>1. requests[r].to = None \/ requests[r].to \in Statuses
    BY <1>1 DEF WriteUpdate, IInv, Pending, PendingAt
  <2>2. to \in Statuses
    BY <1>0, <2>1 DEF Bug
  <2>3. row \in Bug /\ row.files = bugs[b].files
    BY <1>0, <2>2 DEF Bug
  <2>4. Row(r, row) /\ requests[r].pc = "write" /\ requests[r].column = None
    BY <1>0, <1>1 DEF WriteUpdate, ColumnOf
  <2> HIDE DEF row
  <2> QED BY <1>0, <2>3, <2>4, AttachmentsWritten
<1>2. CASE WriteAssign(r)
  <2> DEFINE row == [bugs[b] EXCEPT !.status = "IN_PROGRESS", !.assigned = TRUE]
  <2>1. row \in Bug /\ row.files = bugs[b].files
    BY <1>0 DEF Bug, Statuses
  <2>2. Row(r, row) /\ requests[r].pc = "assign" /\ requests[r].column = None
    BY <1>0, <1>2 DEF WriteAssign, ColumnOf
  <2> HIDE DEF row
  <2> QED BY <1>0, <2>1, <2>2, AttachmentsWritten
<1>3. CASE WriteAttachment(r)
  <2> DEFINE files == [bugs[b].files EXCEPT ![k] = requests[r].files \cup {r}]
             row == [bugs[b] EXCEPT !.files = files]
  <2>1. k \in Columns
    BY <1>3 DEF WriteAttachment, IInv, Pending, PendingAt
  <2>2. /\ files \in [Columns -> SUBSET Requests]
        /\ files[k] = requests[r].files \cup {r}
        /\ \A x \in Columns \ {k} : files[x] = bugs[b].files[x]
    BY <1>0, <2>1 DEF Bug, Request
  <2>3. row \in Bug /\ row.files = files
    BY <1>0, <2>2 DEF Bug
  <2>4. Row(r, row) /\ requests[r].pc = "attach"
    BY <1>3 DEF WriteAttachment
  <2> HIDE DEF row, files
  <2>5. \A x \in Columns : \/ row.files[x] = bugs[b].files[x]
                           \/ x = k /\ row.files[x] = requests[r].files \cup {r}
    BY <2>2, <2>3
  <2>6. r \in row.files[k]
    BY <2>2, <2>3
  <2> QED BY <1>0, <2>3, <2>4, <2>5, <2>6, AttachmentsWritten
<1> QED BY <1>1, <1>2, <1>3

\* Every step keeps what Attachments says.
LEMMA NextAttachments == IInv /\ Attachments /\ [Next]_vars => Attachments'
<1> SUFFICES ASSUME IInv, Attachments, [Next]_vars PROVE Attachments'
  OBVIOUS
<1>t. TypeOK
  BY DEF IInv
<1>1. ASSUME NEW b \in Bugs, Create(b) \/ Delete(b) PROVE Attachments'
  <2>1. PICK there \in {"yes", "deleted"} : bugs' = [bugs EXCEPT ![b].there = there]
    BY <1>1 DEF Create, Delete
  <2>2. requests' = requests
    BY <1>1 DEF Create, Delete
  <2>3. \A x \in Bugs : bugs'[x].files = bugs[x].files
    BY <1>t, <2>1 DEF TypeOK, Bug
  <2> QED BY <2>2, <2>3 DEF Attachments, ColumnOf, LostInOverlapOnly, FilesDone, Done
<1>2. CASE \E r \in Requests, b \in Bugs :
             \/ \E to \in Statuses \cup {None} : Update(r, b, to)
             \/ Assign(r, b)
             \/ \E k \in Columns : AddAttachment(r, b, k)
  BY <1>2, <1>t, AttachmentsCalled
<1>3. CASE \E r \in Requests : CheckLifecycle(r) \/ LogChange(r) \/ Fail(r)
  BY <1>3, <1>t, AttachmentsCalled
<1>4. CASE \E r \in Requests : WriteUpdate(r) \/ WriteAssign(r) \/ WriteAttachment(r)
  BY <1>4, AttachmentsAreWritten
<1>5. CASE UNCHANGED vars
  BY <1>5 DEF vars, Attachments, ColumnOf, LostInOverlapOnly, FilesDone, Done
<1> QED BY <1>1, <1>2, <1>3, <1>4, <1>5 DEF Next

\* addAttachment: an attachment whose call succeeded is on the bug, unless a call that
\* overlapped it wrote back a column it had read before.
THEOREM AttachmentsAccounted == Spec => []LostInOverlapOnly
<1>1. Init => Attachments
  BY DEF Init, Attachments, ColumnOf, LostInOverlapOnly, NoRequest, FilesDone, Done, NewBug
<1>2. Attachments => LostInOverlapOnly
  BY DEF Attachments
<1> QED BY <1>1, <1>2, NextAttachments, Invariance, PTL DEF Spec
=============================================================================
