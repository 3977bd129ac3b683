---------------------------- MODULE RecordsProofs ----------------------------
(***************************************************************************)
(* What a browser shows and sends, what the scheduler queues and what the  *)
(* test library lists and remembers, for any number of users, tabs,        *)
(* requests, rows and tests and any bound: an inductive invariant of each  *)
(* of BrowserSession, Schedules and TestLibrary, and with that of          *)
(* BugTrackingProofs the type invariant of MCRecords.                      *)
(***************************************************************************)
EXTENDS MCRecords, BugTrackingProofs, FiniteSetTheorems

-----------------------------------------------------------------------------
(* Schedules: what the rows say and what the queue has.                    *)

\* A call that has still to add a job has written its row and pattern.
AddsWritten ==
  \A c \in SchedCalls : schedCalls[c].pc = "add" =>
    /\ schedCalls[c].row \in SchedRows /\ schedCalls[c].pattern \in Patterns
    /\ schedCalls[c].pattern \in schedPast[schedCalls[c].row]

SchedInv == SchedTypeOK /\ AddsWritten /\ SchedulesHaveJobs

\* A set of at most one element, as JobsWereScheduled counts it.
LEMMA AtMostOne ==
  /\ Cardinality({}) <= 1
  /\ \A x : Cardinality({x}) <= 1
  BY FS_EmptySet, FS_Singleton

SchedPc == {"add", "error", "rejected"}

-----------------------------------------------------------------------------
\* No row, no call and no job there is nothing to explain.
LEMMA SchedInitial == SchedInit => SchedInv
<1> SUFFICES ASSUME SchedInit PROVE SchedInv
  OBVIOUS
<1> USE SchedAssumption DEF SchedInit
<1>1. SchedTypeOK
  BY DEF SchedTypeOK, SchedRow, SchedCall, Crons
<1>2. AddsWritten
  BY DEF AddsWritten
<1>3. ReadableHaveJobs /\ MalformedHaveNone
  BY DEF ReadableHaveJobs, MalformedHaveNone
<1>4. JobsWereScheduled
  BY AtMostOne DEF JobsWereScheduled
<1> QED BY <1>1, <1>2, <1>3, <1>4 DEF SchedInv, SchedulesHaveJobs

\* A call that begins leaves where the others are.
LEMMA OthersStay ==
  ASSUME SchedInv, NEW c \in SchedCalls, schedCalls[c].pc = "new",
         \A d \in SchedCalls : d # c => schedCalls'[d] = schedCalls[d]
  PROVE  \A pc \in SchedPc, q \in SchedRows, x \in Patterns :
           CallAt(pc, q, x) => CallAt(pc, q, x)'
<1> SUFFICES ASSUME NEW pc \in SchedPc, NEW q \in SchedRows, NEW x \in Patterns, CallAt(pc, q, x)
             PROVE  CallAt(pc, q, x)'
  OBVIOUS
<1>1. PICK d \in SchedCalls : schedCalls[d] = [pc |-> pc, row |-> q, pattern |-> x]
  BY DEF CallAt
<1>2. d # c
  BY <1>1 DEF SchedPc
<1> QED BY <1>1, <1>2 DEF CallAt

\* A row that is written, cleared or deleted: a pattern that is new in it is one a call has
\* still to add.
LEMMA RowsKeep ==
  ASSUME SchedInv, SchedTypeOK',
         NEW c \in SchedCalls, schedCalls[c].pc = "new",
         \A d \in SchedCalls : d # c => schedCalls'[d] = schedCalls[d],
         schedRepeats' = schedRepeats,
         \A q \in SchedRows : schedPast[q] \subseteq schedPast'[q],
         \A q \in SchedRows :
           \/ schedRows'[q].schedule \in {schedRows[q].schedule, NoSchedule}
           \/ \E x \in Patterns : schedRows'[q].schedule = x /\ CallAt("add", q, x)'
  PROVE  SchedulesHaveJobs'
<1>1. \A pc \in SchedPc, q \in SchedRows, x \in Patterns :
        CallAt(pc, q, x) => CallAt(pc, q, x)'
  BY OthersStay
<1>2. NoSchedule \notin Patterns /\ Malformed \subseteq Patterns
  BY SchedAssumption
<1>3. ReadableHaveJobs'
  <2> SUFFICES ASSUME NEW q \in SchedRows, NEW x \in Patterns \ Malformed,
                      schedRows'[q].schedule = x
               PROVE  \/ schedRepeats'[x] # {}
                      \/ CallAt("add", q, x)' \/ CallAt("error", q, x)'
    BY DEF ReadableHaveJobs, CallAt
  <2>1. CASE schedRows'[q].schedule = schedRows[q].schedule
    BY <1>1, <2>1 DEF SchedInv, SchedulesHaveJobs, ReadableHaveJobs, SchedPc
  <2>2. CASE CallAt("add", q, x)'
    BY <2>2
  <2> QED BY <1>2, <2>1, <2>2
<1>4. MalformedHaveNone'
  <2>1. \A x \in Malformed : schedRepeats'[x] = {}
    BY DEF SchedInv, SchedulesHaveJobs, MalformedHaveNone
  <2> SUFFICES ASSUME NEW q \in SchedRows, NEW x \in Malformed, schedRows'[q].schedule = x
               PROVE  CallAt("add", q, x)' \/ CallAt("rejected", q, x)'
    BY <2>1 DEF MalformedHaveNone, CallAt
  <2>2. CASE schedRows'[q].schedule = schedRows[q].schedule
    BY <1>1, <1>2, <2>2 DEF SchedInv, SchedulesHaveJobs, MalformedHaveNone, SchedPc
  <2>3. CASE CallAt("add", q, x)'
    BY <2>3
  <2> QED BY <1>2, <2>2, <2>3
<1>5. JobsWereScheduled'
  <2>1. \A x \in Patterns : schedRepeats[x] \subseteq SchedRows
    BY DEF SchedInv, SchedTypeOK
  <2> QED BY <2>1 DEF SchedInv, SchedulesHaveJobs, JobsWereScheduled
<1> QED BY <1>3, <1>4, <1>5 DEF SchedulesHaveJobs

\* Writing a row: create, and update with or without a pattern.
LEMMA WritesKeeps ==
  ASSUME SchedInv, NEW c \in SchedCalls, NEW r \in SchedRows, NEW p \in Crons, Writes(c, r, p)
  PROVE  SchedInv'
<1> USE SchedAssumption DEF SchedInv, Writes
<1> DEFINE call == [pc |-> IF p = NoSchedule THEN "done" ELSE "add", row |-> r, pattern |-> p]
           row == [state |-> "there",
                   schedule |-> IF p = NoSchedule THEN schedRows[r].schedule ELSE p]
<1>0. /\ call \in SchedCall /\ row \in SchedRow
      /\ schedPast[r] \cup ({p} \ {NoSchedule}) \in SUBSET Patterns
  BY DEF SchedTypeOK, SchedCall, SchedRow, Crons
<1>1. SchedTypeOK'
  BY <1>0 DEF SchedTypeOK
<1>2. AddsWritten'
  <2> SUFFICES ASSUME NEW d \in SchedCalls, schedCalls'[d].pc = "add"
               PROVE  /\ schedCalls'[d].row \in SchedRows /\ schedCalls'[d].pattern \in Patterns
                      /\ schedCalls'[d].pattern \in schedPast'[schedCalls'[d].row]
    BY DEF AddsWritten
  <2>1. CASE d = c
    <3>1. schedCalls'[d] = call /\ p # NoSchedule
      BY <2>1 DEF SchedTypeOK
    <3> QED BY <3>1 DEF SchedTypeOK, Crons
  <2>2. CASE d # c
    <3>1. schedCalls'[d] = schedCalls[d]
      BY <2>2 DEF SchedTypeOK
    <3>2. \A q \in SchedRows : schedPast[q] \subseteq schedPast'[q]
      BY DEF SchedTypeOK
    <3> QED BY <3>1, <3>2 DEF AddsWritten
  <2> QED BY <2>1, <2>2
<1>3. p # NoSchedule => CallAt("add", r, p)'
  BY DEF CallAt, SchedTypeOK
<1>4. \A q \in SchedRows :
        \/ schedRows'[q].schedule = schedRows[q].schedule
        \/ q = r /\ schedRows'[q].schedule = p /\ p # NoSchedule
  BY DEF SchedTypeOK
<1>5. /\ schedCalls[c].pc = "new" /\ schedRepeats' = schedRepeats
      /\ \A d \in SchedCalls : d # c => schedCalls'[d] = schedCalls[d]
      /\ \A q \in SchedRows : schedPast[q] \subseteq schedPast'[q]
  BY DEF SchedTypeOK
<1>6. SchedulesHaveJobs'
  <2>1. \A q \in SchedRows :
          \/ schedRows'[q].schedule \in {schedRows[q].schedule, NoSchedule}
          \/ \E x \in Patterns : schedRows'[q].schedule = x /\ CallAt("add", q, x)'
    BY <1>3, <1>4 DEF Crons
  <2>2. SchedInv
    OBVIOUS
  <2> HIDE DEF SchedInv, Writes
  <2> QED BY <1>1, <1>5, <2>1, <2>2, RowsKeep
<1> QED BY <1>1, <1>2, <1>6

\* A row that is cleared or deleted leaves everything that was added, and everything still to
\* be added.
LEMMA TakesKeep ==
  ASSUME SchedInv, NEW c \in SchedCalls, NEW r \in SchedRows,
         ClearSchedule(c, r) \/ DeleteSchedule(c, r)
  PROVE  SchedInv'
<1>0. PICK row \in SchedRow :
        /\ schedRows' = [schedRows EXCEPT ![r] = row] /\ row.schedule = NoSchedule
        /\ schedCalls' = [schedCalls EXCEPT ![c].pc = "done"] /\ schedCalls[c].pc = "new"
        /\ UNCHANGED <<schedRepeats, schedPast, schedFaults>>
  <2>1. CASE ClearSchedule(c, r)
    <3>1. schedRows[r] \in SchedRow
      BY DEF SchedInv, SchedTypeOK
    <3>2. /\ [schedRows[r] EXCEPT !.schedule = NoSchedule] \in SchedRow
          /\ [schedRows[r] EXCEPT !.schedule = NoSchedule].schedule = NoSchedule
      BY <3>1 DEF SchedRow, Crons
    <3> QED BY <2>1, <3>2 DEF ClearSchedule
  <2>2. CASE DeleteSchedule(c, r)
    <3>1. [state |-> "deleted", schedule |-> NoSchedule] \in SchedRow
      BY DEF SchedRow, Crons
    <3> QED BY <2>2, <3>1 DEF DeleteSchedule
  <2> QED BY <2>1, <2>2
<1>1. SchedTypeOK'
  BY <1>0 DEF SchedInv, SchedTypeOK, SchedCall
<1>2. /\ schedCalls[c].pc = "new" /\ schedRepeats' = schedRepeats /\ schedPast' = schedPast
      /\ \A d \in SchedCalls : d # c => schedCalls'[d] = schedCalls[d]
      /\ schedCalls'[c].pc = "done"
      /\ \A q \in SchedRows : schedRows'[q].schedule \in {schedRows[q].schedule, NoSchedule}
  BY <1>0 DEF SchedInv, SchedTypeOK, SchedCall
<1>3. AddsWritten'
  BY <1>2 DEF SchedInv, AddsWritten
<1>4. SchedulesHaveJobs'
  BY <1>1, <1>2, RowsKeep
<1> QED BY <1>1, <1>3, <1>4 DEF SchedInv

\* A call that was to add its job gets there, is rejected or fails: its pattern has one job
\* or the call says how it ended.
LEMMA AddKeeps ==
  ASSUME SchedInv, NEW c \in SchedCalls,
         ScheduleJob(c) \/ RejectPattern(c) \/ ScheduleFails(c)
  PROVE  SchedInv'
<1>0. PICK r \in SchedRows, p \in Patterns :
        p \in schedPast[r] /\ schedCalls[c] = [pc |-> "add", row |-> r, pattern |-> p]
  <2>1. schedCalls[c].pc = "add" /\ schedCalls[c] \in SchedCall
    BY DEF ScheduleJob, RejectPattern, ScheduleFails, SchedInv, SchedTypeOK
  <2> QED BY <2>1 DEF SchedInv, AddsWritten, SchedCall
<1>1. PICK pc \in {"done", "rejected", "error"} :
        /\ schedCalls' = [schedCalls EXCEPT ![c].pc = pc]
        /\ pc = "rejected" <=> p \in Malformed
        /\ ScheduleJob(c) => pc = "done"
        /\ pc = "done" => ScheduleJob(c)
  BY <1>0 DEF ScheduleJob, RejectPattern, ScheduleFails
<1>2. PICK jobs \in {schedRepeats[p], {r}} :
        /\ schedRepeats' = [schedRepeats EXCEPT ![p] = jobs]
        /\ schedRepeats[p] # {} => jobs # {}
        /\ pc = "done" => jobs # {}
        /\ p \in Malformed => jobs = schedRepeats[p]
  <2>0. schedCalls[c].pattern = p /\ schedCalls[c].row = r
    BY <1>0
  <2>1. CASE RejectPattern(c)
    <3>1. schedRepeats' = [schedRepeats EXCEPT ![p] = schedRepeats[p]]
      BY <2>1 DEF RejectPattern, SchedInv, SchedTypeOK
    <3>2. p \in Malformed
      BY <1>0, <2>1 DEF RejectPattern
    <3> QED BY <1>1, <3>1, <3>2
  <2>2. CASE ScheduleJob(c)
    <3>1. PICK jobs \in JobsAfter(schedCalls[c]) :
            schedRepeats' = [schedRepeats EXCEPT ![schedCalls[c].pattern] = jobs]
      BY ONLY <2>2 DEF ScheduleJob
    <3>3. jobs \in {schedRepeats[p], {r}} /\ jobs # {}
      BY ONLY <2>0, <3>1 DEF JobsAfter
    <3>2. p \notin Malformed
      BY <1>0, <2>2 DEF ScheduleJob
    <3> QED BY <2>0, <3>1, <3>2, <3>3
  <2>3. CASE ScheduleFails(c)
    <3>1. pc # "done"
      BY <1>1, <2>3 DEF ScheduleJob, ScheduleFails, SchedInv, SchedTypeOK, SchedCall
    <3>2. PICK jobs \in JobsAfter(schedCalls[c]) \cup {schedRepeats[schedCalls[c].pattern]} :
            schedRepeats' = [schedRepeats EXCEPT ![schedCalls[c].pattern] = jobs]
      BY ONLY <2>3 DEF ScheduleFails
    <3>4. /\ jobs \in {schedRepeats[p], {r}}
          /\ jobs # {} \/ jobs = schedRepeats[p]
      BY ONLY <2>0, <3>2 DEF JobsAfter
    <3>3. p \notin Malformed
      BY <1>0, <2>3 DEF ScheduleFails
    <3> QED BY <2>0, <3>1, <3>2, <3>3, <3>4
  <2> QED BY <2>1, <2>2, <2>3
<1>3. /\ UNCHANGED <<schedRows, schedPast>> /\ schedFaults' \in 0..MaxSchedFaults
      /\ schedCalls[c].pc = "add"
  BY SchedAssumption DEF ScheduleJob, RejectPattern, ScheduleFails, SchedInv, SchedTypeOK
<1>5. SchedTypeOK'
  BY <1>1, <1>2, <1>3, <1>0 DEF SchedInv, SchedTypeOK, SchedCall
<1>6. /\ \A d \in SchedCalls : d # c => schedCalls'[d] = schedCalls[d]
      /\ schedCalls'[c] = [pc |-> pc, row |-> r, pattern |-> p]
  BY <1>1, <1>0 DEF SchedInv, SchedTypeOK
<1>7. AddsWritten'
  BY <1>3, <1>6 DEF SchedInv, AddsWritten
<1>8. \A k \in SchedPc, q \in SchedRows, x \in Patterns :
        CallAt(k, q, x) => CallAt(k, q, x)' \/ (k = "add" /\ q = r /\ x = p)
  <2> SUFFICES ASSUME NEW k \in SchedPc, NEW q \in SchedRows, NEW x \in Patterns,
                      CallAt(k, q, x), ~(k = "add" /\ q = r /\ x = p)
               PROVE  CallAt(k, q, x)'
    OBVIOUS
  <2>1. PICK d \in SchedCalls : schedCalls[d] = [pc |-> k, row |-> q, pattern |-> x]
    BY DEF CallAt
  <2>2. d # c
    BY <1>0, <2>1
  <2> QED BY <1>6, <2>1, <2>2 DEF CallAt
<1>9. /\ pc = "error" => CallAt("error", r, p)'
      /\ pc = "rejected" => CallAt("rejected", r, p)'
  BY <1>6 DEF CallAt
<1>10. \A x \in Patterns : /\ x # p => schedRepeats'[x] = schedRepeats[x]
                           /\ schedRepeats[x] # {} => schedRepeats'[x] # {}
                           /\ schedRepeats'[p] = jobs
  BY <1>2, <1>0 DEF SchedInv, SchedTypeOK
<1>11. ReadableHaveJobs'
  <2> SUFFICES ASSUME NEW q \in SchedRows, NEW x \in Patterns \ Malformed,
                      schedRows'[q].schedule = x
               PROVE  \/ schedRepeats'[x] # {}
                      \/ CallAt("add", q, x)' \/ CallAt("error", q, x)'
    BY DEF ReadableHaveJobs, CallAt
  <2>1. schedRepeats[x] # {} \/ CallAt("add", q, x) \/ CallAt("error", q, x)
    BY <1>3 DEF SchedInv, SchedulesHaveJobs, ReadableHaveJobs
  <2>2. CASE q = r /\ x = p
    BY <1>1, <1>2, <1>9, <1>10, <2>2
  <2>3. CASE ~(q = r /\ x = p)
    BY <1>8, <1>10, <2>1, <2>3 DEF SchedPc
  <2> QED BY <2>2, <2>3
<1>12. MalformedHaveNone'
  <2>1. \A x \in Malformed : schedRepeats[x] = {}
    BY DEF SchedInv, SchedulesHaveJobs, MalformedHaveNone
  <2>2. \A x \in Malformed : schedRepeats'[x] = {}
    BY <1>2, <1>10, <2>1, SchedAssumption
  <2> SUFFICES ASSUME NEW q \in SchedRows, NEW x \in Malformed, schedRows'[q].schedule = x
               PROVE  CallAt("add", q, x)' \/ CallAt("rejected", q, x)'
    BY <2>2 DEF MalformedHaveNone, CallAt
  <2>3. CallAt("add", q, x) \/ CallAt("rejected", q, x)
    BY <1>3 DEF SchedInv, SchedulesHaveJobs, MalformedHaveNone
  <2>4. CASE q = r /\ x = p
    BY <1>1, <1>9, <2>4
  <2>5. CASE ~(q = r /\ x = p)
    BY <1>8, <2>3, <2>5, SchedAssumption DEF SchedPc
  <2> QED BY <2>4, <2>5
<1>13. JobsWereScheduled'
  <2> SUFFICES ASSUME NEW x \in Patterns
               PROVE  /\ Cardinality(schedRepeats'[x]) <= 1
                      /\ \A q \in schedRepeats'[x] : x \in schedPast'[q]
    BY DEF JobsWereScheduled
  <2>1. /\ Cardinality(schedRepeats[x]) <= 1
        /\ \A q \in schedRepeats[x] : x \in schedPast[q]
    BY DEF SchedInv, SchedulesHaveJobs, JobsWereScheduled
  <2>2. schedRepeats'[x] = schedRepeats[x] \/ (x = p /\ schedRepeats'[x] = {r})
    BY <1>2, <1>10
  <2> QED BY <1>3, <1>0, <2>1, <2>2, AtMostOne
<1> QED BY <1>5, <1>7, <1>11, <1>12, <1>13 DEF SchedInv, SchedulesHaveJobs

-----------------------------------------------------------------------------
\* Every step of SchedulerService keeps the invariant.
LEMMA SchedInductive == SchedInv /\ [SchedNext]_schedVars => SchedInv'
<1> SUFFICES ASSUME SchedInv, [SchedNext]_schedVars PROVE SchedInv'
  OBVIOUS
<1>1. CASE SchedNext
  <2> PICK c \in SchedCalls :
         \/ \E r \in SchedRows :
              \/ ClearSchedule(c, r) \/ DeleteSchedule(c, r)
              \/ \E p \in Crons : CreateSchedule(c, r, p) \/ UpdateSchedule(c, r, p)
         \/ ScheduleJob(c) \/ RejectPattern(c) \/ ScheduleFails(c)
    BY <1>1 DEF SchedNext
  <2>1. ASSUME NEW r \in SchedRows, ClearSchedule(c, r) \/ DeleteSchedule(c, r)
        PROVE  SchedInv'
    BY <2>1, TakesKeep
  <2>2. ASSUME NEW r \in SchedRows, NEW p \in Crons,
               CreateSchedule(c, r, p) \/ UpdateSchedule(c, r, p)
        PROVE  SchedInv'
    BY <2>2, WritesKeeps DEF CreateSchedule, UpdateSchedule
  <2>3. CASE ScheduleJob(c) \/ RejectPattern(c) \/ ScheduleFails(c)
    BY <2>3, AddKeeps
  <2> QED BY <2>1, <2>2, <2>3
<1>2. CASE UNCHANGED schedVars
  BY <1>2 DEF SchedInv, schedVars, SchedTypeOK, AddsWritten, SchedulesHaveJobs,
     ReadableHaveJobs, MalformedHaveNone, JobsWereScheduled, CallAt
<1> QED BY <1>1, <1>2

\* SchedulerService: a row with a pattern that cron-parser reads has a repeatable job in the
\* queue, its own or that of a row with the same pattern, unless the call that wrote it is
\* still to add it or failed at Redis; one with a pattern it throws on never has; and a
\* pattern's job is one, for a row that was given the pattern.
THEOREM SchedulesAlwaysHaveJobs == SchedSpec => []SchedulesHaveJobs
<1>1. SchedInv => SchedulesHaveJobs
  BY DEF SchedInv
<1> QED BY SchedInitial, SchedInductive, <1>1, PTL DEF SchedSpec

-----------------------------------------------------------------------------
(* BrowserSession: whose tokens a browser sends, and why a session ends.   *)

\* The tokens 1..m have been issued, and no others.
Ordered(tokens, n) ==
  \E m \in 0..n : \A k \in 1..n : tokens[k].state # "none" <=> k <= m

\* A token that was issued stays, and stays its owner's.
OwnersKept(old, new, n) ==
  \A k \in 1..n : old[k].state # "none" => new[k].state # "none" /\ new[k].owner = old[k].owner

\* The refresh token in localStorage is that of the user there; so is the access token, until
\* an exchange of another session is stored.
StoredKnown(stored, access, refresh, crossed) ==
  /\ stored.user = Nobody <=> stored.refresh = 0
  /\ stored.refresh # 0 => /\ refresh[stored.refresh].state # "none"
                           /\ refresh[stored.refresh].owner = stored.user
  /\ stored.access # 0 => access[stored.access].state # "none"
  /\ ~crossed /\ stored.user = Nobody => stored.access = 0
  /\ ~crossed /\ stored.user # Nobody =>
       stored.access # 0 /\ access[stored.access].owner = stored.user

\* A request exchanges a refresh token there is, that of the session it began in, for an
\* access token of its owner.
RequestKnown(q, stored, access, refresh) ==
  /\ q.pc \in {"exchange", "granted"} =>
       /\ q.refresh # 0 /\ refresh[q.refresh].state # "none"
       /\ q.now => q.refresh = stored.refresh
  /\ q.pc = "granted" =>
       /\ q.access # 0 /\ access[q.access].state # "none"
       /\ access[q.access].owner = refresh[q.refresh].owner

\* A tab shows the user of the session it knows.
TabKnown(t, stored) == t.user # Nobody /\ t.now => t.user = stored.user

TokensOrdered ==
  Ordered(sessAccess, MaxLogins + MaxExchanges) /\ Ordered(sessRefresh, MaxLogins)

RequestsKnown ==
  \A r \in SessRequests : RequestKnown(sessRequests[r], sessStored, sessAccess, sessRefresh)

SessInv ==
  /\ SessTypeOK /\ TokensOrdered
  /\ StoredKnown(sessStored, sessAccess, sessRefresh, sessCrossed)
  /\ RequestsKnown
  /\ \A t \in Tabs : TabKnown(sessTabs[t], sessStored)

-----------------------------------------------------------------------------
(* Tokens.                                                                 *)

\* The next token is one that has not been issued, and issuing it takes nothing away.
LEMMA NextIsNew ==
  ASSUME NEW n \in Nat, NEW tokens \in [1..n -> IssuedToken], Ordered(tokens, n),
         CanIssue(tokens), NEW u \in SessUsers \cup {Nobody}
  PROVE  /\ NextToken(tokens) \in 1..n
         /\ Issued(tokens, u) \in [1..n -> IssuedToken]
         /\ Issued(tokens, u)[NextToken(tokens)] = [owner |-> u, state |-> "live"]
         /\ OwnersKept(tokens, Issued(tokens, u), n)
         /\ Ordered(Issued(tokens, u), n)
<1>1. PICK m \in 0..n : \A k \in 1..n : tokens[k].state # "none" <=> k <= m
  BY DEF Ordered
<1>2. {k \in DOMAIN tokens : tokens[k].state # "none"} = 1..m
  BY <1>1
<1>3. Cardinality(1..m) = m
  BY FS_Interval
<1>4. NextToken(tokens) = m + 1
  BY <1>2, <1>3 DEF NextToken
<1>5. m < n
  BY <1>1 DEF CanIssue
<1>6. Issued(tokens, u) = [tokens EXCEPT ![m + 1] = [owner |-> u, state |-> "live"]]
  BY <1>4 DEF Issued
<1>7. [owner |-> u, state |-> "live"] \in IssuedToken
  BY DEF IssuedToken
<1>8. m + 1 \in 1..n
  BY <1>5
<1>9. Issued(tokens, u)[m + 1] = [owner |-> u, state |-> "live"]
  BY <1>6, <1>8
<1>10. Issued(tokens, u) \in [1..n -> IssuedToken]
  BY <1>6, <1>7, <1>8
<1>11. \A k \in 1..n : k # m + 1 => Issued(tokens, u)[k] = tokens[k]
  BY <1>6
<1>12. OwnersKept(tokens, Issued(tokens, u), n)
  BY <1>1, <1>11 DEF OwnersKept
<1>13. Ordered(Issued(tokens, u), n)
  <2>1. m + 1 \in 0..n
    BY <1>5
  <2>2. \A k \in 1..n : Issued(tokens, u)[k].state # "none" <=> k <= m + 1
    BY <1>1, <1>9, <1>11
  <2> QED BY <2>1, <2>2 DEF Ordered
<1> QED BY <1>4, <1>8, <1>9, <1>10, <1>12, <1>13

\* A token that goes, by its time or by an exchange, stays issued.
LEMMA GoneIsIssued ==
  ASSUME NEW n \in Nat, NEW tokens \in [1..n -> IssuedToken], Ordered(tokens, n),
         NEW k \in 1..n, tokens[k].state = "live"
  PROVE  LET new == [tokens EXCEPT ![k].state = "gone"]
         IN /\ new \in [1..n -> IssuedToken] /\ OwnersKept(tokens, new, n) /\ Ordered(new, n)
<1> DEFINE new == [tokens EXCEPT ![k].state = "gone"]
<1>1. \A j \in 1..n : j # k => new[j] = tokens[j]
  OBVIOUS
<1>2. new[k] = [tokens[k] EXCEPT !.state = "gone"]
  OBVIOUS
<1>3. tokens[k] \in IssuedToken
  OBVIOUS
<1>4. new[k] \in IssuedToken /\ new[k].state = "gone" /\ new[k].owner = tokens[k].owner
  BY <1>2, <1>3 DEF IssuedToken
<1>5. new \in [1..n -> IssuedToken]
  BY <1>1, <1>4
<1>6. OwnersKept(tokens, new, n)
  BY <1>1, <1>4 DEF OwnersKept
<1>7. Ordered(new, n)
  BY <1>1, <1>4 DEF Ordered
<1> QED BY <1>5, <1>6, <1>7

-----------------------------------------------------------------------------
(* What later tokens leave true.                                           *)

\* What localStorage holds stays known.
LEMMA StoredStays ==
  ASSUME NEW stored \in Stored, NEW crossed \in BOOLEAN,
         NEW access \in [AccessIds -> IssuedToken], NEW access2 \in [AccessIds -> IssuedToken],
         NEW refresh \in [RefreshIds -> IssuedToken],
         NEW refresh2 \in [RefreshIds -> IssuedToken],
         OwnersKept(access, access2, MaxLogins + MaxExchanges),
         OwnersKept(refresh, refresh2, MaxLogins),
         StoredKnown(stored, access, refresh, crossed)
  PROVE  StoredKnown(stored, access2, refresh2, crossed)
  BY DEF StoredKnown, OwnersKept, Stored, AccessIds, RefreshIds

\* A request stays known while its session lasts, or when it is told apart from the next.
LEMMA RequestStays ==
  ASSUME NEW q \in SessRequest, NEW stored \in Stored, NEW stored2 \in Stored,
         NEW access \in [AccessIds -> IssuedToken], NEW access2 \in [AccessIds -> IssuedToken],
         NEW refresh \in [RefreshIds -> IssuedToken],
         NEW refresh2 \in [RefreshIds -> IssuedToken],
         OwnersKept(access, access2, MaxLogins + MaxExchanges),
         OwnersKept(refresh, refresh2, MaxLogins),
         RequestKnown(q, stored, access, refresh),
         stored2.refresh = stored.refresh \/ ~q.now
  PROVE  RequestKnown(q, stored2, access2, refresh2)
  BY DEF RequestKnown, OwnersKept, SessRequest, AccessIds, RefreshIds

\* A request that is not on its way to new tokens says nothing of any.
LEMMA RequestPlain ==
  ASSUME NEW q, q.pc \notin {"exchange", "granted"}, NEW stored, NEW access, NEW refresh
  PROVE  RequestKnown(q, stored, access, refresh)
  BY DEF RequestKnown

\* A tab that knows of another session is still one.
LEMMA OtherSession ==
  ASSUME NEW tab \in Tab
  PROVE  [tab EXCEPT !.now = FALSE] \in Tab /\ ~[tab EXCEPT !.now = FALSE].now
  BY DEF Tab

\* Tokens that do not change stay their owners'.
LEMMA KeptBySame == \A tokens, n : OwnersKept(tokens, tokens, n)
  BY DEF OwnersKept

-----------------------------------------------------------------------------
\* Nothing is stored, and no token has been issued.
LEMMA SessInitial == SessInit => SessInv
<1> SUFFICES ASSUME SessInit PROVE SessInv
  OBVIOUS
<1> USE SessAssumption DEF SessInit
<1>1. SessTypeOK
  <2>1. NothingStored \in Stored /\ IdleRequest \in SessRequest /\ NotIssued \in IssuedToken
    BY DEF Stored, NothingStored, SessRequest, IdleRequest, IssuedToken, NotIssued
  <2>2. [at |-> "login", user |-> Nobody, now |-> TRUE] \in Tab
    BY DEF Tab
  <2>3. sessFaults \in 0..MaxSessFaults
    OBVIOUS
  <2> QED BY <2>1, <2>2, <2>3 DEF SessTypeOK
<1>2. TokensOrdered
  BY DEF TokensOrdered, Ordered, AccessIds, RefreshIds, NotIssued
<1>3. StoredKnown(sessStored, sessAccess, sessRefresh, sessCrossed)
  BY DEF StoredKnown, NothingStored
<1>4. RequestsKnown
  BY DEF RequestsKnown, RequestKnown, IdleRequest
<1>5. \A t \in Tabs : TabKnown(sessTabs[t], sessStored)
  BY DEF TabKnown
<1> QED BY <1>1, <1>2, <1>3, <1>4, <1>5 DEF SessInv

\* A login stores tokens of its own; other tabs and requests know of another session.
LEMMA LogInKeeps ==
  ASSUME SessInv, NEW t \in Tabs, NEW u \in SessUsers, LogIn(t, u)
  PROVE  SessInv'
<1> USE SessAssumption
<1> DEFINE a == NextToken(sessAccess)
           f == NextToken(sessRefresh)
<1>1. /\ sessAccess \in [1..(MaxLogins + MaxExchanges) -> IssuedToken]
      /\ sessRefresh \in [1..MaxLogins -> IssuedToken]
      /\ Ordered(sessAccess, MaxLogins + MaxExchanges) /\ Ordered(sessRefresh, MaxLogins)
      /\ CanIssue(sessAccess) /\ CanIssue(sessRefresh)
      /\ sessAccess' = Issued(sessAccess, u) /\ sessRefresh' = Issued(sessRefresh, u)
  BY DEF SessInv, SessTypeOK, TokensOrdered, AccessIds, RefreshIds, LogIn
<1>2. /\ a \in AccessIds /\ sessAccess' \in [AccessIds -> IssuedToken]
      /\ sessAccess'[a] = [owner |-> u, state |-> "live"]
      /\ OwnersKept(sessAccess, sessAccess', MaxLogins + MaxExchanges)
      /\ Ordered(sessAccess', MaxLogins + MaxExchanges)
  BY <1>1, NextIsNew, MaxLogins + MaxExchanges \in Nat DEF AccessIds
<1>3. /\ f \in RefreshIds /\ sessRefresh' \in [RefreshIds -> IssuedToken]
      /\ sessRefresh'[f] = [owner |-> u, state |-> "live"]
      /\ OwnersKept(sessRefresh, sessRefresh', MaxLogins)
      /\ Ordered(sessRefresh', MaxLogins)
  BY <1>1, NextIsNew, MaxLogins \in Nat DEF RefreshIds
<1>4. /\ sessStored' = [user |-> u, access |-> a, refresh |-> f]
      /\ sessTabs' = [TabsThen EXCEPT ![t] = [at |-> "app", user |-> u, now |-> TRUE]]
      /\ sessRequests' = Then(sessRequests) /\ sessCrossed' = FALSE
      /\ sessFaults' = sessFaults
  BY DEF LogIn
<1> HIDE DEF a, f
<1>5. sessStored' \in Stored
  BY <1>2, <1>3, <1>4 DEF Stored
<1>6. \A r \in SessRequests : /\ sessRequests'[r] = [sessRequests[r] EXCEPT !.now = FALSE]
                              /\ sessRequests[r] \in SessRequest
  BY <1>4 DEF Then, SessInv, SessTypeOK
<1>7. \A r \in SessRequests : sessRequests'[r] \in SessRequest
  BY <1>6 DEF SessRequest
<1>8. /\ \A s \in Tabs \ {t} : sessTabs'[s] = [sessTabs[s] EXCEPT !.now = FALSE]
      /\ \A s \in Tabs : sessTabs[s] \in Tab
      /\ sessTabs'[t] = [at |-> "app", user |-> u, now |-> TRUE]
  BY <1>4 DEF TabsThen, SessInv, SessTypeOK
<1>9. \A s \in Tabs : sessTabs'[s] \in Tab /\ (s # t => ~sessTabs'[s].now)
  <2>1. [at |-> "app", user |-> u, now |-> TRUE] \in Tab
    BY DEF Tab
  <2> QED BY <1>8, <2>1, OtherSession
<1>10. SessTypeOK'
  <2>1. sessRequests' = [r \in SessRequests |-> sessRequests'[r]]
    BY <1>4 DEF Then
  <2>2. sessTabs' = [s \in Tabs |-> sessTabs'[s]]
    BY <1>4 DEF TabsThen
  <2> QED BY <1>2, <1>3, <1>4, <1>5, <1>7, <1>9, <2>1, <2>2 DEF SessTypeOK, SessInv
<1>11. TokensOrdered'
  BY <1>2, <1>3 DEF TokensOrdered
<1>12. StoredKnown(sessStored, sessAccess, sessRefresh, sessCrossed)'
  BY <1>2, <1>3, <1>4 DEF StoredKnown, AccessIds, RefreshIds
<1>13. RequestsKnown'
  <2> SUFFICES ASSUME NEW r \in SessRequests
               PROVE  RequestKnown(sessRequests'[r], sessStored', sessAccess', sessRefresh')
    BY DEF RequestsKnown
  <2>1. RequestKnown(sessRequests[r], sessStored, sessAccess, sessRefresh)
    BY DEF SessInv, RequestsKnown
  <2>2. RequestKnown(sessRequests'[r], sessStored, sessAccess, sessRefresh)
    BY <1>6, <2>1 DEF RequestKnown, SessRequest
  <2>3. ~sessRequests'[r].now
    BY <1>6 DEF SessRequest
  <2> QED BY <1>2, <1>3, <1>5, <1>7, <2>2, <2>3, RequestStays DEF SessInv, SessTypeOK
<1>14. \A s \in Tabs : TabKnown(sessTabs'[s], sessStored')
  <2> TAKE s \in Tabs
  <2>1. CASE s = t
    <3>1. sessTabs'[s].user = sessStored'.user
      BY <1>4, <1>8, <2>1
    <3> QED BY <3>1 DEF TabKnown
  <2>2. CASE s # t
    BY <1>9, <2>2 DEF TabKnown
  <2> QED BY <2>1, <2>2
<1> QED BY <1>10, <1>11, <1>12, <1>13, <1>14 DEF SessInv

\* A tab that is loaded shows what is stored.
LEMMA LoadKeeps ==
  ASSUME SessInv, NEW t \in Tabs, Load(t)
  PROVE  SessInv'
<1> DEFINE u == IF sessStored.access # 0 THEN sessStored.user ELSE Nobody
           tab == [at |-> IF u = Nobody THEN "login" ELSE "app", user |-> u, now |-> TRUE]
<1>1. /\ sessTabs' = [sessTabs EXCEPT ![t] = tab]
      /\ sessRequests' = [r \in SessRequests |->
           IF sessRequests[r].tab = t THEN IdleRequest ELSE sessRequests[r]]
      /\ UNCHANGED <<sessStored, sessAccess, sessRefresh, sessCrossed, sessFaults>>
  BY DEF Load
<1>2. tab \in Tab
  BY DEF Tab, SessInv, SessTypeOK, Stored
<1>3. IdleRequest \in SessRequest
  BY DEF IdleRequest, SessRequest
<1>4. SessTypeOK'
  BY <1>1, <1>2, <1>3 DEF SessTypeOK, SessInv
<1>5. TokensOrdered' /\ StoredKnown(sessStored, sessAccess, sessRefresh, sessCrossed)'
  BY <1>1 DEF SessInv, TokensOrdered
<1>6. RequestsKnown'
  BY <1>1, RequestPlain DEF SessInv, RequestsKnown, IdleRequest
<1>7. \A s \in Tabs : TabKnown(sessTabs'[s], sessStored')
  BY <1>1 DEF SessInv, TabKnown, SessTypeOK
<1> QED BY <1>4, <1>5, <1>6, <1>7 DEF SessInv

\* The end of a session leaves nothing stored, and no request that takes what follows for
\* its own session.
LEMMA OverKeeps ==
  ASSUME SessInv, NEW t, NEW after \in [SessRequests -> SessRequest],
         \A r \in SessRequests : after[r] \in {IdleRequest, sessRequests[r]},
         SessionOver(t, NothingStored, after)
  PROVE  SessInv'
<1> USE SessAssumption
<1>1. /\ sessStored' = NothingStored /\ sessCrossed' = FALSE
      /\ sessTabs' = [TabsThen EXCEPT ![t] = [at |-> "login", user |-> Nobody, now |-> TRUE]]
      /\ sessRequests' = IF sessStored.user = Nobody THEN after ELSE Then(after)
      /\ UNCHANGED <<sessAccess, sessRefresh, sessFaults>>
  BY DEF SessionOver
<1>2. NothingStored \in Stored
  BY DEF NothingStored, Stored
<1>3. /\ \A s \in Tabs \ {t} : sessTabs'[s] = [sessTabs[s] EXCEPT !.now = FALSE]
      /\ \A s \in Tabs : sessTabs[s] \in Tab
      /\ t \in Tabs => sessTabs'[t] = [at |-> "login", user |-> Nobody, now |-> TRUE]
  BY <1>1 DEF TabsThen, SessInv, SessTypeOK
<1>4. \A s \in Tabs : sessTabs'[s] \in Tab /\ (s # t => ~sessTabs'[s].now)
  <2>1. [at |-> "login", user |-> Nobody, now |-> TRUE] \in Tab
    BY DEF Tab
  <2>2. \A s \in Tabs \ {t} : sessTabs'[s] \in Tab /\ ~sessTabs'[s].now
    BY <1>3, OtherSession
  <2>3. t \in Tabs => sessTabs'[t] \in Tab
    BY <1>3, <2>1
  <2> QED BY <2>2, <2>3
<1>5. sessTabs' \in [Tabs -> Tab]
  <2>1. sessTabs' = [s \in Tabs |-> sessTabs'[s]]
    BY <1>1 DEF TabsThen
  <2> QED BY <1>4, <2>1
<1>6. \A r \in SessRequests :
        /\ after[r] \in SessRequest /\ sessRequests[r] \in SessRequest
        /\ [after[r] EXCEPT !.now = FALSE] \in SessRequest
  BY DEF SessInv, SessTypeOK, SessRequest
<1>7. sessRequests' \in [SessRequests -> SessRequest]
  BY <1>1, <1>6 DEF Then
<1>8. SessTypeOK'
  BY <1>1, <1>2, <1>5, <1>7 DEF SessTypeOK, SessInv
<1>9. TokensOrdered'
  BY <1>1 DEF TokensOrdered, SessInv
<1>10. StoredKnown(sessStored, sessAccess, sessRefresh, sessCrossed)'
  BY <1>1 DEF StoredKnown, NothingStored
<1>11. RequestsKnown'
  <2> SUFFICES ASSUME NEW r \in SessRequests
               PROVE  RequestKnown(sessRequests'[r], sessStored', sessAccess', sessRefresh')
    BY DEF RequestsKnown
  <2>1. RequestKnown(after[r], sessStored, sessAccess, sessRefresh)
    BY RequestPlain DEF SessInv, RequestsKnown, IdleRequest
  <2>2. CASE sessStored.user = Nobody
    <3>1. sessStored.refresh = 0 /\ sessStored'.refresh = 0
      BY <1>1, <2>2 DEF SessInv, StoredKnown, NothingStored
    <3>2. sessRequests'[r] = after[r]
      BY <1>1, <2>2
    <3> QED BY <1>1, <2>1, <3>1, <3>2 DEF RequestKnown
  <2>3. CASE sessStored.user # Nobody
    <3>1. sessRequests'[r] = [after[r] EXCEPT !.now = FALSE]
      BY <1>1, <2>3 DEF Then
    <3> QED BY <1>1, <1>6, <2>1, <3>1 DEF RequestKnown, SessRequest
  <2> QED BY <2>2, <2>3
<1>12. \A s \in Tabs : TabKnown(sessTabs'[s], sessStored')
  <2> TAKE s \in Tabs
  <2>1. CASE s = t
    <3>1. sessTabs'[s].user = Nobody
      BY <1>3, <2>1
    <3> QED BY <3>1 DEF TabKnown
  <2>2. CASE s # t
    BY <1>4, <2>2 DEF TabKnown
  <2> QED BY <2>1, <2>2
<1> QED BY <1>8, <1>9, <1>10, <1>11, <1>12 DEF SessInv

\* logout in a tab.
LEMMA LogOutKeeps ==
  ASSUME SessInv, NEW t \in Tabs, LogOut(t)
  PROVE  SessInv'
<1>1. sessRequests \in [SessRequests -> SessRequest]
  BY DEF SessInv, SessTypeOK
<1>2. SessionOver(t, NothingStored, sessRequests)
  BY DEF LogOut
<1> QED BY <1>1, <1>2, OverKeeps

\* handleLogout, in the tab of a request.
LEMMA HandleLogoutKeeps ==
  ASSUME SessInv, NEW r \in SessRequests, HandleLogout(r)
  PROVE  SessInv'
<1> DEFINE t == sessRequests[r].tab
           after == IF sessTabs[t].at = "login" THEN RequestEnds(r)
                       ELSE [s \in SessRequests |->
                               IF sessRequests[s].tab = t THEN IdleRequest ELSE sessRequests[s]]
<1>1. IdleRequest \in SessRequest
  BY DEF IdleRequest, SessRequest
<1>2. after \in [SessRequests -> SessRequest]
  BY <1>1 DEF SessInv, SessTypeOK, RequestEnds
<1>3. \A s \in SessRequests : after[s] \in {IdleRequest, sessRequests[s]}
  BY DEF SessInv, SessTypeOK, RequestEnds
<1>4. SessionOver(t, NothingStored, after)
  BY DEF HandleLogout
<1> HIDE DEF t, after
<1> QED BY <1>2, <1>3, <1>4, OverKeeps

-----------------------------------------------------------------------------
(* Steps that leave localStorage and the tabs alone.                       *)

\* Tokens may be issued and go; the requests that move must be known.
LEMMA StepKeeps ==
  ASSUME SessInv, SessTypeOK', TokensOrdered',
         OwnersKept(sessAccess, sessAccess', MaxLogins + MaxExchanges),
         OwnersKept(sessRefresh, sessRefresh', MaxLogins),
         UNCHANGED <<sessStored, sessTabs, sessCrossed>>,
         \A r \in SessRequests :
           \/ sessRequests'[r] = sessRequests[r]
           \/ RequestKnown(sessRequests'[r], sessStored, sessAccess', sessRefresh')
  PROVE  SessInv'
<1>1. /\ sessStored \in Stored /\ sessCrossed \in BOOLEAN
      /\ sessAccess \in [AccessIds -> IssuedToken] /\ sessAccess' \in [AccessIds -> IssuedToken]
      /\ sessRefresh \in [RefreshIds -> IssuedToken]
      /\ sessRefresh' \in [RefreshIds -> IssuedToken]
      /\ StoredKnown(sessStored, sessAccess, sessRefresh, sessCrossed)
  BY DEF SessInv, SessTypeOK
<1>2. StoredKnown(sessStored, sessAccess', sessRefresh', sessCrossed)
  BY <1>1, StoredStays
<1>3. StoredKnown(sessStored, sessAccess, sessRefresh, sessCrossed)'
  BY <1>2
<1>4. RequestsKnown'
  <2> SUFFICES ASSUME NEW r \in SessRequests
               PROVE  RequestKnown(sessRequests'[r], sessStored', sessAccess', sessRefresh')
    BY DEF RequestsKnown
  <2>1. CASE RequestKnown(sessRequests'[r], sessStored, sessAccess', sessRefresh')
    BY <2>1
  <2>2. CASE sessRequests'[r] = sessRequests[r]
    <3>1. /\ sessRequests'[r] = sessRequests[r] /\ sessRequests[r] \in SessRequest
          /\ RequestKnown(sessRequests[r], sessStored, sessAccess, sessRefresh)
      BY <2>2 DEF SessInv, SessTypeOK, RequestsKnown
    <3>2. RequestKnown(sessRequests[r], sessStored, sessAccess', sessRefresh')
      BY <1>1, <3>1, RequestStays
    <3> QED BY <3>1, <3>2
  <2> QED BY <2>1, <2>2
<1>5. \A t \in Tabs : TabKnown(sessTabs'[t], sessStored')
  BY DEF SessInv
<1> QED BY <1>3, <1>4, <1>5 DEF SessInv

\* An access token whose time is over.
LEMMA ExpireKeeps ==
  ASSUME SessInv, NEW k \in AccessIds, Expire(k)
  PROVE  SessInv'
<1>1. /\ sessAccess' = [sessAccess EXCEPT ![k].state = "gone"] /\ sessAccess[k].state = "live"
      /\ UNCHANGED <<sessStored, sessTabs, sessRequests, sessRefresh, sessCrossed, sessFaults>>
  BY DEF Expire
<1>2. MaxLogins + MaxExchanges \in Nat
  BY SessAssumption
<1>3. /\ sessAccess' \in [AccessIds -> IssuedToken]
      /\ OwnersKept(sessAccess, sessAccess', MaxLogins + MaxExchanges)
      /\ Ordered(sessAccess', MaxLogins + MaxExchanges)
  BY <1>1, <1>2, GoneIsIssued DEF SessInv, SessTypeOK, TokensOrdered, AccessIds
<1>4. SessTypeOK'
  BY <1>1, <1>3 DEF SessInv, SessTypeOK
<1>5. TokensOrdered'
  BY <1>1, <1>3 DEF SessInv, TokensOrdered
<1>6. OwnersKept(sessRefresh, sessRefresh', MaxLogins)
  BY <1>1, KeptBySame
<1>7. \A r \in SessRequests : sessRequests'[r] = sessRequests[r]
  BY <1>1
<1> QED BY <1>1, <1>3, <1>4, <1>5, <1>6, <1>7, StepKeeps

\* A request that moves while no token does.
LEMMA MoveKeeps ==
  ASSUME SessInv, NEW r \in SessRequests, NEW q \in SessRequest,
         RequestKnown(q, sessStored, sessAccess, sessRefresh),
         sessRequests' = [sessRequests EXCEPT ![r] = q],
         UNCHANGED <<sessStored, sessTabs, sessAccess, sessRefresh, sessCrossed>>,
         sessFaults' \in 0..MaxSessFaults
  PROVE  SessInv'
<1>1. SessTypeOK'
  BY DEF SessInv, SessTypeOK
<1>2. TokensOrdered'
  BY DEF SessInv, TokensOrdered
<1>3. /\ OwnersKept(sessAccess, sessAccess', MaxLogins + MaxExchanges)
      /\ OwnersKept(sessRefresh, sessRefresh', MaxLogins)
  BY KeptBySame
<1>4. sessRequests'[r] = q /\ \A s \in SessRequests \ {r} : sessRequests'[s] = sessRequests[s]
  BY DEF SessInv, SessTypeOK
<1>5. \A s \in SessRequests :
        \/ sessRequests'[s] = sessRequests[s]
        \/ RequestKnown(sessRequests'[s], sessStored, sessAccess', sessRefresh')
  BY <1>4
<1> QED BY <1>1, <1>2, <1>3, <1>5, StepKeeps

\* A request is sent, answered, and sent to the backend to exchange a token, or that fails.
LEMMA RequestKeeps ==
  ASSUME SessInv, NEW r \in SessRequests,
         \/ \E t \in Tabs : SendRequest(r, t)
         \/ Answered(r)
         \/ ExchangeFails(r)
  PROVE  SessInv'
<1> USE SessAssumption
<1>0. sessFaults \in 0..MaxSessFaults /\ sessRequests[r] \in SessRequest /\ sessStored \in Stored
  BY DEF SessInv, SessTypeOK
<1>1. ASSUME NEW t \in Tabs, SendRequest(r, t) PROVE SessInv'
  <2> DEFINE q == [pc |-> "sent", tab |-> t, refresh |-> 0, now |-> TRUE,
                   access |-> IF sessTabs[t].at = "app" THEN sessStored.access ELSE 0]
  <2>1. /\ sessRequests' = [sessRequests EXCEPT ![r] = q]
        /\ UNCHANGED <<sessStored, sessTabs, sessAccess, sessRefresh, sessCrossed, sessFaults>>
    BY <1>1 DEF SendRequest
  <2>2. q \in SessRequest /\ q.pc \notin {"exchange", "granted"}
    BY <1>0 DEF SessRequest, Stored
  <2> HIDE DEF q
  <2>3. RequestKnown(q, sessStored, sessAccess, sessRefresh)
    BY <2>2, RequestPlain
  <2> QED BY <1>0, <2>1, <2>2, <2>3, MoveKeeps
<1>2. CASE Answered(r)
  <2>1. /\ sessRequests' = [sessRequests EXCEPT ![r] = IdleRequest]
        /\ UNCHANGED <<sessStored, sessTabs, sessAccess, sessRefresh, sessCrossed, sessFaults>>
    BY <1>2 DEF Answered, RequestEnds
  <2>2. IdleRequest \in SessRequest /\ IdleRequest.pc \notin {"exchange", "granted"}
    BY DEF SessRequest, IdleRequest
  <2>3. RequestKnown(IdleRequest, sessStored, sessAccess, sessRefresh)
    BY <2>2, RequestPlain
  <2> QED BY <1>0, <2>1, <2>2, <2>3, MoveKeeps
<1>3. CASE ExchangeFails(r)
  <2> DEFINE q == [sessRequests[r] EXCEPT !.pc = "denied"]
  <2>1. /\ sessRequests' = [sessRequests EXCEPT ![r] = q]
        /\ UNCHANGED <<sessStored, sessTabs, sessAccess, sessRefresh, sessCrossed>>
        /\ sessFaults < MaxSessFaults /\ sessFaults' = sessFaults + 1
    BY <1>3 DEF ExchangeFails
  <2>2. q \in SessRequest /\ q.pc \notin {"exchange", "granted"}
    BY <1>0 DEF SessRequest
  <2> HIDE DEF q
  <2>3. RequestKnown(q, sessStored, sessAccess, sessRefresh)
    BY <2>2, RequestPlain
  <2>4. sessFaults' \in 0..MaxSessFaults
    BY <1>0, <2>1
  <2> QED BY <2>1, <2>2, <2>3, <2>4, MoveKeeps
<1> QED BY <1>1, <1>2, <1>3

\* 401: the refresh token of the moment is that of the session the request is in, or the
\* session is over.
LEMMA UnauthorizedKeeps ==
  ASSUME SessInv, NEW r \in SessRequests, Unauthorized(r)
  PROVE  SessInv'
<1>1. CASE HandleLogout(r)
  BY <1>1, HandleLogoutKeeps
<1>2. CASE ~HandleLogout(r)
  <2> DEFINE q == [sessRequests[r] EXCEPT !.pc = "exchange", !.refresh = sessStored.refresh]
  <2>1. /\ sessStored.refresh # 0 /\ sessRequests' = [sessRequests EXCEPT ![r] = q]
        /\ UNCHANGED <<sessStored, sessTabs, sessAccess, sessRefresh, sessCrossed, sessFaults>>
    BY <1>2 DEF Unauthorized
  <2>2. /\ sessRequests[r] \in SessRequest /\ sessStored \in Stored
        /\ sessFaults \in 0..MaxSessFaults
    BY DEF SessInv, SessTypeOK
  <2>3. q \in SessRequest /\ q.pc = "exchange" /\ q.refresh = sessStored.refresh
    BY <2>2 DEF SessRequest, Stored
  <2>4. sessRefresh[sessStored.refresh].state # "none"
    BY <2>1 DEF SessInv, StoredKnown
  <2> HIDE DEF q
  <2>5. RequestKnown(q, sessStored, sessAccess, sessRefresh)
    BY <2>1, <2>3, <2>4 DEF RequestKnown
  <2> QED BY <2>1, <2>2, <2>3, <2>5, MoveKeeps
<1> QED BY <1>1, <1>2

\* The backend gives the owner of a refresh token a new access token, once.
LEMMA ExchangeKeeps ==
  ASSUME SessInv, NEW r \in SessRequests, Exchange(r)
  PROVE  SessInv'
<1> DEFINE k == sessRequests[r].refresh
           u == sessRefresh[k].owner
           a == NextToken(sessAccess)
<1>0. /\ sessRequests[r] \in SessRequest /\ sessFaults \in 0..MaxSessFaults
      /\ sessAccess \in [AccessIds -> IssuedToken] /\ sessRefresh \in [RefreshIds -> IssuedToken]
      /\ RequestKnown(sessRequests[r], sessStored, sessAccess, sessRefresh)
      /\ sessRequests[r].pc = "exchange"
  BY DEF SessInv, SessTypeOK, RequestsKnown, Exchange
<1>1. k \in RefreshIds /\ (sessRequests[r].now => k = sessStored.refresh)
  BY <1>0 DEF RequestKnown, SessRequest
<1>2. u \in SessUsers \cup {Nobody}
  BY <1>0, <1>1 DEF IssuedToken
<1>3. CASE sessRefresh[k].state = "live"
  <2> DEFINE q == [sessRequests[r] EXCEPT !.pc = "granted", !.access = a]
  <2>1. /\ CanIssue(sessAccess) /\ sessAccess' = Issued(sessAccess, u)
        /\ sessRefresh' = [sessRefresh EXCEPT ![k].state = "gone"]
        /\ sessRequests' = [sessRequests EXCEPT ![r] = q]
        /\ UNCHANGED <<sessStored, sessTabs, sessCrossed, sessFaults>>
    BY <1>3 DEF Exchange
  <2>2. /\ a \in AccessIds /\ sessAccess' \in [AccessIds -> IssuedToken]
        /\ sessAccess'[a] = [owner |-> u, state |-> "live"]
        /\ OwnersKept(sessAccess, sessAccess', MaxLogins + MaxExchanges)
        /\ Ordered(sessAccess', MaxLogins + MaxExchanges)
    <3>1. MaxLogins + MaxExchanges \in Nat
      BY SessAssumption
    <3> HIDE DEF u
    <3> QED BY <1>0, <1>2, <2>1, <3>1, NextIsNew DEF SessInv, TokensOrdered, AccessIds
  <2>3. /\ sessRefresh' \in [RefreshIds -> IssuedToken]
        /\ OwnersKept(sessRefresh, sessRefresh', MaxLogins)
        /\ Ordered(sessRefresh', MaxLogins)
    <3>1. MaxLogins \in Nat
      BY SessAssumption
    <3> HIDE DEF k
    <3> QED BY <1>0, <1>1, <1>3, <2>1, <3>1, GoneIsIssued DEF SessInv, TokensOrdered, RefreshIds
  <2>4. sessRefresh'[k].owner = u /\ sessRefresh'[k].state = "gone"
    BY <1>0, <1>1, <2>1 DEF IssuedToken
  <2> HIDE DEF u, a
  <2>5. /\ q \in SessRequest /\ q.pc = "granted" /\ q.access = a /\ q.refresh = k
        /\ q.now = sessRequests[r].now
    BY <1>0, <2>2 DEF SessRequest
  <2> HIDE DEF q, k
  <2>6. RequestKnown(q, sessStored, sessAccess', sessRefresh')
    <3>1. a # 0 /\ k # 0
      BY <1>1, <2>2 DEF AccessIds, RefreshIds
    <3> QED BY <1>1, <2>2, <2>4, <2>5, <3>1 DEF RequestKnown
  <2>7. SessTypeOK'
    BY <2>1, <2>2, <2>3, <2>5 DEF SessInv, SessTypeOK
  <2>8. TokensOrdered'
    BY <2>2, <2>3 DEF TokensOrdered
  <2>9. sessRequests'[r] = q /\ \A s \in SessRequests \ {r} : sessRequests'[s] = sessRequests[s]
    BY <2>1 DEF SessInv, SessTypeOK
  <2>10. \A s \in SessRequests :
           \/ sessRequests'[s] = sessRequests[s]
           \/ RequestKnown(sessRequests'[s], sessStored, sessAccess', sessRefresh')
    BY <2>6, <2>9
  <2> QED BY <2>1, <2>2, <2>3, <2>7, <2>8, <2>10, StepKeeps
<1>4. CASE sessRefresh[k].state # "live"
  <2> DEFINE q == [sessRequests[r] EXCEPT !.pc = "denied"]
  <2>1. /\ sessRequests' = [sessRequests EXCEPT ![r] = q]
        /\ UNCHANGED <<sessStored, sessTabs, sessAccess, sessRefresh, sessCrossed, sessFaults>>
    BY <1>4 DEF Exchange
  <2>2. q \in SessRequest /\ q.pc \notin {"exchange", "granted"}
    BY <1>0 DEF SessRequest
  <2> HIDE DEF q
  <2>3. RequestKnown(q, sessStored, sessAccess, sessRefresh)
    BY <2>2, RequestPlain
  <2> QED BY <1>0, <2>1, <2>2, <2>3, MoveKeeps
<1> QED BY <1>3, <1>4

-----------------------------------------------------------------------------
\* The new access token is that of the session's user, when the request was begun in it.
LEMMA GrantedKeeps ==
  ASSUME SessInv, NEW r \in SessRequests, Granted(r)
  PROVE  SessInv'
<1> DEFINE q == sessRequests[r]
           done == [q EXCEPT !.pc = "again"]
<1>1. /\ q.pc = "granted" /\ sessStored' = [sessStored EXCEPT !.access = q.access]
      /\ sessRequests' = [sessRequests EXCEPT ![r] = done]
      /\ UNCHANGED <<sessTabs, sessAccess, sessRefresh, sessFaults>>
  BY DEF Granted
<1>2. /\ q \in SessRequest /\ sessStored \in Stored /\ sessCrossed \in BOOLEAN
      /\ RequestKnown(q, sessStored, sessAccess, sessRefresh)
      /\ StoredKnown(sessStored, sessAccess, sessRefresh, sessCrossed)
  BY DEF SessInv, SessTypeOK, RequestsKnown
<1>3. sessCrossed' = (sessCrossed \/ ~q.now)
  BY DEF Granted
<1>4. /\ sessStored' \in Stored /\ sessStored'.user = sessStored.user
      /\ sessStored'.refresh = sessStored.refresh /\ sessStored'.access = q.access
  BY <1>1, <1>2 DEF Stored, SessRequest
<1>5. done \in SessRequest /\ done.pc = "again"
  BY <1>2 DEF SessRequest
<1>6. sessCrossed' \in BOOLEAN
  BY <1>3
<1> HIDE DEF q, done
<1>7. SessTypeOK'
  BY <1>1, <1>4, <1>5, <1>6 DEF SessInv, SessTypeOK
<1>8. TokensOrdered'
  BY <1>1 DEF SessInv, TokensOrdered
<1>9. /\ q.access # 0 /\ sessAccess[q.access].state # "none"
      /\ sessAccess[q.access].owner = sessRefresh[q.refresh].owner
      /\ q.refresh # 0 /\ (q.now => q.refresh = sessStored.refresh)
  BY <1>1, <1>2 DEF RequestKnown
<1>10. StoredKnown(sessStored, sessAccess, sessRefresh, sessCrossed)'
  <2>1. /\ sessStored'.user = Nobody <=> sessStored'.refresh = 0
        /\ sessStored'.refresh # 0 => /\ sessRefresh'[sessStored'.refresh].state # "none"
                                      /\ sessRefresh'[sessStored'.refresh].owner = sessStored'.user
    BY <1>1, <1>2, <1>4 DEF StoredKnown
  <2>2. sessAccess'[sessStored'.access].state # "none"
    BY <1>1, <1>4, <1>9
  <2>3. ASSUME ~sessCrossed'
        PROVE  /\ sessStored'.user # Nobody /\ sessStored'.access # 0
               /\ sessAccess'[sessStored'.access].owner = sessStored'.user
    <3>1. q.now
      BY <1>3, <2>3
    <3>2. q.refresh = sessStored.refresh /\ sessStored.refresh # 0
      BY <1>9, <3>1
    <3> QED BY <1>1, <1>2, <1>4, <1>9, <3>2 DEF StoredKnown
  <2> QED BY <2>1, <2>2, <2>3 DEF StoredKnown
<1>11. RequestsKnown'
  <2> SUFFICES ASSUME NEW s \in SessRequests
               PROVE  RequestKnown(sessRequests'[s], sessStored', sessAccess', sessRefresh')
    BY DEF RequestsKnown
  <2>1. CASE s = r
    <3>1. sessRequests'[s] = done /\ done.pc \notin {"exchange", "granted"}
      BY <1>1, <1>5, <2>1 DEF SessInv, SessTypeOK
    <3> QED BY <3>1, RequestPlain
  <2>2. CASE s # r
    <3>1. /\ sessRequests'[s] = sessRequests[s]
          /\ RequestKnown(sessRequests[s], sessStored, sessAccess, sessRefresh)
      BY <1>1, <2>2 DEF SessInv, SessTypeOK, RequestsKnown
    <3> QED BY <1>1, <1>4, <3>1 DEF RequestKnown
  <2> QED BY <2>1, <2>2
<1>12. \A t \in Tabs : TabKnown(sessTabs'[t], sessStored')
  BY <1>1, <1>4 DEF SessInv, TabKnown
<1> QED BY <1>7, <1>8, <1>10, <1>11, <1>12 DEF SessInv

-----------------------------------------------------------------------------
\* Every step of the browser keeps the invariant.
LEMMA SessInductive == SessInv /\ [SessNext]_sessVars => SessInv'
<1> SUFFICES ASSUME SessInv, [SessNext]_sessVars PROVE SessInv'
  OBVIOUS
<1>1. ASSUME NEW t \in Tabs, Load(t) \/ LogOut(t) \/ \E u \in SessUsers : LogIn(t, u)
      PROVE  SessInv'
  BY <1>1, LoadKeeps, LogOutKeeps, LogInKeeps
<1>2. ASSUME NEW k \in AccessIds, Expire(k) PROVE SessInv'
  BY <1>2, ExpireKeeps
<1>3. ASSUME NEW r \in SessRequests,
             \/ \E t \in Tabs : SendRequest(r, t)
             \/ Answered(r) \/ Unauthorized(r) \/ Exchange(r) \/ ExchangeFails(r)
             \/ Granted(r) \/ Denied(r)
      PROVE  SessInv'
  BY <1>3, RequestKeeps, UnauthorizedKeeps, ExchangeKeeps, GrantedKeeps, HandleLogoutKeeps
     DEF Denied
<1>4. CASE UNCHANGED sessVars
  BY <1>4 DEF SessInv, sessVars, SessTypeOK, TokensOrdered, RequestsKnown
<1> QED BY <1>1, <1>2, <1>3, <1>4 DEF SessNext

\* The invariant says of localStorage and of the tabs what ActsAsShown does.
LEMMA SessInvShown == SessInv => ActsAsShown
<1> SUFFICES ASSUME SessInv PROVE ActsAsShown
  OBVIOUS
<1>1. sessStored \in Stored
  BY DEF SessInv, SessTypeOK
<1>2. sessStored.user = Nobody /\ ~sessCrossed => sessStored = NothingStored
  BY <1>1 DEF SessInv, StoredKnown, Stored, NothingStored
<1>3. sessStored.user # Nobody /\ ~sessCrossed =>
        /\ sessAccess[sessStored.access].owner = sessStored.user
        /\ sessRefresh[sessStored.refresh].owner = sessStored.user
  BY DEF SessInv, StoredKnown
<1>4. \A t \in Tabs : sessTabs[t].user # Nobody /\ sessTabs[t].now
        => sessTabs[t].user = sessStored.user
  BY DEF SessInv, TabKnown
<1> QED BY <1>2, <1>3, <1>4 DEF ActsAsShown

\* ApiClient and AuthProvider: what is stored is all of one user, unless the answer to an
\* exchange begun in another session was stored, and a tab shows that user unless the session
\* has changed in another tab.
THEOREM AlwaysActsAsShown == SessSpec => []ActsAsShown
<1> QED BY SessInitial, SessInductive, SessInvShown, PTL DEF SessSpec

-----------------------------------------------------------------------------
(* Why a session ends.                                                     *)

\* A request that was refused new tokens, in the session it began in and with no failure so
\* far, was so because the refresh token stored has been exchanged.
DeniedKnown(q, stored, refresh, faults) ==
  q.pc = "denied" /\ q.now /\ faults = 0 =>
    stored.refresh # 0 /\ refresh[stored.refresh].state = "gone"

DeniedInv ==
  \A r \in SessRequests : DeniedKnown(sessRequests[r], sessStored, sessRefresh, sessFaults)

\* A request that is told apart from the session, or is somewhere else, says nothing.
LEMMA DeniedPlain ==
  ASSUME NEW q, q.pc # "denied" \/ ~q.now, NEW stored, NEW refresh, NEW faults
  PROVE  DeniedKnown(q, stored, refresh, faults)
BY DEF DeniedKnown

\* After the end of a session no request is of the next one.
LEMMA OverDenied ==
  ASSUME SessInv, DeniedInv, NEW t, NEW after \in [SessRequests -> SessRequest],
         \A r \in SessRequests : after[r] \in {IdleRequest, sessRequests[r]},
         SessionOver(t, NothingStored, after)
  PROVE  DeniedInv'
<1> SUFFICES ASSUME NEW r \in SessRequests
             PROVE  DeniedKnown(sessRequests'[r], sessStored', sessRefresh', sessFaults')
  BY DEF DeniedInv
<1>1. CASE sessStored.user = Nobody
  <2>1. sessRequests' = after /\ sessFaults' = sessFaults
    BY <1>1 DEF SessionOver
  <2>2. sessStored.refresh = 0
    BY <1>1 DEF SessInv, StoredKnown
  <2>3. DeniedKnown(sessRequests[r], sessStored, sessRefresh, sessFaults)
    BY DEF DeniedInv
  <2> QED BY <2>1, <2>2, <2>3 DEF DeniedKnown, IdleRequest
<1>2. CASE sessStored.user # Nobody
  <2>1. sessRequests'[r] = [after[r] EXCEPT !.now = FALSE] /\ after[r] \in SessRequest
    BY <1>2 DEF SessionOver, Then
  <2>2. ~sessRequests'[r].now
    BY <2>1 DEF SessRequest
  <2> QED BY <2>2, DeniedPlain
<1> QED BY <1>1, <1>2

LEMMA DeniedStep == SessInv /\ DeniedInv /\ [SessNext]_sessVars => DeniedInv'
<1> SUFFICES ASSUME SessInv, DeniedInv, [SessNext]_sessVars PROVE DeniedInv'
  OBVIOUS
<1>t. /\ sessRequests \in [SessRequests -> SessRequest] /\ sessStored \in Stored
      /\ sessRefresh \in [RefreshIds -> IssuedToken] /\ sessFaults \in Nat
  BY SessAssumption DEF SessInv, SessTypeOK
<1>k. ASSUME NEW r \in SessRequests
      PROVE  DeniedKnown(sessRequests[r], sessStored, sessRefresh, sessFaults)
  BY DEF DeniedInv
\* A request that moves elsewhere leaves the others as they are.
<1>m. ASSUME NEW r \in SessRequests, NEW q,
             sessRequests' = [sessRequests EXCEPT ![r] = q], q.pc # "denied",
             sessStored'.refresh = sessStored.refresh, UNCHANGED <<sessRefresh, sessFaults>>
      PROVE  DeniedInv'
  <2> SUFFICES ASSUME NEW s \in SessRequests
               PROVE  DeniedKnown(sessRequests'[s], sessStored', sessRefresh', sessFaults')
    BY DEF DeniedInv
  <2>1. CASE s = r
    BY <1>t, <1>m, <2>1, DeniedPlain
  <2>2. CASE s # r
    BY <1>t, <1>k, <1>m, <2>2 DEF DeniedKnown
  <2> QED BY <2>1, <2>2
<1>h. ASSUME NEW r \in SessRequests, HandleLogout(r) PROVE DeniedInv'
  <2> DEFINE t == sessRequests[r].tab
             after == IF sessTabs[t].at = "login" THEN RequestEnds(r)
                         ELSE [s \in SessRequests |->
                                 IF sessRequests[s].tab = t THEN IdleRequest ELSE sessRequests[s]]
  <2>1. IdleRequest \in SessRequest
    BY DEF IdleRequest, SessRequest
  <2>2. /\ after \in [SessRequests -> SessRequest]
        /\ \A s \in SessRequests : after[s] \in {IdleRequest, sessRequests[s]}
    BY <1>t, <2>1 DEF RequestEnds
  <2>3. SessionOver(t, NothingStored, after)
    BY <1>h DEF HandleLogout
  <2> HIDE DEF t, after
  <2> QED BY <2>2, <2>3, OverDenied
<1>1. ASSUME NEW t \in Tabs, LogOut(t) PROVE DeniedInv'
  BY <1>t, <1>1, OverDenied DEF LogOut
<1>2. ASSUME NEW t \in Tabs, NEW u \in SessUsers, LogIn(t, u) PROVE DeniedInv'
  <2>1. \A r \in SessRequests : sessRequests'[r] = [sessRequests[r] EXCEPT !.now = FALSE]
    BY <1>2 DEF LogIn, Then
  <2>2. \A r \in SessRequests : ~sessRequests'[r].now
    BY <1>t, <2>1 DEF SessRequest
  <2> QED BY <2>2, DeniedPlain DEF DeniedInv
<1>3. ASSUME NEW t \in Tabs, Load(t) PROVE DeniedInv'
  <2>1. /\ \A r \in SessRequests : sessRequests'[r] \in {IdleRequest, sessRequests[r]}
        /\ UNCHANGED <<sessStored, sessRefresh, sessFaults>>
    BY <1>3 DEF Load
  <2>2. IdleRequest.pc # "denied"
    BY DEF IdleRequest
  <2> QED BY <1>k, <2>1, <2>2, DeniedPlain DEF DeniedInv
<1>4. ASSUME NEW k \in AccessIds, Expire(k) PROVE DeniedInv'
  BY <1>4 DEF Expire, DeniedInv
<1>5. ASSUME NEW r \in SessRequests, NEW t \in Tabs, SendRequest(r, t) PROVE DeniedInv'
  <2>1. PICK a : sessRequests' = [sessRequests EXCEPT ![r] =
                  [pc |-> "sent", tab |-> t, refresh |-> 0, now |-> TRUE, access |-> a]]
    BY <1>5 DEF SendRequest
  <2> DEFINE q == [pc |-> "sent", tab |-> t, refresh |-> 0, now |-> TRUE, access |-> a]
  <2>2. q.pc # "denied"
    OBVIOUS
  <2>3. UNCHANGED <<sessStored, sessRefresh, sessFaults>>
    BY <1>5 DEF SendRequest
  <2> HIDE DEF q
  <2> QED BY <1>m, <2>1, <2>2, <2>3 DEF q
<1>6. ASSUME NEW r \in SessRequests, Answered(r) PROVE DeniedInv'
  <2>1. /\ sessRequests' = [sessRequests EXCEPT ![r] = IdleRequest]
        /\ UNCHANGED <<sessStored, sessRefresh, sessFaults>>
    BY <1>6 DEF Answered, RequestEnds
  <2>2. IdleRequest.pc # "denied"
    BY DEF IdleRequest
  <2> QED BY <1>m, <2>1, <2>2
<1>7. ASSUME NEW r \in SessRequests, Unauthorized(r) PROVE DeniedInv'
  <2>1. CASE HandleLogout(r)
    BY <1>h, <2>1
  <2>2. CASE ~HandleLogout(r)
    <3> DEFINE q == [sessRequests[r] EXCEPT !.pc = "exchange", !.refresh = sessStored.refresh]
    <3>1. /\ sessRequests' = [sessRequests EXCEPT ![r] = q]
          /\ UNCHANGED <<sessStored, sessRefresh, sessFaults>>
      BY <1>7, <2>2 DEF Unauthorized
    <3>2. q.pc # "denied"
      BY <1>t DEF SessRequest
    <3> HIDE DEF q
    <3> QED BY <1>m, <3>1, <3>2
  <2> QED BY <2>1, <2>2
<1>8. ASSUME NEW r \in SessRequests, Exchange(r) PROVE DeniedInv'
  <2> SUFFICES ASSUME NEW s \in SessRequests
               PROVE  DeniedKnown(sessRequests'[s], sessStored', sessRefresh', sessFaults')
    BY DEF DeniedInv
  <2> DEFINE q == sessRequests[r]
  <2>1. /\ q \in SessRequest /\ q.pc = "exchange"
        /\ UNCHANGED <<sessStored, sessFaults>>
        /\ q.refresh # 0 /\ sessRefresh[q.refresh].state # "none"
        /\ q.now => q.refresh = sessStored.refresh
    BY <1>t, <1>8 DEF Exchange, SessInv, RequestsKnown, RequestKnown
  <2>2. q.refresh \in RefreshIds /\ sessRefresh[q.refresh] \in IssuedToken
    BY <1>t, <2>1 DEF SessRequest
  <2>3. CASE sessRefresh[q.refresh].state = "live"
    <3>1. /\ sessRefresh' = [sessRefresh EXCEPT ![q.refresh].state = "gone"]
          /\ \E a : sessRequests' = [sessRequests EXCEPT ![r].pc = "granted", ![r].access = a]
      BY <1>8, <2>3 DEF Exchange
    <3>2. \A k \in RefreshIds : sessRefresh[k].state = "gone" => sessRefresh'[k].state = "gone"
      BY <1>t, <2>2, <3>1 DEF IssuedToken
    <3>3. CASE s = r
      <4>1. sessRequests'[s].pc = "granted"
        BY <1>t, <3>1, <3>3 DEF SessRequest
      <4> QED BY <4>1, DeniedPlain
    <3>4. CASE s # r
      <4>1. sessRequests'[s] = sessRequests[s]
        BY <1>t, <3>1, <3>4
      <4>2. DeniedKnown(sessRequests[s], sessStored, sessRefresh, sessFaults)
        BY <1>k
      <4> QED BY <1>t, <2>1, <3>2, <4>1, <4>2 DEF DeniedKnown, Stored
    <3> QED BY <3>3, <3>4
  <2>4. CASE sessRefresh[q.refresh].state # "live"
    <3>1. /\ sessRequests' = [sessRequests EXCEPT ![r].pc = "denied"]
          /\ UNCHANGED sessRefresh
      BY <1>8, <2>4 DEF Exchange
    <3>2. sessRefresh[q.refresh].state = "gone"
      BY <2>1, <2>2, <2>4 DEF IssuedToken
    <3>3. CASE s = r
      <4>1. sessRequests'[s].now = q.now
        BY <1>t, <3>1, <3>3 DEF SessRequest
      <4> QED BY <2>1, <3>1, <3>2, <4>1 DEF DeniedKnown
    <3>4. CASE s # r
      BY <1>t, <1>k, <2>1, <3>1, <3>4 DEF DeniedKnown
    <3> QED BY <3>3, <3>4
  <2> QED BY <2>3, <2>4
<1>9. ASSUME NEW r \in SessRequests, ExchangeFails(r) PROVE DeniedInv'
  <2>1. sessFaults' # 0
    BY <1>t, <1>9 DEF ExchangeFails
  <2> QED BY <2>1 DEF DeniedInv, DeniedKnown
<1>10. ASSUME NEW r \in SessRequests, Granted(r) PROVE DeniedInv'
  <2> DEFINE q == [sessRequests[r] EXCEPT !.pc = "again"]
  <2>1. /\ sessRequests' = [sessRequests EXCEPT ![r] = q]
        /\ sessStored'.refresh = sessStored.refresh
        /\ UNCHANGED <<sessRefresh, sessFaults>>
    BY <1>t, <1>10 DEF Granted, Stored
  <2>2. q.pc # "denied"
    BY <1>t DEF SessRequest
  <2> HIDE DEF q
  <2> QED BY <1>m, <2>1, <2>2
<1>11. ASSUME NEW r \in SessRequests, Denied(r) PROVE DeniedInv'
  BY <1>h, <1>11 DEF Denied
<1>12. CASE UNCHANGED sessVars
  BY <1>12 DEF sessVars, DeniedInv
<1> QED BY <1>1, <1>2, <1>3, <1>4, <1>5, <1>6, <1>7, <1>8, <1>9, <1>10, <1>11, <1>12 DEF SessNext

\* A session is ended by its user, or by the answer to a request that was denied.
LEMMA EndIs ==
  ASSUME SessInv, DeniedInv, SessNext, sessStored.user # Nobody, sessStored' = NothingStored
  PROVE  \/ \A r \in SessRequests : sessRequests'[r].pc = sessRequests[r].pc
         \/ \E r \in SessRequests : Denied(r)
<1>t. sessRequests \in [SessRequests -> SessRequest] /\ sessStored \in Stored
  BY DEF SessInv, SessTypeOK
<1>0. sessStored'.user = Nobody
  BY DEF NothingStored
<1>1. ASSUME NEW t \in Tabs, LogOut(t)
      PROVE  \A r \in SessRequests : sessRequests'[r].pc = sessRequests[r].pc
  <2>1. \A r \in SessRequests : sessRequests'[r] = [sessRequests[r] EXCEPT !.now = FALSE]
    BY <1>1 DEF LogOut, SessionOver, Then
  <2> QED BY <1>t, <2>1 DEF SessRequest
<1>2. ASSUME NEW t \in Tabs, NEW u \in SessUsers, LogIn(t, u) PROVE FALSE
  <2>1. sessStored'.user = u
    BY <1>2 DEF LogIn
  <2> QED BY <1>0, <2>1, SessAssumption
<1>3. ASSUME NEW r \in SessRequests, Unauthorized(r) PROVE FALSE
  <2>1. sessStored.refresh # 0
    BY DEF SessInv, StoredKnown
  <2> QED BY <1>0, <1>3, <2>1 DEF Unauthorized
<1>4. ASSUME NEW r \in SessRequests, Granted(r) PROVE FALSE
  <2>1. sessStored'.user = sessStored.user
    BY <1>t, <1>4 DEF Granted, Stored
  <2> QED BY <1>0, <2>1
<1>5. ~UNCHANGED sessStored
  BY <1>0
<1> QED
  BY <1>1, <1>2, <1>3, <1>4, <1>5 DEF SessNext, Load, Expire, SendRequest, Answered, Exchange,
     ExchangeFails

\* The answer to a denied request ends it.
LEMMA DeniedEnds ==
  ASSUME SessInv, NEW r \in SessRequests, Denied(r)
  PROVE  sessRequests'[r].pc # sessRequests[r].pc
<1>t. sessRequests \in [SessRequests -> SessRequest] /\ IdleRequest \in SessRequest
  BY DEF SessInv, SessTypeOK, IdleRequest, SessRequest
<1>1. /\ sessRequests[r].pc = "denied"
      /\ sessRequests'[r] \in {IdleRequest, [IdleRequest EXCEPT !.now = FALSE]}
  BY <1>t DEF Denied, HandleLogout, SessionOver, Then, RequestEnds
<1>2. IdleRequest.pc = "idle" /\ [IdleRequest EXCEPT !.now = FALSE].pc = "idle"
  BY DEF IdleRequest
<1> QED BY <1>1, <1>2

\* A session ends without its user's doing only when the refresh token has been exchanged
\* already, on a failure of the exchange, or for a request begun in another session.
THEOREM EndsAlwaysExplained == SessSpec => EndsExplained
<1> DEFINE Accounted ==
      sessStored.user # Nobody /\ sessStored' = NothingStored =>
        \/ \A r \in SessRequests : sessRequests'[r].pc = sessRequests[r].pc
        \/ sessRefresh[sessStored.refresh].state = "gone"
        \/ sessFaults > 0
        \/ \E r \in SessRequests :
             sessRequests'[r].pc # sessRequests[r].pc /\ ~sessRequests[r].now
<1>1. SessInit => DeniedInv
  BY DeniedPlain DEF SessInit, DeniedInv, IdleRequest
<1>2. ASSUME SessInv, DeniedInv, SessNext, sessStored.user # Nobody,
             sessStored' = NothingStored
      PROVE  Accounted
  <2>1. CASE \A r \in SessRequests : sessRequests'[r].pc = sessRequests[r].pc
    BY <2>1
  <2>2. ASSUME NEW r \in SessRequests, Denied(r) PROVE Accounted
    <3>1. sessRequests'[r].pc # sessRequests[r].pc /\ sessRequests[r].pc = "denied"
      BY <2>2, <1>2, DeniedEnds DEF Denied
    <3>2. sessFaults \in Nat
      BY <1>2, SessAssumption DEF SessInv, SessTypeOK
    <3>3. DeniedKnown(sessRequests[r], sessStored, sessRefresh, sessFaults)
      BY <1>2 DEF DeniedInv
    <3> QED BY <3>1, <3>2, <3>3 DEF DeniedKnown
  <2> QED BY <1>2, <2>1, <2>2, EndIs
<1>3. SessInv /\ DeniedInv /\ [SessNext]_sessVars => [Accounted]_sessVars
  BY <1>2
<1>4. SessInv /\ DeniedInv /\ [SessNext]_sessVars => SessInv' /\ DeniedInv'
  BY SessInductive, DeniedStep
<1> QED BY SessInitial, <1>1, <1>3, <1>4, PTL DEF SessSpec, EndsExplained

-----------------------------------------------------------------------------
(* TestLibrary: groups and their cases, and the versions of a test.        *)

Kind(t) == libRows[t].config.kind
Kids(t) == libRows[t].config.kids
Uploading(u) == libCalls[u].pc = "children"
UpdatePcs == {"write", "max", "version"}

\* A test that a user's list does not show as one of its own is a case.
Case(k) == Kind(k) \in {"child", "deleted"} /\ \A u \in LibUsers : k \notin Displayed(u)

\* The tests that were created are the first ones.
Numbered ==
  \E n \in LibIds \cup {MaxLibTests + 1} :
    \A s \in LibIds : Kind(s) = "none" <=> s >= n

\* Only a group has cases.
RowKnown(t) ==
  /\ Kind(t) = "none" => libRows[t] = [config |-> NoConfig, rev |-> 0]
  /\ Kids(t) # {} => Kind(t) = "group"
  /\ \A k \in Kids(t) : Case(k)

\* A list may be old, but a test in it has no more cases now than it had then.
ListKnown(u, t) ==
  /\ t \in Displayed(u) => /\ Kind(t) \in {"group", "plain", "deleted"}
                           /\ Kids(t) \subseteq libLists[u][t].kids
  /\ \A k \in libLists[u][t].kids : Case(k)

\* What a browser is waiting for is about tests that are there or were.
LibCallKnown(u, c) ==
  /\ c.pc = "idle" => c = NoLibCall
  /\ c.pc = "children" => \A k \in c.kids : Kind(k) = "child" /\ Case(k)
  /\ c.pc \notin {"kids", "bulk"} => c.todo = {}
  /\ \A t \in c.todo : Kind(t) # "none"
  /\ c.pc \in {"kids", "self"} => c.test \in Displayed(u)
  /\ c.pc \in {"children", "failed", "bulk"} => c.test = 0
  /\ c.pc \in {"read", "write", "max", "version"} => /\ c.test \in LibIds
                                                     /\ Kind(c.test) # "none"
  /\ c.pc \in {"read", "write"} /\ c.op = "edit" => c.test \in Displayed(u)

\* An upload nobody waits for any more has had a failure.
FailedOnFault == \A u \in LibUsers : libCalls[u].pc = "failed" => libFaults > 0

LibKnown ==
  /\ LibTypeOK /\ Numbered /\ FailedOnFault
  /\ \A t \in LibIds : RowKnown(t)
  /\ \A u \in LibUsers : LibCallKnown(u, libCalls[u]) /\ \A t \in LibIds : ListKnown(u, t)

\* A case is in one group, or in one upload.
OneGroup ==
  /\ \A g, h \in LibIds : Kids(g) \cap Kids(h) # {} => g = h
  /\ \A u \in LibUsers, s, g \in LibIds : libLists[u][s].kids \cap Kids(g) # {} => s = g
  /\ \A u \in LibUsers : Uploading(u) =>
       /\ \A g \in LibIds : libCalls[u].kids \cap Kids(g) = {}
       /\ \A v \in LibUsers :
            /\ libCalls[u].kids \cap libCalls[v].todo = {}
            /\ \A s \in LibIds : libCalls[u].kids \cap libLists[v][s].kids = {}
            /\ v # u /\ Uploading(v) => libCalls[u].kids \cap libCalls[v].kids = {}

\* A case is listed, about to be or to be deleted.
Reached ==
  libFaults = 0 => \A t \in LibIds : Kind(t) = "child" =>
    \/ \E g \in LibIds : t \in Kids(g)
    \/ \E u \in LibUsers : Uploading(u) /\ t \in libCalls[u].kids
    \/ \E u \in LibUsers : t \in libCalls[u].todo
    \/ t \in libReleased

\* u is deleting g.
Goes(u, g) == \/ libCalls[u].pc \in {"kids", "self"} /\ libCalls[u].test = g
              \/ g \in libCalls[u].todo

\* Whoever deletes a group deletes its cases, and whoever deletes a case its group.
Together ==
  libFaults = 0 =>
    /\ \A u \in LibUsers, g \in LibIds : Goes(u, g) =>
         \A k \in Kids(g) : k \in libCalls[u].todo \/ Kind(k) = "deleted"
    /\ \A u \in LibUsers, g \in LibIds : Kids(g) \cap libCalls[u].todo # {} => Goes(u, g)
    /\ \A g \in LibIds : (\E k \in Kids(g) : Kind(k) = "deleted") =>
         \E u \in LibUsers : Goes(u, g)

\* The numbers of a test's versions have no gap, and whoever is about to add one has seen
\* no number that is not there.
Counted ==
  /\ \A v \in libVersions : Exists(v.test)
  /\ \A t \in LibIds : \E n \in Nat : NumbersOf(t) = 1..n
  /\ \A u \in LibUsers : libCalls[u].pc = "version" /\ Exists(libCalls[u].test) =>
       1..libCalls[u].last \subseteq NumbersOf(libCalls[u].test)

\* The last version is what the test has.
Same(t) ==
  \/ \E v \in libVersions : v.test = t /\ v.number = LastNumber(t) /\ v.rev = libRows[t].rev
  \/ NumbersOf(t) = {} /\ libRows[t].rev = 0

At(u, t, pcs) == libCalls[u].test = t /\ libCalls[u].pc \in pcs

\* Unless updates overlapped, one at a time writes the test and adds the version of it.
ToldOf(t) ==
  /\ \A u, v \in LibUsers : At(u, t, UpdatePcs) /\ At(v, t, UpdatePcs) => u = v
  /\ \A u \in LibUsers : At(u, t, {"max", "version"}) =>
       /\ libCalls[u].rev = libRows[t].rev
       /\ libCalls[u].pc = "version" => libCalls[u].last = LastNumber(t)
  /\ (\A u \in LibUsers : ~At(u, t, {"max", "version"})) => Same(t)

Told == \A t \in LibIds : libFaults = 0 /\ t \notin libCrossed /\ Exists(t) => ToldOf(t)

LibInv == LibKnown /\ OneGroup /\ Reached /\ Together /\ Counted /\ Told

-----------------------------------------------------------------------------
LEMMA LibTypes ==
  ASSUME LibKnown
  PROVE  /\ libRows \in [LibIds -> LibRow] /\ libLists \in [LibUsers -> [LibIds -> Config]]
         /\ libCalls \in [LibUsers -> LibCall] /\ libVersions \subseteq Version
         /\ libSteps \in 0..MaxLibSteps /\ libFaults \in 0..MaxLibFaults
         /\ libCrossed \subseteq LibIds /\ libReleased \subseteq LibIds
         /\ MaxLibTests \in Nat /\ MaxCases \in Nat
         /\ MaxLibSteps \in Nat /\ MaxLibFaults \in Nat
         /\ LibIds \subseteq Nat \ {0}
BY LibAssumption DEF LibKnown, LibTypeOK, LibIds

LEMMA NoLibCallIs == NoLibCall \in LibCall
<1>1. 0 \in 0..MaxLibSteps /\ 0 \in 0..MaxCases
  BY LibAssumption
<1> QED BY <1>1 DEF NoLibCall, LibCall

\* The next test is new, and the one after it the next then.
LEMMA NextTestIs ==
  ASSUME LibKnown, NextTest \in LibIds
  PROVE  /\ Kind(NextTest) = "none" /\ NextTest \in Nat
         /\ \A s \in LibIds : Kind(s) = "none" <=> s >= NextTest
<1>1. \E n \in LibIds \cup {MaxLibTests + 1} :
        \A s \in LibIds : libRows[s].config.kind = "none" <=> s >= n
  BY DEF LibKnown, Numbered, Kind
<1>2. \A s \in LibIds : libRows[s].config.kind = "none" <=> s >= NextTest
  BY <1>1 DEF NextTest
<1> QED BY <1>2, LibTypes DEF Kind

LEMMA Goto ==
  ASSUME LibTypeOK, NEW u \in LibUsers, NEW call,
         libCalls' = [libCalls EXCEPT ![u] = call]
  PROVE  libCalls'[u] = call /\ \A v \in LibUsers \ {u} : libCalls'[v] = libCalls[v]
BY DEF LibTypeOK

\* A step in which the tests and the lists stay.
LEMMA QuietKnown ==
  ASSUME LibKnown, NEW u \in LibUsers, NEW call \in LibCall, LibCallKnown(u, call),
         libCalls' = [libCalls EXCEPT ![u] = call], UNCHANGED <<libRows, libLists>>,
         libVersions' \subseteq Version, libCrossed' \subseteq LibIds,
         libReleased' \subseteq LibIds, libSteps' \in 0..MaxLibSteps,
         libFaults' \in 0..MaxLibFaults, libFaults > 0 => libFaults' > 0,
         call.pc = "failed" => libFaults' > 0
  PROVE  LibKnown'
<1>1. LibTypeOK'
  BY DEF LibKnown, LibTypeOK
<1>2. /\ \A t : Kind(t)' = Kind(t) /\ Kids(t)' = Kids(t)
      /\ \A v : Displayed(v)' = Displayed(v)
      /\ \A k : Case(k)' = Case(k)
  BY DEF Kind, Kids, Displayed, Case
<1>3. Numbered' /\ \A t \in LibIds : RowKnown(t)' /\ \A v \in LibUsers : ListKnown(v, t)'
  BY <1>2 DEF LibKnown, Numbered, RowKnown, ListKnown
<1>4. ASSUME NEW v \in LibUsers PROVE LibCallKnown(v, libCalls[v])'
  BY <1>2, Goto DEF LibCallKnown, LibKnown
<1>5. FailedOnFault'
  BY Goto DEF FailedOnFault, LibKnown
<1> QED BY <1>1, <1>3, <1>4, <1>5 DEF LibKnown

-----------------------------------------------------------------------------
(* What each step does, field by field.                                    *)

LEMMA ClickIs ==
  ASSUME LibKnown, NEW u \in LibUsers, Click(u)
  PROVE  /\ libCalls[u] = NoLibCall /\ libSteps' = libSteps + 1
         /\ libSteps' \in 0..MaxLibSteps /\ libSteps + 1 \in 0..MaxLibSteps
BY LibTypes DEF Click, LibKnown, LibCallKnown

LEMMA FaultIs ==
  ASSUME LibKnown, LibFault
  PROVE  libFaults' \in 0..MaxLibFaults /\ libFaults' >= libFaults /\ libFaults' > 0
BY LibTypes DEF LibFault

LEMMA UploadIs ==
  ASSUME LibKnown, NEW u \in LibUsers, NEW n \in 1..MaxCases, Upload(u, n)
  PROVE  \E call \in LibCall :
           /\ libCalls' = [libCalls EXCEPT ![u] = call]
           /\ call.pc = "children" /\ call.kids = {} /\ call.todo = {} /\ call.test = 0
<1>1. PICK call : call = [NoLibCall EXCEPT !.pc = "children", !.left = n, !.op = "upload",
                                           !.rev = libSteps + 1]
  OBVIOUS
<1>2. n \in 0..MaxCases /\ libSteps + 1 \in 0..MaxLibSteps
  BY ClickIs, LibTypes DEF Upload
<1>3. /\ call.pc = "children" /\ call.kids = {} /\ call.todo = {} /\ call.test = 0
      /\ call \in LibCall
  BY <1>1, <1>2, NoLibCallIs DEF LibCall, NoLibCall
<1> QED BY <1>1, <1>3 DEF Upload

LEMMA DeleteTestIs ==
  ASSUME LibKnown, NEW u \in LibUsers, NEW t \in LibIds, DeleteTest(u, t)
  PROVE  \E call \in LibCall :
           /\ libCalls' = [libCalls EXCEPT ![u] = call] /\ t \in Displayed(u)
           /\ call.kids = {} /\ call.test = t /\ call.op = "none"
           /\ call.todo = libLists[u][t].kids
           /\ call.pc = IF call.todo = {} THEN "self" ELSE "kids"
<1>1. PICK pc \in {"self", "kids"} :
        pc = IF libLists[u][t].kids = {} THEN "self" ELSE "kids"
  OBVIOUS
<1>2. PICK call : call = [NoLibCall EXCEPT !.pc = pc, !.test = t,
                                           !.todo = libLists[u][t].kids]
  OBVIOUS
<1>3. libCalls' = [libCalls EXCEPT ![u] = call] /\ t \in Displayed(u)
  BY <1>1, <1>2 DEF DeleteTest
<1>4. libLists[u][t].kids \in SUBSET LibIds
  BY LibTypes DEF Config
<1>5. /\ call.pc = pc /\ call.test = t /\ call.kids = {}
      /\ call.todo = libLists[u][t].kids /\ call.op = "none" /\ call \in LibCall
  BY <1>1, <1>2, <1>4, NoLibCallIs DEF LibCall, NoLibCall
<1> QED BY <1>1, <1>3, <1>5

LEMMA EditIs ==
  ASSUME LibKnown, NEW u \in LibUsers, NEW t \in LibIds, Edit(u, t)
  PROVE  \E call \in LibCall :
           /\ libCalls' = [libCalls EXCEPT ![u] = call] /\ t \in Displayed(u)
           /\ call.kids = {} /\ call.test = t /\ call.op = "edit" /\ call.todo = {}
           /\ call.pc = "read"
<1>1. PICK call : call = [NoLibCall EXCEPT !.pc = "read", !.test = t, !.op = "edit",
                                           !.rev = libSteps + 1]
  OBVIOUS
<1>2. libCalls' = [libCalls EXCEPT ![u] = call] /\ t \in Displayed(u)
  BY <1>1 DEF Edit
<1>3. /\ call.pc = "read" /\ call.test = t /\ call.kids = {} /\ call.todo = {}
      /\ call.op = "edit" /\ call \in LibCall
  BY <1>1, NoLibCallIs, ClickIs, LibTypes DEF Edit, LibCall, NoLibCall
<1> QED BY <1>2, <1>3

LEMMA BulkDeleteIs ==
  ASSUME LibKnown, NEW u \in LibUsers, NEW S \in SUBSET LibIds, BulkDelete(u, S)
  PROVE  \E call \in LibCall :
           /\ libCalls' = [libCalls EXCEPT ![u] = call] /\ S \subseteq Displayed(u)
           /\ call.pc = "bulk" /\ call.kids = {} /\ call.test = 0
           /\ call.todo = S \cup UNION {libLists[u][t].kids : t \in S}
<1>1. PICK todo : todo = S \cup UNION {libLists[u][t].kids : t \in S}
  OBVIOUS
<1>2. PICK call : call = [NoLibCall EXCEPT !.pc = "bulk", !.todo = todo]
  OBVIOUS
<1>3. libCalls' = [libCalls EXCEPT ![u] = call] /\ S \subseteq Displayed(u)
  BY <1>1, <1>2 DEF BulkDelete
<1>4. todo \in SUBSET LibIds
  BY <1>1, LibTypes DEF Config
<1>5. /\ call.pc = "bulk" /\ call.kids = {} /\ call.test = 0 /\ call.todo = todo
      /\ call \in LibCall
  BY <1>2, <1>4, NoLibCallIs DEF LibCall, NoLibCall
<1> QED BY <1>1, <1>3, <1>5

LEMMA CreateChildIs ==
  ASSUME LibKnown, NEW u \in LibUsers, CreateChild(u)
  PROVE  /\ NextTest \in LibIds
         /\ \E row \in LibRow :
              /\ libRows' = [libRows EXCEPT ![NextTest] = row] /\ row.rev = 0
              /\ row.config.kind = "child" /\ row.config.kids = {}
         /\ libCalls[u].pc \in {"children", "failed"}
         /\ \E call \in LibCall :
              /\ libCalls' = [libCalls EXCEPT ![u] = call]
              /\ \/ call = NoLibCall /\ libCalls[u].pc = "failed"
                 \/ /\ call.pc = libCalls[u].pc /\ call.test = libCalls[u].test
                    /\ call.todo = libCalls[u].todo
                    /\ call.kids = libCalls[u].kids \cup {NextTest}
<1>1. /\ NextTest \in LibIds /\ libRows' = [libRows EXCEPT ![NextTest].config.kind = "child"]
      /\ libCalls[u].pc \in {"children", "failed"}
  BY DEF CreateChild
<1>2. libRows[NextTest].config.kids = {} /\ libRows[NextTest].rev = 0
  BY <1>1, NextTestIs DEF LibKnown, RowKnown, NoConfig
<1>3. \E row \in LibRow :
        /\ libRows' = [libRows EXCEPT ![NextTest] = row] /\ row.rev = 0
        /\ row.config.kind = "child" /\ row.config.kids = {}
  <2>1. PICK config : config = [libRows[NextTest].config EXCEPT !.kind = "child"]
    OBVIOUS
  <2>2. PICK row : row = [libRows[NextTest] EXCEPT !.config = config]
    OBVIOUS
  <2>3. libRows[NextTest] \in LibRow /\ libRows[NextTest].config \in Config
    BY <1>1, LibTypes DEF LibRow
  <2>4. config \in Config /\ config.kind = "child" /\ config.kids = {}
    BY <1>2, <2>1, <2>3 DEF Config
  <2>5. row \in LibRow /\ row.config = config /\ row.rev = 0
    BY <1>2, <2>2, <2>3, <2>4 DEF LibRow
  <2> QED BY <1>1, <2>1, <2>2, <2>4, <2>5
<1>4. CASE libCalls[u].pc = "failed" /\ libCalls[u].left = 1
  BY <1>1, <1>3, <1>4, NoLibCallIs DEF CreateChild
<1>5. CASE ~(libCalls[u].pc = "failed" /\ libCalls[u].left = 1)
  <2> DEFINE call == [libCalls[u] EXCEPT !.left = libCalls[u].left - 1,
                                         !.kids = libCalls[u].kids \cup {NextTest}]
  <2>1. libCalls' = [libCalls EXCEPT ![u] = call]
    BY <1>5 DEF CreateChild
  <2>2. libCalls[u] \in LibCall /\ libCalls[u].left \in 0..MaxCases /\ libCalls[u].left > 0
    BY LibTypes DEF CreateChild, LibCall
  <2>3. libCalls[u].left - 1 \in 0..MaxCases
    BY <2>2, LibTypes
  <2>4. call \in LibCall
    BY <1>1, <2>2, <2>3 DEF LibCall
  <2>5. /\ call.pc = libCalls[u].pc /\ call.test = libCalls[u].test
        /\ call.todo = libCalls[u].todo /\ call.kids = libCalls[u].kids \cup {NextTest}
    BY <2>2 DEF LibCall
  <2> QED BY <1>1, <1>3, <2>1, <2>4, <2>5
<1> QED BY <1>4, <1>5

LEMMA CreateChildFailsIs ==
  ASSUME LibKnown, NEW u \in LibUsers, CreateChildFails(u)
  PROVE  \E call \in LibCall :
           /\ libCalls' = [libCalls EXCEPT ![u] = call]
           /\ \/ call = NoLibCall
              \/ /\ call.pc = "failed" /\ call.test = libCalls[u].test
                 /\ call.todo = libCalls[u].todo
<1>1. CASE libCalls[u].left = 1
  BY <1>1, NoLibCallIs DEF CreateChildFails
<1>2. CASE libCalls[u].left # 1
  <2> DEFINE call == [libCalls[u] EXCEPT !.left = libCalls[u].left - 1, !.pc = "failed"]
  <2>1. libCalls' = [libCalls EXCEPT ![u] = call]
    BY <1>2 DEF CreateChildFails
  <2>2. libCalls[u] \in LibCall /\ libCalls[u].left \in 0..MaxCases /\ libCalls[u].left > 0
    BY LibTypes DEF CreateChildFails, LibCall
  <2>3. libCalls[u].left - 1 \in 0..MaxCases
    BY <2>2, LibTypes
  <2>4. call \in LibCall
    BY <2>2, <2>3 DEF LibCall
  <2>5. call.pc = "failed" /\ call.test = libCalls[u].test /\ call.todo = libCalls[u].todo
    BY <2>2 DEF LibCall
  <2> QED BY <2>1, <2>4, <2>5
<1> QED BY <1>1, <1>2

LEMMA CreateParentIs ==
  ASSUME LibKnown, NEW u \in LibUsers, CreateParent(u)
  PROVE  /\ NextTest \in LibIds /\ libCalls[u].pc = "children"
         /\ \E rev \in 0..MaxLibSteps, call \in LibCall :
              /\ libRows' = [libRows EXCEPT ![NextTest] =
                   [config |-> [kind |-> "group", kids |-> libCalls[u].kids], rev |-> rev]]
              /\ libCalls' = [libCalls EXCEPT ![u] = call]
              /\ \/ call = NoLibCall /\ rev = 0
                 \/ /\ call.pc = "max" /\ call.test = NextTest /\ call.rev = rev
                    /\ call.todo = libCalls[u].todo /\ call.op = libCalls[u].op
<1>1. NextTest \in LibIds /\ libCalls[u].pc = "children"
  BY DEF CreateParent
<1>2. PICK code \in BOOLEAN :
        /\ libRows' = [libRows EXCEPT ![NextTest] =
             [config |-> [kind |-> "group", kids |-> libCalls[u].kids],
              rev |-> IF code THEN libCalls[u].rev ELSE 0]]
        /\ libCalls' = [libCalls EXCEPT ![u] =
             IF code THEN [libCalls[u] EXCEPT !.pc = "max", !.test = NextTest] ELSE NoLibCall]
  BY DEF CreateParent
<1>3. libCalls[u] \in LibCall /\ libCalls[u].rev \in 0..MaxLibSteps
  BY LibTypes DEF LibCall
<1>4. CASE code
  <2> DEFINE call == [libCalls[u] EXCEPT !.pc = "max", !.test = NextTest]
  <2>1. /\ call \in LibCall /\ call.pc = "max" /\ call.test = NextTest
        /\ call.rev = libCalls[u].rev /\ call.todo = libCalls[u].todo
        /\ call.op = libCalls[u].op
    BY <1>1, <1>3 DEF LibCall
  <2> QED BY <1>1, <1>2, <1>3, <1>4, <2>1
<1>5. CASE ~code
  <2>1. 0 \in 0..MaxLibSteps
    BY LibTypes
  <2> QED BY <1>1, <1>2, <1>5, <2>1, NoLibCallIs
<1> QED BY <1>4, <1>5

LEMMA GenerateIs ==
  ASSUME LibKnown, NEW u \in LibUsers, Generate(u)
  PROVE  /\ NextTest \in LibIds /\ libCalls[u] = NoLibCall
         /\ \E rev \in 0..MaxLibSteps, call \in LibCall :
              /\ libRows' = [libRows EXCEPT ![NextTest] =
                   [config |-> [kind |-> "plain", kids |-> {}], rev |-> rev]]
              /\ libCalls' = [libCalls EXCEPT ![u] = call]
              /\ call.pc = "max" /\ call.test = NextTest /\ call.rev = rev
              /\ call.todo = {} /\ call.op = "generate"
<1>1. /\ NextTest \in LibIds /\ libCalls[u] = NoLibCall
      /\ libSteps + 1 \in 0..MaxLibSteps
  BY ClickIs DEF Generate
<1>2. PICK call : call = [NoLibCall EXCEPT !.pc = "max", !.test = NextTest,
                                           !.op = "generate", !.rev = libSteps + 1]
  OBVIOUS
<1>3. /\ libCalls' = [libCalls EXCEPT ![u] = call]
      /\ libRows' = [libRows EXCEPT ![NextTest] =
           [config |-> [kind |-> "plain", kids |-> {}], rev |-> libSteps + 1]]
  BY <1>2 DEF Generate
<1>4. /\ call.pc = "max" /\ call.test = NextTest /\ call.todo = {} /\ call.op = "generate"
      /\ call.rev = libSteps + 1 /\ call \in LibCall
  BY <1>1, <1>2, NoLibCallIs DEF LibCall, NoLibCall
<1> QED BY <1>1, <1>3, <1>4

\* The requests that delete: the next one, and the test it was for unless it fails.
LEMMA DeleteOneIs ==
  ASSUME LibKnown, NEW u \in LibUsers, NEW t \in LibIds, DeleteOne(u, t)
  PROVE  /\ \/ libCalls[u].pc \in {"kids", "bulk"} /\ t \in libCalls[u].todo
            \/ libCalls[u].pc = "self" /\ t = libCalls[u].test
         /\ \/ /\ libRows' = [libRows EXCEPT ![t] =
                    [config |-> [kind |-> "deleted", kids |-> {}], rev |-> 0]]
               /\ libVersions' = {v \in libVersions : v.test # t}
               /\ UNCHANGED libFaults
            \/ LibFault /\ UNCHANGED <<libRows, libVersions>>
         /\ UNCHANGED <<libLists, libCrossed, libReleased, libSteps>>
         /\ \E call \in LibCall :
              /\ libCalls' = [libCalls EXCEPT ![u] = call]
              /\ \/ /\ call = NoLibCall
                    /\ \/ libCalls[u].pc = "self"
                       \/ libCalls[u].pc = "bulk" /\ libCalls[u].todo = {t}
                 \/ /\ libCalls[u].pc \in {"kids", "bulk"}
                    /\ call.todo = libCalls[u].todo \ {t} /\ call.test = libCalls[u].test
                    /\ call.op = libCalls[u].op
                    /\ \/ call.pc = "self" /\ libCalls[u].pc = "kids" /\ call.todo = {}
                       \/ call.pc = libCalls[u].pc
<1>1. /\ \/ libCalls[u].pc \in {"kids", "bulk"} /\ t \in libCalls[u].todo
         \/ libCalls[u].pc = "self" /\ t = libCalls[u].test
      /\ \/ /\ libRows' = [libRows EXCEPT ![t] =
                 [config |-> [kind |-> "deleted", kids |-> {}], rev |-> 0]]
            /\ libVersions' = {v \in libVersions : v.test # t}
            /\ UNCHANGED libFaults
         \/ LibFault /\ UNCHANGED <<libRows, libVersions>>
      /\ UNCHANGED <<libLists, libCrossed, libReleased, libSteps>>
  BY DEF DeleteOne
<1>2. CASE libCalls[u].pc = "self" \/ (libCalls[u].pc = "bulk" /\ libCalls[u].todo = {t})
  BY <1>1, <1>2, NoLibCallIs DEF DeleteOne
<1>3. CASE ~(libCalls[u].pc = "self" \/ (libCalls[u].pc = "bulk" /\ libCalls[u].todo = {t}))
  <2> DEFINE pc == IF libCalls[u].todo = {t} THEN "self" ELSE libCalls[u].pc
             call == [libCalls[u] EXCEPT !.pc = pc, !.todo = libCalls[u].todo \ {t}]
  <2>1. libCalls' = [libCalls EXCEPT ![u] = call]
    BY <1>3 DEF DeleteOne
  <2>2. libCalls[u] \in LibCall /\ libCalls[u].pc \in {"kids", "bulk"}
    BY <1>1, <1>3, LibTypes
  <2>3. pc \in {"self", "kids", "bulk"}
    BY <2>2
  <2>4. /\ call.pc = pc /\ call.todo = libCalls[u].todo \ {t}
        /\ call.test = libCalls[u].test /\ call.op = libCalls[u].op
    BY <2>2 DEF LibCall
  <2>5. call \in LibCall
    <3> HIDE DEF pc
    <3> QED BY <2>2, <2>3 DEF LibCall
  <2>6. \/ call.pc = "self" /\ libCalls[u].pc = "kids" /\ call.todo = {}
        \/ call.pc = libCalls[u].pc
    BY <1>3, <2>2, <2>4
  <2> HIDE DEF call
  <2> QED BY <1>1, <2>1, <2>2, <2>4, <2>5, <2>6
<1> QED BY <1>2, <1>3

\* The numbers of a test's versions are those up to the last one.
LEMMA LastIs ==
  ASSUME Counted, NEW t \in LibIds
  PROVE  /\ LastNumber(t) \in Nat /\ NumbersOf(t) = 1..LastNumber(t)
         /\ \A n \in Nat : NumbersOf(t) = 1..n => LastNumber(t) = n
<1>1. PICK n \in Nat : NumbersOf(t) = 1..n
  BY DEF Counted
<1>2. n \in NumbersOf(t) \cup {0} /\ \A m \in NumbersOf(t) : m <= n
  BY <1>1
<1>3. /\ LastNumber(t) \in NumbersOf(t) \cup {0}
      /\ \A m \in NumbersOf(t) : m <= LastNumber(t)
  BY <1>2 DEF LastNumber
<1>4. ASSUME NEW m \in Nat, NumbersOf(t) = 1..m PROVE LastNumber(t) = m
  BY <1>3, <1>4
<1> QED BY <1>1, <1>4

\* The steps of an update.
LEMMA UpdateIs ==
  ASSUME LibKnown, Counted, NEW u \in LibUsers,
         ReadTest(u) \/ WriteTest(u) \/ ReadMax(u) \/ CreateVersion(u) \/ LibFails(u)
  PROVE  \E call \in LibCall :
           /\ libCalls' = [libCalls EXCEPT ![u] = call]
           /\ \/ call = NoLibCall
              \/ /\ call.test = libCalls[u].test /\ call.todo = libCalls[u].todo
                 /\ call.rev = libCalls[u].rev /\ call.op \in {libCalls[u].op, "save"}
                 /\ \/ ReadTest(u) /\ call.pc = "write" /\ call.op = libCalls[u].op
                    \/ WriteTest(u) /\ call.pc = "max" /\ Exists(call.test)
                    \/ /\ ReadMax(u) /\ call.pc = "version"
                       /\ call.last = LastNumber(libCalls[u].test)
                    \/ CreateVersion(u) /\ call.pc = "read" /\ call.op = "save"
<1>1. libCalls[u] \in LibCall
  BY LibTypes
<1>2. CASE libCalls' = [libCalls EXCEPT ![u] = NoLibCall]
  BY <1>2, NoLibCallIs
<1>3. CASE LibFails(u)
  BY <1>2, <1>3 DEF LibFails, LibEnds
<1>4. CASE ReadTest(u) /\ Exists(libCalls[u].test)
  <2> DEFINE call == [libCalls[u] EXCEPT !.pc = "write"]
  <2>1. libCalls' = [libCalls EXCEPT ![u] = call]
    BY <1>4 DEF ReadTest, LibGoto
  <2>2. /\ call \in LibCall /\ call.pc = "write" /\ call.test = libCalls[u].test
        /\ call.todo = libCalls[u].todo /\ call.rev = libCalls[u].rev
        /\ call.op = libCalls[u].op
    BY <1>1 DEF LibCall
  <2> QED BY <1>4, <2>1, <2>2
<1>5. CASE WriteTest(u) /\ Exists(libCalls[u].test)
  <2> DEFINE call == [libCalls[u] EXCEPT !.pc = "max"]
  <2>1. libCalls' = [libCalls EXCEPT ![u] = call]
    BY <1>5 DEF WriteTest, LibGoto
  <2>2. /\ call \in LibCall /\ call.pc = "max" /\ call.test = libCalls[u].test
        /\ call.todo = libCalls[u].todo /\ call.rev = libCalls[u].rev
        /\ call.op = libCalls[u].op
    BY <1>1 DEF LibCall
  <2> QED BY <1>5, <2>1, <2>2
<1>6. CASE ReadMax(u)
  <2> DEFINE last == LastNumber(libCalls[u].test)
             call == [libCalls[u] EXCEPT !.pc = "version", !.last = last]
  <2>1. libCalls' = [libCalls EXCEPT ![u] = call]
    BY <1>1, <1>6, LibTypes DEF ReadMax
  <2>2. last \in Nat
    BY <1>6, LastIs DEF ReadMax, LibKnown, LibCallKnown
  <2> HIDE DEF last
  <2>3. /\ call \in LibCall /\ call.pc = "version" /\ call.test = libCalls[u].test
        /\ call.todo = libCalls[u].todo /\ call.rev = libCalls[u].rev
        /\ call.op = libCalls[u].op /\ call.last = last
    BY <1>1, <2>2 DEF LibCall
  <2> QED BY <1>6, <2>1, <2>3 DEF last
<1>7. CASE CreateVersion(u) /\ ~(libCalls' = [libCalls EXCEPT ![u] = NoLibCall])
  <2> DEFINE call == [libCalls[u] EXCEPT !.pc = "read", !.op = "save"]
  <2>1. libCalls' = [libCalls EXCEPT ![u] = call]
    BY <1>7 DEF CreateVersion
  <2>2. /\ call \in LibCall /\ call.pc = "read" /\ call.test = libCalls[u].test
        /\ call.todo = libCalls[u].todo /\ call.rev = libCalls[u].rev
        /\ call.op = "save"
    BY <1>1 DEF LibCall
  <2> QED BY <1>7, <2>1, <2>2
<1> QED BY <1>2, <1>3, <1>4, <1>5, <1>6, <1>7 DEF ReadTest, WriteTest, LibEnds

LEMMA UpdateAt ==
  ASSUME NEW u
  PROVE  /\ ReadTest(u) => libCalls[u].pc = "read"
         /\ WriteTest(u) => libCalls[u].pc = "write"
         /\ ReadMax(u) => libCalls[u].pc = "max"
         /\ CreateVersion(u) => libCalls[u].pc = "version"
BY DEF ReadTest, WriteTest, ReadMax, CreateVersion

-----------------------------------------------------------------------------
(* What is known of rows, lists and calls.                                 *)

\* What a test that is there may become.
Becomes(u, t, row) ==
  \/ row.config = libRows[t].config /\ row.config.kind # "deleted"
  \/ row.config.kids = {} /\ row.config.kind = "deleted"
  \/ row.config.kids = {} /\ row.config.kind = "plain" /\ t \in Displayed(u)

LEMMA NewRow ==
  ASSUME LibKnown, NEW next \in LibIds, next = NextTest, NEW row \in LibRow,
         row.config.kind \in {"child", "group", "plain"},
         row.config.kids # {} => row.config.kind = "group",
         \A k \in row.config.kids : Case(k),
         libRows' = [libRows EXCEPT ![next] = row], UNCHANGED libLists
  PROVE  /\ libRows' \in [LibIds -> LibRow] /\ Numbered'
         /\ \A t \in LibIds : RowKnown(t)'
         /\ \A v \in LibUsers, t \in LibIds : ListKnown(v, t)'
         /\ \A k \in LibIds : Case(k) => Case(k)' /\ k # next
         /\ \A k \in LibIds : Kind(k) # "none" => Kind(k)' = Kind(k) /\ Kids(k)' = Kids(k)
         /\ Kind(next)' = row.config.kind /\ Kids(next)' = row.config.kids
         /\ \A v \in LibUsers : Displayed(v)' = Displayed(v) /\ next \notin Displayed(v)
<1>1. libRows' \in [LibIds -> LibRow]
  BY LibTypes
<1>2. /\ Kind(next)' = row.config.kind /\ Kids(next)' = row.config.kids
      /\ \A k \in LibIds : k # next => libRows'[k] = libRows[k]
      /\ \A k \in LibIds : k # next => Kind(k)' = Kind(k) /\ Kids(k)' = Kids(k)
  BY LibTypes DEF Kind, Kids
<1>3. \A v \in LibUsers : Displayed(v)' = Displayed(v) /\ next \notin Displayed(v)
  <2>1. \A v \in LibUsers : Displayed(v)' = Displayed(v)
    BY DEF Displayed
  <2>2. \A v \in LibUsers : next \notin Displayed(v)
    BY NextTestIs DEF LibKnown, ListKnown
  <2> QED BY <2>1, <2>2
<1>4. \A k \in LibIds : Case(k) => Case(k)' /\ k # next
  BY <1>2, <1>3, NextTestIs DEF Case
<1>5. Numbered'
  <2>1. next + 1 \in LibIds \cup {MaxLibTests + 1}
    BY LibTypes DEF LibIds
  <2>2. \A s \in LibIds : Kind(s)' = "none" <=> s >= next + 1
    <3>1. \A s \in LibIds : s \in Nat /\ next \in Nat /\ (Kind(s) = "none" <=> s >= next)
      BY NextTestIs, LibTypes
    <3>2. \A s \in LibIds : s # next /\ s >= next <=> s >= next + 1
      BY <3>1
    <3> QED BY <1>2, <3>1, <3>2
  <2> QED BY <2>1, <2>2 DEF Numbered
<1>6. ASSUME NEW t \in LibIds PROVE RowKnown(t)'
  <2>0. \A k \in Kids(t) : k \in LibIds
    BY LibTypes DEF Kids, LibRow, Config
  <2>1. CASE t # next
    BY <1>2, <1>4, <2>0, <2>1 DEF LibKnown, RowKnown
  <2>2. CASE t = next
    <3>1. \A k \in row.config.kids : k \in LibIds
      BY DEF LibRow, Config
    <3>2. \A k \in row.config.kids : Case(k)'
      BY <1>4, <3>1
    <3> QED BY <1>2, <2>2, <3>2 DEF RowKnown
  <2> QED BY <2>1, <2>2
<1>7. ASSUME NEW v \in LibUsers, NEW t \in LibIds PROVE ListKnown(v, t)'
  <2>1. \A k \in libLists[v][t].kids : k \in LibIds
    BY LibTypes DEF Config
  <2>2. ListKnown(v, t)
    BY DEF LibKnown
  <2> QED BY <1>2, <1>3, <1>4, <2>1, <2>2 DEF ListKnown
<1>8. \A k \in LibIds : Kind(k) # "none" => Kind(k)' = Kind(k) /\ Kids(k)' = Kids(k)
  BY <1>2, NextTestIs
<1> QED BY <1>1, <1>2, <1>3, <1>4, <1>5, <1>6, <1>7, <1>8

LEMMA OldRow ==
  ASSUME LibKnown, NEW u \in LibUsers, NEW t \in LibIds, Kind(t) # "none", NEW row \in LibRow,
         Becomes(u, t, row), libRows' = [libRows EXCEPT ![t] = row], UNCHANGED libLists
  PROVE  /\ libRows' \in [LibIds -> LibRow] /\ Numbered'
         /\ \A s \in LibIds : RowKnown(s)'
         /\ \A v \in LibUsers, s \in LibIds : ListKnown(v, s)'
         /\ \A k \in LibIds : Case(k) => Case(k)'
         /\ \A k \in LibIds : k # t => Kind(k)' = Kind(k) /\ Kids(k)' = Kids(k)
         /\ \A k \in LibIds : Kind(k)' = "none" <=> Kind(k) = "none"
         /\ Kind(t)' = row.config.kind /\ Kids(t)' = row.config.kids
         /\ Kids(t)' \subseteq Kids(t)
         /\ \A v \in LibUsers : Displayed(v)' = Displayed(v)
<1>1. libRows' \in [LibIds -> LibRow]
  BY LibTypes
<1>2. /\ Kind(t)' = row.config.kind /\ Kids(t)' = row.config.kids
      /\ \A k \in LibIds : k # t => libRows'[k] = libRows[k]
      /\ \A k \in LibIds : k # t => Kind(k)' = Kind(k) /\ Kids(k)' = Kids(k)
  BY LibTypes DEF Kind, Kids
<1>3. \A v \in LibUsers : Displayed(v)' = Displayed(v)
  BY DEF Displayed
<1>4. \/ Kids(t)' = Kids(t) /\ Kind(t)' = Kind(t)
      \/ Kids(t)' = {} /\ Kind(t)' = "deleted"
      \/ Kids(t)' = {} /\ Kind(t)' = "plain" /\ t \in Displayed(u)
  BY <1>2 DEF Becomes, Kind, Kids
<1>5. \A k \in LibIds : Case(k) => Case(k)'
  BY <1>2, <1>3, <1>4 DEF Case
<1>6. \A k \in LibIds : Kind(k)' = "none" <=> Kind(k) = "none"
  BY <1>2, <1>4
<1>7. Numbered'
  BY <1>6 DEF LibKnown, Numbered
<1>8. ASSUME NEW s \in LibIds PROVE RowKnown(s)'
  <2>1. RowKnown(s) /\ \A k \in Kids(s) : k \in LibIds
    BY LibTypes DEF LibKnown, Kids, LibRow, Config
  <2> QED BY <1>2, <1>4, <1>5, <2>1 DEF RowKnown
<1>9. ASSUME NEW v \in LibUsers, NEW s \in LibIds PROVE ListKnown(v, s)'
  <2>1. ListKnown(v, s) /\ \A k \in libLists[v][s].kids : k \in LibIds
    BY LibTypes DEF LibKnown, Config
  <2>2. t \in Displayed(u) => Kind(t) \in {"group", "plain", "deleted"}
    BY DEF LibKnown, ListKnown
  <2>3. Kids(s)' \subseteq Kids(s)
    BY <1>2, <1>4
  <2>4. s \in Displayed(v)' => Kind(s)' \in {"group", "plain", "deleted"}
    BY <1>2, <1>3, <1>4, <2>1 DEF ListKnown
  <2>5. UNCHANGED libLists[v][s]
    OBVIOUS
  <2> QED BY <1>3, <1>5, <2>1, <2>3, <2>4, <2>5 DEF ListKnown
<1> QED BY <1>1, <1>2, <1>3, <1>4, <1>5, <1>6, <1>7, <1>8, <1>9

\* A step in which a test changes.
LEMMA ChangeKnown ==
  ASSUME LibKnown, NEW u \in LibUsers, NEW call \in LibCall, LibCallKnown(u, call)',
         libCalls' = [libCalls EXCEPT ![u] = call], UNCHANGED <<libLists, libFaults>>,
         libRows' \in [LibIds -> LibRow], Numbered', \A t \in LibIds : RowKnown(t)',
         \A v \in LibUsers, t \in LibIds : ListKnown(v, t)',
         \A k \in LibIds : Case(k) => Case(k)',
         \A w \in LibUsers : Displayed(w)' = Displayed(w),
         \A k \in LibIds : Kind(k) # "none" => Kind(k)' # "none",
         \A v \in LibUsers \ {u} : libCalls[v].pc = "children" =>
           \A k \in libCalls[v].kids : Kind(k) = "child" => Kind(k)' = "child",
         libVersions' \subseteq Version, libCrossed' \subseteq LibIds,
         libReleased' \subseteq LibIds, libSteps' \in 0..MaxLibSteps,
         call.pc = "failed" => libCalls[u].pc = "failed"
  PROVE  LibKnown'
<1>1. LibTypeOK'
  BY DEF LibKnown, LibTypeOK
<1>2. ASSUME NEW v \in LibUsers PROVE LibCallKnown(v, libCalls[v])'
  <2>1. CASE v = u
    BY <2>1, Goto DEF LibKnown
  <2>2. CASE v # u
    <3>1. libCalls[v] \in LibCall /\ LibCallKnown(v, libCalls[v]) /\ libCalls'[v] = libCalls[v]
      BY <2>2, Goto, LibTypes DEF LibKnown
    <3>2. \A k \in libCalls[v].kids : k \in LibIds
      BY <3>1 DEF LibCall
    <3>3. libCalls[v].todo \subseteq LibIds
      BY <3>1 DEF LibCall
    <3> QED BY <2>2, <3>1, <3>2, <3>3 DEF LibCallKnown
  <2> QED BY <2>1, <2>2
<1>3. FailedOnFault'
  BY Goto DEF FailedOnFault, LibKnown
<1> QED BY <1>1, <1>2, <1>3 DEF LibKnown

LEMMA IdleKnown ==
  ASSUME NEW u
  PROVE  LibCallKnown(u, NoLibCall)
BY DEF LibCallKnown, NoLibCall

LEMMA QuietSteps ==
  ASSUME LibKnown, NEW u \in LibUsers,
         \/ \E n \in 1..MaxCases : Upload(u, n)
         \/ \E t \in LibIds : DeleteTest(u, t) \/ Edit(u, t)
         \/ \E S \in SUBSET LibIds : BulkDelete(u, S)
         \/ CreateChildFails(u)
  PROVE  LibKnown'
<1>1. ASSUME NEW n \in 1..MaxCases, Upload(u, n) PROVE LibKnown'
  <2>1. PICK call \in LibCall :
           /\ libCalls' = [libCalls EXCEPT ![u] = call]
           /\ call.pc = "children" /\ call.kids = {} /\ call.todo = {} /\ call.test = 0
    BY <1>1, UploadIs
  <2>2. LibCallKnown(u, call)
    BY <2>1 DEF LibCallKnown
  <2>3. libSteps' \in 0..MaxLibSteps
    BY <1>1, ClickIs DEF Upload
  <2>4. UNCHANGED <<libRows, libVersions, libLists, libCrossed, libReleased, libFaults>>
    BY <1>1 DEF Upload
  <2>5. call.pc # "failed"
    BY <2>1
  <2> QED BY <2>1, <2>2, <2>3, <2>4, <2>5, QuietKnown, LibTypes
<1>2. ASSUME NEW t \in LibIds, DeleteTest(u, t) \/ Edit(u, t) PROVE LibKnown'
  <2>1. PICK call \in LibCall :
           /\ libCalls' = [libCalls EXCEPT ![u] = call] /\ t \in Displayed(u)
           /\ call.kids = {} /\ call.test = t
           /\ \/ /\ call.todo = libLists[u][t].kids
                 /\ call.pc = IF call.todo = {} THEN "self" ELSE "kids"
              \/ call.op = "edit" /\ call.todo = {} /\ call.pc = "read"
    BY <1>2, DeleteTestIs, EditIs
  <2>2. ListKnown(u, t)
    BY DEF LibKnown
  <2>3. LibCallKnown(u, call)
    BY <2>1, <2>2 DEF LibCallKnown, ListKnown, Case
  <2>4. libSteps' \in 0..MaxLibSteps
    BY <1>2, ClickIs DEF DeleteTest, Edit
  <2>5. call.pc # "failed"
    BY <2>1
  <2>6. UNCHANGED <<libRows, libVersions, libLists, libCrossed, libReleased, libFaults>>
    BY <1>2 DEF DeleteTest, Edit
  <2> QED BY <2>1, <2>3, <2>4, <2>5, <2>6, QuietKnown, LibTypes
<1>3. ASSUME NEW S \in SUBSET LibIds, BulkDelete(u, S) PROVE LibKnown'
  <2>1. PICK call \in LibCall :
           /\ libCalls' = [libCalls EXCEPT ![u] = call] /\ S \subseteq Displayed(u)
           /\ call.pc = "bulk" /\ call.kids = {} /\ call.test = 0
           /\ call.todo = S \cup UNION {libLists[u][t].kids : t \in S}
    BY <1>3, BulkDeleteIs
  <2>2. \A t \in call.todo : Kind(t) # "none"
    BY <2>1 DEF LibKnown, ListKnown, Case
  <2>3. LibCallKnown(u, call)
    BY <2>1, <2>2 DEF LibCallKnown
  <2>4. libSteps' \in 0..MaxLibSteps
    BY <1>3, ClickIs DEF BulkDelete
  <2>5. call.pc # "failed"
    BY <2>1
  <2>6. UNCHANGED <<libRows, libVersions, libLists, libCrossed, libReleased, libFaults>>
    BY <1>3 DEF BulkDelete
  <2> QED BY <2>1, <2>3, <2>4, <2>5, <2>6, QuietKnown, LibTypes
<1>4. CASE CreateChildFails(u)
  <2>1. PICK call \in LibCall :
           /\ libCalls' = [libCalls EXCEPT ![u] = call]
           /\ \/ call = NoLibCall
              \/ /\ call.pc = "failed" /\ call.test = libCalls[u].test
                 /\ call.todo = libCalls[u].todo
    BY <1>4, CreateChildFailsIs
  <2>2. LibCallKnown(u, libCalls[u]) /\ libCalls[u].pc \in {"children", "failed"}
    BY <1>4 DEF LibKnown, CreateChildFails
  <2>3. LibCallKnown(u, call)
    BY <2>1, <2>2, IdleKnown DEF LibCallKnown
  <2>4. libFaults' \in 0..MaxLibFaults /\ libFaults' >= libFaults /\ libFaults' > 0
    BY <1>4, FaultIs DEF CreateChildFails
  <2> QED BY <1>4, <2>1, <2>3, <2>4, QuietKnown, LibTypes DEF CreateChildFails
<1> QED BY <1>1, <1>2, <1>3, <1>4

LEMMA CreateSteps ==
  ASSUME LibKnown, NEW u \in LibUsers, CreateChild(u) \/ CreateParent(u) \/ Generate(u)
  PROVE  LibKnown'
<1>1. NextTest \in LibIds
  BY DEF CreateChild, CreateParent, Generate
<1>2. PICK next \in LibIds : next = NextTest
  BY <1>1
<1>3. UNCHANGED <<libLists, libFaults, libVersions, libCrossed, libReleased>>
      /\ libSteps' \in 0..MaxLibSteps
  BY ClickIs, LibTypes DEF CreateChild, CreateParent, Generate
<1>4. LibCallKnown(u, libCalls[u]) /\ Kind(next) = "none"
  BY <1>2, NextTestIs DEF LibKnown
<1>5. ASSUME NEW row \in LibRow, NEW call \in LibCall,
             row.config.kind \in {"child", "group", "plain"},
             row.config.kids # {} => row.config.kind = "group",
             \A k \in row.config.kids : Case(k),
             libRows' = [libRows EXCEPT ![next] = row],
             libCalls' = [libCalls EXCEPT ![u] = call],
             LibCallKnown(u, call)', call.pc = "failed" => libCalls[u].pc = "failed"
      PROVE  LibKnown'
  <2>1. /\ libRows' \in [LibIds -> LibRow] /\ Numbered'
        /\ \A t \in LibIds : RowKnown(t)'
        /\ \A v \in LibUsers, t \in LibIds : ListKnown(v, t)'
        /\ \A k \in LibIds : Case(k) => Case(k)'
        /\ \A k \in LibIds : Kind(k) # "none" => Kind(k)' = Kind(k)
        /\ \A v \in LibUsers : Displayed(v)' = Displayed(v)
    BY <1>2, <1>3, <1>5, NewRow
  <2>2. \A v \in LibUsers \ {u} : libCalls[v].pc = "children" =>
           \A k \in libCalls[v].kids : Kind(k) = "child" => Kind(k)' = "child"
    BY <2>1, LibTypes DEF LibCall
  <2> QED BY <1>3, <1>5, <2>1, <2>2, ChangeKnown, LibTypes
<1>6. CASE CreateChild(u)
  <2>1. PICK row \in LibRow, call \in LibCall :
          /\ libRows' = [libRows EXCEPT ![next] = row] /\ row.rev = 0
          /\ row.config.kind = "child" /\ row.config.kids = {}
          /\ libCalls[u].pc \in {"children", "failed"}
          /\ libCalls' = [libCalls EXCEPT ![u] = call]
          /\ \/ call = NoLibCall /\ libCalls[u].pc = "failed"
             \/ /\ call.pc = libCalls[u].pc /\ call.test = libCalls[u].test
                /\ call.todo = libCalls[u].todo
                /\ call.kids = libCalls[u].kids \cup {next}
    BY <1>2, <1>6, CreateChildIs
  <2>2. /\ \A k \in LibIds : Case(k) => Case(k)'
        /\ \A k \in LibIds : Kind(k) # "none" => Kind(k)' = Kind(k)
        /\ Kind(next)' = "child" /\ \A v \in LibUsers : next \notin Displayed(v)'
    <3>1. /\ \A k \in LibIds : Case(k) => Case(k)' /\ k # next
          /\ \A k \in LibIds : Kind(k) # "none" => Kind(k)' = Kind(k) /\ Kids(k)' = Kids(k)
          /\ Kind(next)' = row.config.kind /\ Kids(next)' = row.config.kids
          /\ \A v \in LibUsers : Displayed(v)' = Displayed(v) /\ next \notin Displayed(v)
      BY <1>2, <1>3, <2>1, NewRow
    <3> QED BY <2>1, <3>1
  <2>3. Case(next)'
    BY <2>2 DEF Case
  <2>4. LibCallKnown(u, call)'
    <3>1. CASE call = NoLibCall
      BY <3>1 DEF LibCallKnown, NoLibCall
    <3>2. CASE call # NoLibCall
      <4>1. \A k \in libCalls[u].kids : k \in LibIds
        BY LibTypes DEF LibCall
      <4>2. call.pc = "children" => \A k \in call.kids : Kind(k)' = "child" /\ Case(k)'
        BY <1>4, <2>1, <2>2, <2>3, <3>2, <4>1 DEF LibCallKnown
      <4> QED BY <1>4, <2>1, <3>2, <4>2 DEF LibCallKnown
    <3> QED BY <3>1, <3>2
  <2> QED BY <1>5, <2>1, <2>4 DEF NoLibCall
<1>7. CASE CreateParent(u)
  <2>1. PICK rev \in 0..MaxLibSteps, call \in LibCall :
          /\ libRows' = [libRows EXCEPT ![next] =
               [config |-> [kind |-> "group", kids |-> libCalls[u].kids], rev |-> rev]]
          /\ libCalls' = [libCalls EXCEPT ![u] = call] /\ libCalls[u].pc = "children"
          /\ \/ call = NoLibCall /\ rev = 0
             \/ /\ call.pc = "max" /\ call.test = next /\ call.rev = rev
                /\ call.todo = libCalls[u].todo /\ call.op = libCalls[u].op
    BY <1>2, <1>7, CreateParentIs
  <2>2. PICK row : row = [config |-> [kind |-> "group", kids |-> libCalls[u].kids], rev |-> rev]
    OBVIOUS
  <2>3. /\ row \in LibRow /\ row.config.kind = "group" /\ row.config.kids = libCalls[u].kids
        /\ \A k \in row.config.kids : Case(k)
    BY <1>4, <2>1, <2>2, LibTypes DEF LibRow, Config, LibCall, LibCallKnown
  <2>4. Kind(next)' = "group"
    BY <1>2, <1>3, <2>1, <2>2, <2>3, NewRow
  <2>5. LibCallKnown(u, call)'
    <3>1. CASE call = NoLibCall
      BY <3>1 DEF LibCallKnown, NoLibCall
    <3>2. CASE call # NoLibCall
      BY <1>4, <2>1, <2>4, <3>2 DEF LibCallKnown
    <3> QED BY <3>1, <3>2
  <2> QED BY <1>5, <2>1, <2>2, <2>3, <2>5 DEF NoLibCall
<1>8. CASE Generate(u)
  <2>1. PICK rev \in 0..MaxLibSteps, call \in LibCall :
          /\ libRows' = [libRows EXCEPT ![next] =
               [config |-> [kind |-> "plain", kids |-> {}], rev |-> rev]]
          /\ libCalls' = [libCalls EXCEPT ![u] = call]
          /\ call.pc = "max" /\ call.test = next /\ call.rev = rev
          /\ call.todo = {} /\ call.op = "generate"
    BY <1>2, <1>8, GenerateIs
  <2>2. PICK row : row = [config |-> [kind |-> "plain", kids |-> {}], rev |-> rev]
    OBVIOUS
  <2>3. row \in LibRow /\ row.config.kind = "plain" /\ row.config.kids = {}
    BY <2>2 DEF LibRow, Config
  <2>4. Kind(next)' = "plain"
    BY <1>2, <1>3, <2>1, <2>2, <2>3, NewRow
  <2>5. LibCallKnown(u, call)'
    BY <2>1, <2>4 DEF LibCallKnown
  <2> QED BY <1>5, <2>1, <2>2, <2>3, <2>5
<1> QED BY <1>6, <1>7, <1>8

LEMMA UpdateSteps ==
  ASSUME LibKnown, Counted, NEW u \in LibUsers,
         ReadTest(u) \/ WriteTest(u) \/ ReadMax(u) \/ CreateVersion(u) \/ LibFails(u)
  PROVE  LibKnown'
<1> DEFINE c == libCalls[u]
<1>1. PICK call \in LibCall :
        /\ libCalls' = [libCalls EXCEPT ![u] = call]
        /\ \/ call = NoLibCall
           \/ /\ call.test = libCalls[u].test /\ call.todo = libCalls[u].todo
              /\ call.rev = libCalls[u].rev /\ call.op \in {libCalls[u].op, "save"}
              /\ \/ ReadTest(u) /\ call.pc = "write" /\ call.op = libCalls[u].op
                 \/ WriteTest(u) /\ call.pc = "max" /\ Exists(call.test)
                 \/ /\ ReadMax(u) /\ call.pc = "version"
                    /\ call.last = LastNumber(libCalls[u].test)
                 \/ CreateVersion(u) /\ call.pc = "read" /\ call.op = "save"
  BY UpdateIs
<1>2. c \in LibCall /\ LibCallKnown(u, c)
  BY LibTypes DEF LibKnown
<1>3. /\ ReadTest(u) => c.pc = "read"
      /\ WriteTest(u) => c.pc = "write"
      /\ ReadMax(u) => c.pc = "max"
      /\ CreateVersion(u) => c.pc = "version"
  BY UpdateAt
<1>4. LibCallKnown(u, call)
  <2>1. CASE call = NoLibCall
    BY <2>1, IdleKnown
  <2>2. CASE call # NoLibCall
    <3>1. /\ call.pc \in {"write", "max", "version", "read"} /\ c.pc \in UpdatePcs \cup {"read"}
          /\ call.todo = {} /\ call.test \in LibIds /\ Kind(call.test) # "none"
      BY <1>1, <1>2, <1>3, <2>2 DEF LibCallKnown, UpdatePcs
    <3>2. call.pc \in {"read", "write"} /\ call.op = "edit" => call.test \in Displayed(u)
      BY <1>1, <1>2, <1>3, <2>2 DEF LibCallKnown
    <3> QED BY <3>1, <3>2 DEF LibCallKnown
  <2> QED BY <2>1, <2>2
<1>5. call.pc # "failed" /\ UNCHANGED <<libLists, libSteps>>
  BY <1>1 DEF NoLibCall, ReadTest, WriteTest, ReadMax, CreateVersion, LibFails
<1>6. CASE WriteTest(u) /\ Exists(c.test)
  <2>1. /\ c.test \in LibIds /\ Kind(c.test) # "none" /\ c.pc = "write"
        /\ call.pc \in {"idle", "max"}
    BY <1>1, <1>2, <1>3, <1>6 DEF LibCallKnown, WriteTest, NoLibCall, ReadTest, ReadMax,
       CreateVersion
  <2>2. PICK t \in LibIds : t = c.test
    BY <2>1
  <2>3. PICK config : config = IF c.op = "edit" THEN [kind |-> "plain", kids |-> {}]
                               ELSE libRows[t].config
    OBVIOUS
  <2>4. PICK row : row = [config |-> config, rev |-> c.rev]
    OBVIOUS
  <2>5. libRows[t] \in LibRow /\ libRows[t].config \in Config /\ c.rev \in 0..MaxLibSteps
    BY <1>2, LibTypes DEF LibRow, LibCall
  <2>6. config \in Config
    BY <2>3, <2>5 DEF Config
  <2>7. row \in LibRow /\ row.config = config
    BY <2>4, <2>5, <2>6 DEF LibRow
  <2>8. libRows' = [libRows EXCEPT ![t] = row]
    BY <1>6, <2>2, <2>3, <2>4 DEF WriteTest
  <2>9. Kind(t) \notin {"none", "deleted"}
    BY <1>6, <2>2 DEF Exists, Kind
  <2>10. c.op = "edit" => t \in Displayed(u) /\ Kind(t) \in {"group", "plain"}
    BY <1>2, <2>1, <2>2, <2>9 DEF LibCallKnown, LibKnown, ListKnown
  <2>11. Becomes(u, t, row)
    BY <2>3, <2>7, <2>9, <2>10 DEF Becomes, Kind
  <2>12. Kind(t) = "child" => row.config.kind = "child"
    BY <2>3, <2>7, <2>10 DEF Kind
  <2>13. /\ libRows' \in [LibIds -> LibRow] /\ Numbered'
         /\ \A s \in LibIds : RowKnown(s)'
         /\ \A v \in LibUsers, s \in LibIds : ListKnown(v, s)'
         /\ \A k \in LibIds : Case(k) => Case(k)'
         /\ \A k \in LibIds : k # t => Kind(k)' = Kind(k) /\ Kids(k)' = Kids(k)
         /\ \A k \in LibIds : Kind(k)' = "none" <=> Kind(k) = "none"
         /\ Kind(t)' = row.config.kind
         /\ \A v \in LibUsers : Displayed(v)' = Displayed(v)
    BY <1>5, <2>2, <2>7, <2>8, <2>9, <2>11, OldRow
  <2>14. \A v \in LibUsers \ {u} : libCalls[v].pc = "children" =>
           \A k \in libCalls[v].kids : Kind(k) = "child" => Kind(k)' = "child"
    <3>1. \A v \in LibUsers : \A k \in libCalls[v].kids : k \in LibIds
      BY LibTypes DEF LibCall
    <3> QED BY <2>12, <2>13, <3>1
  <2>15. LibCallKnown(u, call)'
    <3>1. CASE call = NoLibCall
      BY <3>1 DEF LibCallKnown, NoLibCall
    <3>2. CASE call # NoLibCall
      BY <1>1, <1>4, <2>1, <2>2, <2>9, <2>13, <3>2 DEF LibCallKnown
    <3> QED BY <3>1, <3>2
  <2>16. /\ UNCHANGED <<libFaults, libVersions, libCrossed>>
         /\ libReleased' \subseteq LibIds
    BY <1>6, <2>2, <2>5, LibTypes DEF WriteTest, Config
  <2> QED BY <1>1, <1>5, <2>13, <2>14, <2>15, <2>16, ChangeKnown, LibTypes
<1>7. CASE ~(WriteTest(u) /\ Exists(c.test))
  <2>1. UNCHANGED <<libRows, libLists, libReleased, libSteps>>
    BY <1>7 DEF ReadTest, WriteTest, ReadMax, CreateVersion, LibFails
  <2>2. libCrossed' \subseteq LibIds
    BY <1>2, <1>3, LibTypes DEF ReadTest, WriteTest, ReadMax, CreateVersion, LibFails,
       LibCallKnown
  <2>3. libVersions' \subseteq Version
    <3>1. CASE CreateVersion(u)
      <4>1. /\ c.test \in LibIds /\ c.last \in Nat /\ c.rev \in 0..MaxLibSteps
        BY <1>2, <1>3, <3>1 DEF LibCallKnown, LibCall
      <4>2. [test |-> c.test, number |-> c.last + 1, rev |-> c.rev] \in Version
        BY <4>1 DEF Version
      <4> QED BY <3>1, <4>2, LibTypes DEF CreateVersion
    <3> QED BY <3>1, LibTypes DEF ReadTest, WriteTest, ReadMax, LibFails
  <2>4. libFaults' \in 0..MaxLibFaults /\ (libFaults > 0 => libFaults' > 0)
    BY FaultIs, LibTypes DEF ReadTest, WriteTest, ReadMax, CreateVersion, LibFails
  <2> QED BY <1>1, <1>4, <1>5, <2>1, <2>2, <2>3, <2>4, QuietKnown, LibTypes
<1> QED BY <1>6, <1>7

LEMMA DeleteSteps ==
  ASSUME LibKnown, OneGroup, NEW u \in LibUsers, NEW t \in LibIds, DeleteOne(u, t)
  PROVE  LibKnown'
<1> DEFINE c == libCalls[u]
<1>1. /\ \/ c.pc \in {"kids", "bulk"} /\ t \in c.todo
         \/ c.pc = "self" /\ t = c.test
      /\ \/ /\ libRows' = [libRows EXCEPT ![t] =
                 [config |-> [kind |-> "deleted", kids |-> {}], rev |-> 0]]
            /\ libVersions' = {v \in libVersions : v.test # t}
            /\ UNCHANGED libFaults
         \/ LibFault /\ UNCHANGED <<libRows, libVersions>>
      /\ UNCHANGED <<libLists, libCrossed, libReleased, libSteps>>
  BY DeleteOneIs
<1>2. PICK call \in LibCall :
        /\ libCalls' = [libCalls EXCEPT ![u] = call]
        /\ \/ /\ call = NoLibCall
              /\ \/ c.pc = "self"
                 \/ c.pc = "bulk" /\ c.todo = {t}
           \/ /\ c.pc \in {"kids", "bulk"}
              /\ call.todo = c.todo \ {t} /\ call.test = c.test
              /\ call.op = c.op
              /\ \/ call.pc = "self" /\ c.pc = "kids" /\ call.todo = {}
                 \/ call.pc = c.pc
  BY DeleteOneIs
<1>3. c \in LibCall /\ LibCallKnown(u, c)
  BY LibTypes DEF LibKnown
<1>4. LibCallKnown(u, call)
  <2>1. CASE call = NoLibCall
    BY <2>1, IdleKnown
  <2>2. CASE call # NoLibCall
    BY <1>2, <1>3, <2>2 DEF LibCallKnown
  <2> QED BY <2>1, <2>2
<1>5. call.pc # "failed"
  BY <1>2 DEF NoLibCall
<1>6. CASE LibFault /\ UNCHANGED <<libRows, libVersions>>
  <2>1. libFaults' \in 0..MaxLibFaults /\ libFaults' > 0
    BY <1>6, FaultIs
  <2> QED BY <1>1, <1>2, <1>4, <1>5, <1>6, <2>1, QuietKnown, LibTypes
<1>7. CASE /\ libRows' = [libRows EXCEPT ![t] =
                [config |-> [kind |-> "deleted", kids |-> {}], rev |-> 0]]
           /\ libVersions' = {v \in libVersions : v.test # t}
           /\ UNCHANGED libFaults
  <2>1. PICK row : row = [config |-> [kind |-> "deleted", kids |-> {}], rev |-> 0]
    OBVIOUS
  <2>2. row \in LibRow /\ row.config.kind = "deleted" /\ row.config.kids = {}
    BY <2>1, LibTypes DEF LibRow, Config
  <2>3. Kind(t) # "none"
    BY <1>1, <1>3 DEF LibCallKnown, LibKnown, ListKnown
  <2>4. Becomes(u, t, row)
    BY <2>2 DEF Becomes
  <2>5. /\ libRows' \in [LibIds -> LibRow] /\ Numbered'
        /\ \A s \in LibIds : RowKnown(s)'
        /\ \A v \in LibUsers, s \in LibIds : ListKnown(v, s)'
        /\ \A k \in LibIds : Case(k) => Case(k)'
        /\ \A k \in LibIds : k # t => Kind(k)' = Kind(k) /\ Kids(k)' = Kids(k)
        /\ \A k \in LibIds : Kind(k)' = "none" <=> Kind(k) = "none"
        /\ \A v \in LibUsers : Displayed(v)' = Displayed(v)
    BY <1>1, <1>7, <2>1, <2>2, <2>3, <2>4, OldRow
  <2>6. \A v \in LibUsers : libCalls[v].pc = "children" => t \notin libCalls[v].kids
    <3>1. CASE c.pc \in {"kids", "bulk"} /\ t \in c.todo
      BY <3>1 DEF OneGroup, Uploading
    <3>2. CASE c.pc = "self" /\ t = c.test
      BY <1>3, <3>2 DEF LibKnown, LibCallKnown, ListKnown
    <3> QED BY <1>1, <3>1, <3>2
  <2>7. \A v \in LibUsers \ {u} : libCalls[v].pc = "children" =>
           \A k \in libCalls[v].kids : Kind(k) = "child" => Kind(k)' = "child"
    <3>1. \A v \in LibUsers : \A k \in libCalls[v].kids : k \in LibIds
      BY LibTypes DEF LibCall
    <3> QED BY <2>5, <2>6, <3>1
  <2>8. LibCallKnown(u, call)'
    <3>1. call.todo \subseteq LibIds /\ call.pc # "children"
      BY <1>2 DEF LibCall, NoLibCall
    <3> QED BY <1>4, <2>5, <3>1 DEF LibCallKnown
  <2>9. libVersions' \subseteq Version
    BY <1>7, LibTypes
  <2> QED BY <1>1, <1>2, <1>5, <1>7, <2>5, <2>7, <2>8, <2>9, ChangeKnown, LibTypes
<1> QED BY <1>1, <1>6, <1>7

\* A list that is fetched.
LEMMA RefetchIs ==
  ASSUME LibKnown, NEW u \in LibUsers, Refetch(u)
  PROVE  \E list \in [LibIds -> Config] :
           /\ libLists' = [libLists EXCEPT ![u] = list]
           /\ \A t \in LibIds : list[t] = IF Exists(t) THEN libRows[t].config ELSE NoConfig
           /\ \A t \in LibIds : list[t].kids = IF Exists(t) THEN Kids(t) ELSE {}
           /\ libCalls[u] = NoLibCall
           /\ UNCHANGED <<libRows, libVersions, libCalls, libCrossed, libReleased, libSteps,
                          libFaults>>
<1>1. PICK list : list = [t \in LibIds |-> IF Exists(t) THEN libRows[t].config ELSE NoConfig]
  OBVIOUS
<1>2. NoConfig \in Config
  BY DEF NoConfig, Config
<1>3. list \in [LibIds -> Config]
  BY <1>1, <1>2, LibTypes DEF LibRow
<1>4. \A t \in LibIds : list[t].kids = IF Exists(t) THEN Kids(t) ELSE {}
  BY <1>1 DEF NoConfig, Kids
<1>5. libCalls[u] = NoLibCall
  BY DEF Refetch, LibKnown, LibCallKnown
<1> QED BY <1>1, <1>3, <1>4, <1>5 DEF Refetch

LEMMA RefetchKnown ==
  ASSUME LibKnown, NEW u \in LibUsers, Refetch(u)
  PROVE  LibKnown'
<1>1. PICK list \in [LibIds -> Config] :
        /\ libLists' = [libLists EXCEPT ![u] = list]
        /\ \A t \in LibIds : list[t] = IF Exists(t) THEN libRows[t].config ELSE NoConfig
        /\ \A t \in LibIds : list[t].kids = IF Exists(t) THEN Kids(t) ELSE {}
        /\ libCalls[u] = NoLibCall
        /\ UNCHANGED <<libRows, libVersions, libCalls, libCrossed, libReleased, libSteps,
                       libFaults>>
  BY RefetchIs
<1>2. LibTypeOK'
  BY <1>1 DEF LibKnown, LibTypeOK
<1>3. \A t : Kind(t)' = Kind(t) /\ Kids(t)' = Kids(t)
  BY <1>1 DEF Kind, Kids
<1>4. /\ libLists'[u] = list
      /\ \A v \in LibUsers : v # u => libLists'[v] = libLists[v] /\ Displayed(v)' = Displayed(v)
  BY <1>1, LibTypes DEF Displayed
<1>5. \A t \in LibIds : t \in Displayed(u)' <=> Kind(t) \in {"group", "plain"}
  BY <1>1, <1>4 DEF Displayed, Exists, Kind, NoConfig
<1>6. \A k \in LibIds : Case(k) => Case(k)'
  BY <1>3, <1>4, <1>5 DEF Case
<1>7. ASSUME NEW t \in LibIds PROVE RowKnown(t)'
  <2>1. RowKnown(t) /\ \A k \in Kids(t) : k \in LibIds
    BY LibTypes DEF LibKnown, Kids, LibRow, Config
  <2> QED BY <1>1, <1>3, <1>6, <2>1 DEF RowKnown
<1>8. ASSUME NEW v \in LibUsers, NEW t \in LibIds PROVE ListKnown(v, t)'
  <2>1. ListKnown(v, t) /\ \A k \in libLists[v][t].kids : k \in LibIds
    BY LibTypes DEF LibKnown, Config
  <2>2. RowKnown(t) /\ \A k \in Kids(t) : k \in LibIds
    BY LibTypes DEF LibKnown, Kids, LibRow, Config
  <2>3. CASE v = u
    BY <1>1, <1>3, <1>4, <1>5, <1>6, <2>2, <2>3 DEF ListKnown, RowKnown, Exists, Kind
  <2>4. CASE v # u
    BY <1>3, <1>4, <1>6, <2>1, <2>4 DEF ListKnown
  <2> QED BY <2>3, <2>4
<1>9. ASSUME NEW v \in LibUsers PROVE LibCallKnown(v, libCalls[v])'
  <2>1. libCalls[v] \in LibCall /\ LibCallKnown(v, libCalls[v]) /\ libCalls'[v] = libCalls[v]
    BY <1>1, LibTypes DEF LibKnown
  <2>2. \A k \in libCalls[v].kids \cup libCalls[v].todo : k \in LibIds
    BY <2>1 DEF LibCall
  <2>3. CASE v = u
    BY <1>1, <2>1, <2>3 DEF LibCallKnown, NoLibCall
  <2>4. CASE v # u
    BY <1>3, <1>4, <1>6, <2>1, <2>2, <2>4 DEF LibCallKnown
  <2> QED BY <2>3, <2>4
<1>10. Numbered' /\ FailedOnFault'
  BY <1>1, <1>3 DEF LibKnown, Numbered, FailedOnFault
<1> QED BY <1>2, <1>7, <1>8, <1>9, <1>10 DEF LibKnown

LEMMA LibKnownKept ==
  ASSUME LibKnown, OneGroup, Counted, [LibNext]_libVars
  PROVE  LibKnown'
<1>1. CASE UNCHANGED libVars
  <2>1. UNCHANGED <<libRows, libVersions, libLists, libCalls, libCrossed, libReleased,
                    libSteps, libFaults>>
    BY <1>1 DEF libVars
  <2>2. /\ \A t : Kind(t)' = Kind(t) /\ Kids(t)' = Kids(t)
        /\ \A v : Displayed(v)' = Displayed(v)
        /\ \A k : Case(k)' = Case(k)
    BY <2>1 DEF Kind, Kids, Displayed, Case
  <2>3. LibTypeOK' /\ Numbered' /\ FailedOnFault'
    BY <2>1, <2>2 DEF LibKnown, LibTypeOK, Numbered, FailedOnFault
  <2>4. \A t \in LibIds : RowKnown(t)' /\ \A v \in LibUsers : ListKnown(v, t)'
    BY <2>1, <2>2 DEF LibKnown, RowKnown, ListKnown
  <2>5. ASSUME NEW v \in LibUsers PROVE LibCallKnown(v, libCalls[v])'
    BY <2>1, <2>2 DEF LibKnown, LibCallKnown
  <2> QED BY <2>3, <2>4, <2>5 DEF LibKnown
<1>2. CASE LibNext
  <2>1. PICK u \in LibUsers :
          \/ Refetch(u)
          \/ \E n \in 1..MaxCases : Upload(u, n)
          \/ CreateChild(u) \/ CreateChildFails(u) \/ CreateParent(u)
          \/ \E t \in LibIds : DeleteTest(u, t) \/ DeleteOne(u, t) \/ Edit(u, t)
          \/ \E S \in SUBSET LibIds : BulkDelete(u, S)
          \/ Generate(u) \/ ReadTest(u) \/ WriteTest(u) \/ ReadMax(u) \/ CreateVersion(u)
          \/ LibFails(u)
    BY <1>2 DEF LibNext
  <2> QED BY <2>1, RefetchKnown, QuietSteps, CreateSteps, UpdateSteps, DeleteSteps
<1> QED BY <1>1, <1>2

-----------------------------------------------------------------------------
(* A case is in one group.                                                 *)

LEMMA GroupsKept ==
  ASSUME LibKnown, OneGroup, NEW u \in LibUsers, NEW call \in LibCall,
         libCalls' = [libCalls EXCEPT ![u] = call], UNCHANGED libLists,
         \A g \in LibIds : Kids(g)' \subseteq Kids(g),
         call.pc = "children" =>
           /\ call.todo = {}
           /\ \A k \in call.kids : Kind(k) = "none" \/ (Uploading(u) /\ k \in libCalls[u].kids),
         \A v \in LibUsers : Uploading(v) => libCalls[v].kids \cap call.todo = {}
  PROVE  OneGroup'
<1>1. libCalls'[u] = call /\ \A v \in LibUsers \ {u} : libCalls'[v] = libCalls[v]
  BY Goto DEF LibKnown
<1>2. ASSUME NEW v \in LibUsers, Uploading(v)', NEW k \in libCalls'[v].kids
      PROVE  \/ v = u /\ Kind(k) = "none"
             \/ Uploading(v) /\ k \in libCalls[v].kids /\ Kind(k) = "child"
  <2>1. Uploading(v) => \A j \in libCalls[v].kids : Kind(j) = "child"
    BY DEF LibKnown, LibCallKnown, Uploading
  <2> QED BY <1>1, <1>2, <2>1 DEF Uploading
<1>3. \A g, h \in LibIds : Kids(g)' \cap Kids(h)' # {} => g = h
  BY DEF OneGroup
<1>4. \A v \in LibUsers, s, g \in LibIds : libLists'[v][s].kids \cap Kids(g)' # {} => s = g
  BY DEF OneGroup
<1>5. ASSUME NEW v \in LibUsers, Uploading(v)', NEW k \in libCalls'[v].kids
      PROVE  /\ \A g \in LibIds : k \notin Kids(g)'
             /\ \A w \in LibUsers : /\ k \notin libCalls'[w].todo
                                    /\ \A s \in LibIds : k \notin libLists'[w][s].kids
                                    /\ w # v /\ Uploading(w)' => k \notin libCalls'[w].kids
  <2>1. \A g \in LibIds : k \notin Kids(g)'
    BY <1>2, <1>5 DEF OneGroup, LibKnown, RowKnown, Case
  <2>2. ASSUME NEW w \in LibUsers PROVE k \notin libCalls'[w].todo
    <3>1. CASE w = u
      BY <1>1, <1>2, <1>5, <3>1 DEF Uploading
    <3>2. CASE w # u
      BY <1>1, <1>2, <1>5, <3>2 DEF OneGroup, LibKnown, LibCallKnown
    <3> QED BY <3>1, <3>2
  <2>3. \A w \in LibUsers, s \in LibIds : k \notin libLists'[w][s].kids
    BY <1>2, <1>5 DEF OneGroup, LibKnown, ListKnown, Case
  <2>4. ASSUME NEW w \in LibUsers, w # v, Uploading(w)', k \in libCalls'[w].kids PROVE FALSE
    BY <1>2, <1>5, <2>4 DEF OneGroup
  <2> QED BY <2>1, <2>2, <2>3, <2>4
<1>6. \A v \in LibUsers : Uploading(v)' =>
        /\ \A g \in LibIds : libCalls'[v].kids \cap Kids(g)' = {}
        /\ \A w \in LibUsers :
             /\ libCalls'[v].kids \cap libCalls'[w].todo = {}
             /\ \A s \in LibIds : libCalls'[v].kids \cap libLists'[w][s].kids = {}
             /\ w # v /\ Uploading(w)' => libCalls'[v].kids \cap libCalls'[w].kids = {}
  BY <1>5
<1> QED BY <1>3, <1>4, <1>6 DEF OneGroup

\* The cases of a group may only become fewer, but for a new group.
LEMMA KidsShrink ==
  ASSUME LibKnown, NEW u \in LibUsers,
         \/ \E n \in 1..MaxCases : Upload(u, n)
         \/ CreateChild(u) \/ CreateChildFails(u) \/ Generate(u)
         \/ \E t \in LibIds : DeleteTest(u, t) \/ DeleteOne(u, t) \/ Edit(u, t)
         \/ \E S \in SUBSET LibIds : BulkDelete(u, S)
         \/ ReadTest(u) \/ WriteTest(u) \/ ReadMax(u) \/ CreateVersion(u) \/ LibFails(u)
  PROVE  \A g \in LibIds : Kids(g)' \subseteq Kids(g)
<1>1. CASE CreateChild(u)
  <2>1. PICK next \in LibIds, row \in LibRow :
          /\ libRows' = [libRows EXCEPT ![next] = row] /\ row.config.kids = {}
    BY <1>1, CreateChildIs
  <2> QED BY <2>1, LibTypes DEF Kids
<1>2. CASE Generate(u)
  BY <1>2, LibTypes, GenerateIs DEF Kids
<1>3. CASE \E t \in LibIds : DeleteOne(u, t)
  <2>1. PICK t \in LibIds : DeleteOne(u, t)
    BY <1>3
  <2>2. \/ libRows' = [libRows EXCEPT ![t] =
             [config |-> [kind |-> "deleted", kids |-> {}], rev |-> 0]]
        \/ UNCHANGED libRows
    BY <2>1, DeleteOneIs
  <2> QED BY <2>2, LibTypes DEF Kids
<1>4. CASE WriteTest(u)
  BY <1>4, LibTypes DEF Kids, WriteTest
<1>5. CASE \/ \E n \in 1..MaxCases : Upload(u, n)
           \/ \E t \in LibIds : DeleteTest(u, t) \/ Edit(u, t)
           \/ \E S \in SUBSET LibIds : BulkDelete(u, S)
           \/ CreateChildFails(u) \/ ReadTest(u) \/ ReadMax(u) \/ CreateVersion(u)
           \/ LibFails(u)
  <2>1. UNCHANGED libRows
    BY <1>5 DEF Upload, CreateChildFails, DeleteTest, Edit, BulkDelete, ReadTest, ReadMax,
       CreateVersion, LibFails
  <2> QED BY <2>1 DEF Kids
<1> QED BY <1>1, <1>2, <1>3, <1>4, <1>5

LEMMA GroupOfUpload ==
  ASSUME LibKnown, OneGroup, NEW u \in LibUsers, CreateParent(u)
  PROVE  OneGroup'
<1>1. NextTest \in LibIds
  BY CreateParentIs
<1>2. PICK next \in LibIds : next = NextTest
  BY <1>1
<1>3. PICK rev \in 0..MaxLibSteps, call \in LibCall :
        /\ libCalls[u].pc = "children"
        /\ libRows' = [libRows EXCEPT ![next] =
             [config |-> [kind |-> "group", kids |-> libCalls[u].kids], rev |-> rev]]
        /\ libCalls' = [libCalls EXCEPT ![u] = call]
        /\ call.pc \in {"idle", "max"} /\ call.todo = {}
  <2>1. libCalls[u].pc = "children" => libCalls[u].todo = {}
    BY DEF LibKnown, LibCallKnown
  <2> QED BY <1>2, <2>1, CreateParentIs DEF NoLibCall
<1>4. /\ Kids(next)' = libCalls[u].kids
      /\ \A g \in LibIds : g # next => Kids(g)' = Kids(g)
      /\ UNCHANGED libLists
  BY <1>3, LibTypes DEF Kids, CreateParent
<1>5. libCalls'[u] = call /\ \A v \in LibUsers \ {u} : libCalls'[v] = libCalls[v]
  BY <1>3, Goto DEF LibKnown
<1>6. \A g, h \in LibIds : Kids(g)' \cap Kids(h)' # {} => g = h
  BY <1>3, <1>4 DEF OneGroup, Uploading
<1>7. \A v \in LibUsers, s, g \in LibIds : libLists'[v][s].kids \cap Kids(g)' # {} => s = g
  BY <1>3, <1>4 DEF OneGroup, Uploading
<1>8. ASSUME NEW v \in LibUsers, Uploading(v)'
      PROVE  /\ \A g \in LibIds : libCalls'[v].kids \cap Kids(g)' = {}
             /\ \A w \in LibUsers :
                  /\ libCalls'[v].kids \cap libCalls'[w].todo = {}
                  /\ \A s \in LibIds : libCalls'[v].kids \cap libLists'[w][s].kids = {}
                  /\ w # v /\ Uploading(w)' => libCalls'[v].kids \cap libCalls'[w].kids = {}
  <2>1. v # u /\ Uploading(v) /\ libCalls'[v] = libCalls[v]
    BY <1>3, <1>5, <1>8 DEF Uploading
  <2>2. \A g \in LibIds : libCalls'[v].kids \cap Kids(g)' = {}
    BY <1>3, <1>4, <2>1 DEF OneGroup, Uploading
  <2>3. \A w \in LibUsers : libCalls'[w].todo = {} \/ libCalls'[w].todo = libCalls[w].todo
    BY <1>3, <1>5
  <2>4. \A w \in LibUsers : Uploading(w)' =>
          Uploading(w) /\ libCalls'[w].kids = libCalls[w].kids
    BY <1>3, <1>5 DEF Uploading
  <2> QED BY <1>4, <2>1, <2>2, <2>3, <2>4 DEF OneGroup
<1> QED BY <1>6, <1>7, <1>8 DEF OneGroup

LEMMA GroupsOfList ==
  ASSUME LibKnown, OneGroup, NEW u \in LibUsers, Refetch(u)
  PROVE  OneGroup'
<1>1. PICK list \in [LibIds -> Config] :
        /\ libLists' = [libLists EXCEPT ![u] = list]
        /\ \A t \in LibIds : list[t].kids = IF Exists(t) THEN Kids(t) ELSE {}
        /\ UNCHANGED <<libRows, libCalls>>
  BY RefetchIs
<1>2. \A t : Kids(t)' = Kids(t) /\ (Uploading(t)' <=> Uploading(t))
  BY <1>1 DEF Kids, Uploading
<1>3. \A v \in LibUsers, s \in LibIds :
        \/ libLists'[v][s].kids = libLists[v][s].kids
        \/ libLists'[v][s].kids \subseteq Kids(s)
  BY <1>1, LibTypes
<1>4. \A v \in LibUsers, s, g \in LibIds : libLists'[v][s].kids \cap Kids(g)' # {} => s = g
  BY <1>2, <1>3 DEF OneGroup
<1>5. \A v, w \in LibUsers, s \in LibIds : Uploading(v) =>
        libCalls[v].kids \cap libLists'[w][s].kids = {}
  BY <1>3 DEF OneGroup
<1> QED BY <1>1, <1>2, <1>4, <1>5 DEF OneGroup

LEMMA OneGroupKept ==
  ASSUME LibKnown, OneGroup, Counted, [LibNext]_libVars
  PROVE  OneGroup'
<1>1. CASE UNCHANGED libVars
  BY <1>1 DEF libVars, OneGroup, Kids, Uploading
<1>2. CASE LibNext
  <2>1. PICK u \in LibUsers :
          \/ Refetch(u)
          \/ \E n \in 1..MaxCases : Upload(u, n)
          \/ CreateChild(u) \/ CreateChildFails(u) \/ CreateParent(u)
          \/ \E t \in LibIds : DeleteTest(u, t) \/ DeleteOne(u, t) \/ Edit(u, t)
          \/ \E S \in SUBSET LibIds : BulkDelete(u, S)
          \/ Generate(u) \/ ReadTest(u) \/ WriteTest(u) \/ ReadMax(u) \/ CreateVersion(u)
          \/ LibFails(u)
    BY <1>2 DEF LibNext
  <2> DEFINE c == libCalls[u]
  <2>2. LibCallKnown(u, c)
    BY DEF LibKnown
  <2>3. CASE Refetch(u)
    BY <2>3, GroupsOfList
  <2>4. CASE CreateParent(u)
    BY <2>4, GroupOfUpload
  <2>5. CASE ~(Refetch(u) \/ CreateParent(u))
    <3>1. (\A g \in LibIds : Kids(g)' \subseteq Kids(g)) /\ UNCHANGED libLists
      BY <2>1, <2>5, KidsShrink DEF Upload, CreateChild, CreateChildFails, Generate, DeleteTest,
         DeleteOne, Edit, BulkDelete, ReadTest, WriteTest, ReadMax, CreateVersion, LibFails
    <3>2. ASSUME NEW call \in LibCall, libCalls' = [libCalls EXCEPT ![u] = call],
                 call.pc = "children" =>
                   /\ call.todo = {}
                   /\ \A k \in call.kids : Kind(k) = "none" \/ (Uploading(u) /\ k \in c.kids),
                 \A v \in LibUsers : Uploading(v) => libCalls[v].kids \cap call.todo = {}
          PROVE  OneGroup'
      BY <3>1, <3>2, GroupsKept
    <3>3. ASSUME NEW n \in 1..MaxCases, Upload(u, n) PROVE OneGroup'
      BY <3>2, <3>3, UploadIs
    <3>4. CASE CreateChild(u)
      <4>1. c.todo = {}
        BY <2>2, <3>4 DEF LibCallKnown, CreateChild
      <4>2. PICK next \in LibIds : next = NextTest /\ Kind(next) = "none"
        BY <3>4, NextTestIs, CreateChildIs
      <4>3. PICK call \in LibCall :
              /\ libCalls' = [libCalls EXCEPT ![u] = call] /\ call.todo = {}
              /\ call.pc = "children" => c.pc = "children" /\ call.kids = c.kids \cup {next}
        BY <3>4, <4>1, <4>2, CreateChildIs DEF NoLibCall
      <4> QED BY <3>2, <4>2, <4>3 DEF Uploading
    <3>5. CASE CreateChildFails(u)
      <4>1. c.todo = {}
        BY <2>2, <3>5 DEF LibCallKnown, CreateChildFails
      <4>2. PICK call \in LibCall :
              /\ libCalls' = [libCalls EXCEPT ![u] = call] /\ call.todo = {}
              /\ call.pc # "children"
        BY <3>5, <4>1, CreateChildFailsIs DEF NoLibCall
      <4> QED BY <3>2, <4>2
    <3>6. ASSUME NEW t \in LibIds, DeleteTest(u, t) \/ Edit(u, t) PROVE OneGroup'
      <4>1. PICK call \in LibCall :
              /\ libCalls' = [libCalls EXCEPT ![u] = call] /\ call.pc # "children"
              /\ call.todo = libLists[u][t].kids \/ call.todo = {}
        BY <3>6, DeleteTestIs, EditIs
      <4>2. \A v \in LibUsers : Uploading(v) => libCalls[v].kids \cap call.todo = {}
        BY <4>1 DEF OneGroup
      <4> QED BY <3>2, <4>1, <4>2
    <3>7. ASSUME NEW S \in SUBSET LibIds, BulkDelete(u, S) PROVE OneGroup'
      <4>1. PICK call \in LibCall :
              /\ libCalls' = [libCalls EXCEPT ![u] = call] /\ call.pc # "children"
              /\ call.todo = S \cup UNION {libLists[u][t].kids : t \in S}
              /\ S \subseteq Displayed(u)
        BY <3>7, BulkDeleteIs
      <4>2. ASSUME NEW v \in LibUsers, Uploading(v), NEW k \in libCalls[v].kids
            PROVE  k \notin call.todo
        BY <4>1, <4>2 DEF OneGroup, LibKnown, LibCallKnown, Case, Uploading
      <4> QED BY <3>2, <4>1, <4>2
    <3>8. ASSUME NEW t \in LibIds, DeleteOne(u, t) PROVE OneGroup'
      <4>1. PICK call \in LibCall :
              /\ libCalls' = [libCalls EXCEPT ![u] = call] /\ call.pc # "children"
              /\ call.todo = {} \/ call.todo = c.todo \ {t}
        BY <3>8, DeleteOneIs DEF NoLibCall
      <4>2. \A v \in LibUsers : Uploading(v) => libCalls[v].kids \cap call.todo = {}
        BY <4>1 DEF OneGroup
      <4> QED BY <3>2, <4>1, <4>2
    <3>9. CASE Generate(u)
      <4>1. PICK call \in LibCall :
              /\ libCalls' = [libCalls EXCEPT ![u] = call] /\ call.pc = "max" /\ call.todo = {}
        BY <3>9, GenerateIs
      <4> QED BY <3>2, <4>1
    <3>10. CASE \/ ReadTest(u) \/ WriteTest(u) \/ ReadMax(u) \/ CreateVersion(u)
                \/ LibFails(u)
      <4>1. c.todo = {}
        BY <2>2, <3>10 DEF LibCallKnown, ReadTest, WriteTest, ReadMax, CreateVersion, LibFails
      <4>2. PICK call \in LibCall :
              /\ libCalls' = [libCalls EXCEPT ![u] = call] /\ call.todo = {}
              /\ call.pc # "children"
        BY <3>10, <4>1, UpdateIs DEF NoLibCall
      <4> QED BY <3>2, <4>2
    <3> QED BY <2>1, <2>5, <3>3, <3>4, <3>5, <3>6, <3>7, <3>8, <3>9, <3>10
  <2> QED BY <2>3, <2>4, <2>5
<1> QED BY <1>1, <1>2

-----------------------------------------------------------------------------
(* A group goes with its cases, and a case stays within reach.             *)

LEMMA QuietTogether ==
  ASSUME LibKnown, Together, NEW u \in LibUsers, NEW call \in LibCall,
         libCalls' = [libCalls EXCEPT ![u] = call], libFaults' = 0 => libFaults = 0,
         call.todo = {}, call.pc \notin {"kids", "self"},
         libCalls[u].todo = {}, libCalls[u].pc \notin {"kids", "self"},
         \A g \in LibIds : Kids(g)' \subseteq Kids(g),
         \A g \in LibIds : \A k \in Kids(g) : Kind(k)' = "deleted" <=> Kind(k) = "deleted"
  PROVE  Together'
<1> SUFFICES ASSUME libFaults' = 0 PROVE Together'
  BY DEF Together
<1>1. libCalls'[u] = call /\ \A v \in LibUsers \ {u} : libCalls'[v] = libCalls[v]
  BY Goto DEF LibKnown
<1>2. \A v \in LibUsers : /\ libCalls'[v].todo = libCalls[v].todo
                          /\ \A g : Goes(v, g)' <=> Goes(v, g)
  BY <1>1 DEF Goes
<1>3. \A v \in LibUsers, g \in LibIds : Goes(v, g)' =>
        \A k \in Kids(g)' : k \in libCalls'[v].todo \/ Kind(k)' = "deleted"
  BY <1>2 DEF Together
<1>4. \A v \in LibUsers, g \in LibIds : Kids(g)' \cap libCalls'[v].todo # {} => Goes(v, g)'
  BY <1>2 DEF Together
<1>5. \A g \in LibIds : (\E k \in Kids(g)' : Kind(k)' = "deleted") =>
        \E v \in LibUsers : Goes(v, g)'
  BY <1>2 DEF Together
<1> QED BY <1>3, <1>4, <1>5 DEF Together

LEMMA QuietReached ==
  ASSUME LibKnown, Reached, NEW u \in LibUsers, NEW call \in LibCall,
         libCalls' = [libCalls EXCEPT ![u] = call], libFaults' = 0 => libFaults = 0,
         libCalls[u].todo = {},
         Uploading(u) => call.pc = "children" /\ libCalls[u].kids \subseteq call.kids,
         \A k \in LibIds : Kind(k)' = "child" =>
           Kind(k) = "child" \/ (call.pc = "children" /\ k \in call.kids),
         libReleased \subseteq libReleased',
         \A g \in LibIds : \A k \in Kids(g) : k \in Kids(g)' \/ k \in libReleased'
  PROVE  Reached'
<1> SUFFICES ASSUME libFaults' = 0, NEW t \in LibIds, Kind(t)' = "child"
             PROVE  \/ \E g \in LibIds : t \in Kids(g)'
                    \/ \E v \in LibUsers : Uploading(v)' /\ t \in libCalls'[v].kids
                    \/ \E v \in LibUsers : t \in libCalls'[v].todo
                    \/ t \in libReleased'
  BY DEF Reached
<1>1. libCalls'[u] = call /\ \A v \in LibUsers \ {u} : libCalls'[v] = libCalls[v]
  BY Goto DEF LibKnown
<1>2. CASE call.pc = "children" /\ t \in call.kids
  BY <1>1, <1>2 DEF Uploading
<1>3. CASE Kind(t) = "child"
  <2>1. \/ \E g \in LibIds : t \in Kids(g)
        \/ \E v \in LibUsers : Uploading(v) /\ t \in libCalls[v].kids
        \/ \E v \in LibUsers : t \in libCalls[v].todo
        \/ t \in libReleased
    BY <1>3 DEF Reached
  <2>2. ASSUME NEW v \in LibUsers, Uploading(v), t \in libCalls[v].kids
        PROVE  Uploading(v)' /\ t \in libCalls'[v].kids
    BY <1>1, <2>2 DEF Uploading
  <2>3. \A v \in LibUsers : t \in libCalls[v].todo => t \in libCalls'[v].todo
    BY <1>1
  <2> QED BY <2>1, <2>2, <2>3
<1> QED BY <1>2, <1>3

\* The steps that neither make nor delete a group.
LEMMA QuietPlaces ==
  ASSUME LibKnown, Counted, Together, Reached, NEW u \in LibUsers,
         \/ \E n \in 1..MaxCases : Upload(u, n)
         \/ CreateChild(u) \/ CreateChildFails(u)
         \/ \E t \in LibIds : Edit(u, t)
         \/ Generate(u) \/ ReadTest(u) \/ WriteTest(u) \/ ReadMax(u) \/ CreateVersion(u)
         \/ LibFails(u)
  PROVE  Together' /\ Reached'
<1> DEFINE c == libCalls[u]
<1>1. LibCallKnown(u, c) /\ c \in LibCall
  BY LibTypes DEF LibKnown
<1>2. c.todo = {} /\ c.pc \notin {"kids", "self"}
  BY <1>1 DEF LibCallKnown, Upload, CreateChild, CreateChildFails, Edit, Generate, ReadTest,
     WriteTest, ReadMax, CreateVersion, LibFails, Click
<1>3. ASSUME libFaults' > 0 PROVE Together' /\ Reached'
  BY <1>3 DEF Together, Reached
<1>4. ASSUME NEW call \in LibCall, libCalls' = [libCalls EXCEPT ![u] = call],
             libFaults' = libFaults, call.todo = {}, call.pc \notin {"kids", "self"},
             Uploading(u) => call.pc = "children" /\ libCalls[u].kids \subseteq call.kids,
             UNCHANGED <<libRows, libReleased>>
      PROVE  Together' /\ Reached'
  <2>1. \A t : Kind(t)' = Kind(t) /\ Kids(t)' = Kids(t)
    BY <1>4 DEF Kind, Kids
  <2> QED BY <1>2, <1>4, <2>1, QuietTogether, QuietReached
<1>5. ASSUME NEW n \in 1..MaxCases, Upload(u, n) PROVE Together' /\ Reached'
  <2>1. ~Uploading(u)
    BY <1>5 DEF Uploading, Upload, Click
  <2>2. PICK call \in LibCall :
          /\ libCalls' = [libCalls EXCEPT ![u] = call]
          /\ call.pc = "children" /\ call.todo = {}
    BY <1>5, UploadIs
  <2>3. UNCHANGED <<libRows, libReleased, libFaults>>
    BY <1>5 DEF Upload
  <2> QED BY <1>4, <2>1, <2>2, <2>3
<1>6. ASSUME NEW t \in LibIds, Edit(u, t) PROVE Together' /\ Reached'
  <2>1. ~Uploading(u)
    BY <1>6 DEF Uploading, Edit, Click
  <2>2. PICK call \in LibCall :
          /\ libCalls' = [libCalls EXCEPT ![u] = call] /\ call.pc = "read" /\ call.todo = {}
    BY <1>6, EditIs
  <2>3. UNCHANGED <<libRows, libReleased, libFaults>>
    BY <1>6 DEF Edit
  <2> QED BY <1>4, <2>1, <2>2, <2>3
<1>7. CASE CreateChild(u)
  <2>1. PICK next \in LibIds, row \in LibRow, call \in LibCall :
          /\ Kind(next) = "none"
          /\ libRows' = [libRows EXCEPT ![next] = row]
          /\ row.config.kind = "child" /\ row.config.kids = {}
          /\ libCalls' = [libCalls EXCEPT ![u] = call]
          /\ c.pc \in {"children", "failed"}
          /\ \/ call = NoLibCall /\ c.pc = "failed"
             \/ /\ call.pc = c.pc /\ call.todo = c.todo
                /\ call.kids = c.kids \cup {next}
    BY <1>7, CreateChildIs, NextTestIs
  <2>2. UNCHANGED <<libReleased, libFaults>>
    BY <1>7 DEF CreateChild
  <2>3. call.todo = {} /\ call.pc \notin {"kids", "self"}
    BY <1>2, <2>1 DEF NoLibCall
  <2>4. /\ Kind(next)' = "child" /\ Kids(next)' = {} /\ Kids(next) = {}
        /\ \A k \in LibIds : k # next => Kind(k)' = Kind(k) /\ Kids(k)' = Kids(k)
    BY <2>1, LibTypes DEF Kind, Kids, LibKnown, RowKnown
  <2>5. \A g \in LibIds : \A k \in Kids(g) : k \in LibIds /\ Kind(k) # "none"
    BY LibTypes DEF LibKnown, RowKnown, Case, Kids, LibRow, Config
  <2>6. \A g \in LibIds : \A k \in Kids(g) : Kind(k)' = "deleted" <=> Kind(k) = "deleted"
    BY <2>1, <2>4, <2>5
  <2>7. \A g \in LibIds : Kids(g)' = Kids(g)
    BY <2>4
  <2>8. Together'
    BY <1>2, <2>1, <2>2, <2>3, <2>6, <2>7, QuietTogether
  <2>9. CASE c.pc = "failed"
    <3>1. libFaults > 0
      BY <2>9 DEF LibKnown, FailedOnFault
    <3> QED BY <2>2, <2>8, <3>1 DEF Reached
  <2>10. CASE c.pc = "children"
    <3>1. call.pc = "children" /\ call.kids = c.kids \cup {next}
      BY <2>1, <2>10
    <3>2. \A k \in LibIds : Kind(k)' = "child" => Kind(k) = "child" \/ k \in call.kids
      BY <2>4, <3>1
    <3> QED BY <1>2, <2>1, <2>2, <2>7, <2>8, <3>1, <3>2, QuietReached
  <2> QED BY <2>1, <2>9, <2>10
<1>8. CASE CreateChildFails(u) \/ LibFails(u)
  BY <1>3, <1>8, FaultIs DEF CreateChildFails, LibFails
<1>9. CASE Generate(u)
  <2>1. PICK next \in LibIds, rev \in 0..MaxLibSteps, call \in LibCall :
          /\ Kind(next) = "none"
          /\ libRows' = [libRows EXCEPT ![next] =
               [config |-> [kind |-> "plain", kids |-> {}], rev |-> rev]]
          /\ libCalls' = [libCalls EXCEPT ![u] = call]
          /\ call.pc = "max" /\ call.todo = {}
    BY <1>9, GenerateIs, NextTestIs
  <2>2. UNCHANGED <<libReleased, libFaults>> /\ ~Uploading(u)
    BY <1>9 DEF Generate, Uploading, Click
  <2>4. /\ Kind(next)' = "plain" /\ Kids(next)' = {} /\ Kids(next) = {}
        /\ \A k \in LibIds : k # next => Kind(k)' = Kind(k) /\ Kids(k)' = Kids(k)
    BY <2>1, LibTypes DEF Kind, Kids, LibKnown, RowKnown
  <2>5. \A g \in LibIds : \A k \in Kids(g) : k \in LibIds /\ Kind(k) # "none"
    BY LibTypes DEF LibKnown, RowKnown, Case, Kids, LibRow, Config
  <2>6. \A g \in LibIds : \A k \in Kids(g) : Kind(k)' = "deleted" <=> Kind(k) = "deleted"
    BY <2>1, <2>4, <2>5
  <2>7. \A g \in LibIds : Kids(g)' = Kids(g)
    BY <2>4
  <2>8. \A k \in LibIds : Kind(k)' = "child" => Kind(k) = "child"
    BY <2>4
  <2> QED BY <1>2, <2>1, <2>2, <2>6, <2>7, <2>8, QuietTogether, QuietReached
<1>10. CASE WriteTest(u) /\ Exists(c.test)
  <2>1. PICK call \in LibCall :
          /\ libCalls' = [libCalls EXCEPT ![u] = call] /\ call.todo = {}
          /\ call.pc \notin {"kids", "self", "children"}
    BY <1>2, <1>10, UpdateIs DEF NoLibCall
  <2>2. PICK t \in LibIds : t = c.test
    BY <1>1, <1>10 DEF LibCallKnown, WriteTest
  <2>3. PICK config : config = IF c.op = "edit" THEN [kind |-> "plain", kids |-> {}]
                               ELSE libRows[t].config
    OBVIOUS
  <2>4. /\ libRows' = [libRows EXCEPT ![t] = [config |-> config, rev |-> c.rev]]
        /\ libReleased' = IF c.op = "edit" THEN libReleased \cup Kids(t) ELSE libReleased
        /\ UNCHANGED libFaults /\ ~Uploading(u)
    BY <1>10, <2>2, <2>3 DEF WriteTest, Kids, Uploading
  <2>5. /\ Kind(t)' = config.kind /\ Kids(t)' = config.kids
        /\ \A k \in LibIds : k # t => Kind(k)' = Kind(k) /\ Kids(k)' = Kids(k)
    BY <2>4, LibTypes DEF Kind, Kids
  <2>6. /\ Kind(t) # "deleted" /\ config.kind # "deleted"
        /\ config.kind = "child" => Kind(t) = "child"
    BY <1>10, <2>2, <2>3 DEF Exists, Kind
  <2>7. \A k \in LibIds : /\ Kind(k)' = "deleted" <=> Kind(k) = "deleted"
                          /\ Kind(k)' = "child" => Kind(k) = "child"
    BY <2>5, <2>6
  <2>8. \A g \in LibIds : \A k \in Kids(g) : k \in LibIds
    BY LibTypes DEF Kids, LibRow, Config
  <2>9. \A g \in LibIds : Kids(g)' \subseteq Kids(g)
    BY <1>10, KidsShrink
  <2>10. \A g \in LibIds : \A k \in Kids(g) : k \in Kids(g)' \/ k \in libReleased'
    BY <2>3, <2>4, <2>5 DEF Kids
  <2>11. Together'
    BY <1>2, <2>1, <2>4, <2>7, <2>8, <2>9, QuietTogether
  <2>12. libReleased \subseteq libReleased'
    BY <2>4
  <2>13. Reached'
    BY <1>2, <2>1, <2>4, <2>7, <2>10, <2>12, QuietReached
  <2> QED BY <2>11, <2>13
<1>11. CASE \/ ReadTest(u) \/ ReadMax(u) \/ CreateVersion(u)
            \/ WriteTest(u) /\ ~Exists(c.test)
  <2>1. PICK call \in LibCall :
          /\ libCalls' = [libCalls EXCEPT ![u] = call] /\ call.todo = {}
          /\ call.pc \notin {"kids", "self", "children"}
    BY <1>2, <1>11, UpdateIs DEF NoLibCall
  <2>2. UNCHANGED <<libRows, libReleased, libFaults>> /\ ~Uploading(u)
    BY <1>11 DEF ReadTest, ReadMax, CreateVersion, WriteTest, Uploading
  <2> QED BY <1>4, <2>1, <2>2
<1> QED BY <1>5, <1>6, <1>7, <1>8, <1>9, <1>10, <1>11

LEMMA ParentPlaces ==
  ASSUME LibKnown, OneGroup, Together, Reached, NEW u \in LibUsers, CreateParent(u)
  PROVE  Together' /\ Reached'
<1> DEFINE c == libCalls[u]
<1>1. PICK next \in LibIds, rev \in 0..MaxLibSteps, call \in LibCall :
        /\ Kind(next) = "none" /\ c.pc = "children" /\ c.todo = {}
        /\ libRows' = [libRows EXCEPT ![next] =
             [config |-> [kind |-> "group", kids |-> c.kids], rev |-> rev]]
        /\ libCalls' = [libCalls EXCEPT ![u] = call]
        /\ call.todo = {} /\ call.pc \in {"idle", "max"}
  <2>1. c.pc = "children" => c.todo = {}
    BY DEF LibKnown, LibCallKnown
  <2> QED BY <2>1, CreateParentIs, NextTestIs DEF NoLibCall
<1>2. UNCHANGED <<libReleased, libFaults>>
  BY DEF CreateParent
<1>3. /\ Kind(next)' = "group" /\ Kids(next)' = c.kids /\ Kids(next) = {}
      /\ \A k \in LibIds : k # next => Kind(k)' = Kind(k) /\ Kids(k)' = Kids(k)
  BY <1>1, LibTypes DEF Kind, Kids, LibKnown, RowKnown
<1>4. libCalls'[u] = call /\ \A v \in LibUsers \ {u} : libCalls'[v] = libCalls[v]
  BY <1>1, Goto DEF LibKnown
<1>5. \A v \in LibUsers :
        libCalls'[v].todo = libCalls[v].todo /\ libCalls[v].todo \subseteq LibIds
  BY <1>1, <1>4, LibTypes DEF LibCall
<1>6. \A v \in LibUsers, g \in LibIds : Goes(v, g)' <=> Goes(v, g)
  BY <1>1, <1>4 DEF Goes
<1>7. \A v \in LibUsers : ~Goes(v, next)
  BY <1>1 DEF Goes, LibKnown, LibCallKnown, ListKnown
<1>8. \A k \in c.kids : k \in LibIds /\ Kind(k) = "child" /\ k # next
  BY <1>1, LibTypes DEF LibKnown, LibCallKnown, LibCall
<1>9. \A g \in LibIds : \A k \in Kids(g) : k \in LibIds /\ k # next
  BY <1>1, LibTypes DEF LibKnown, RowKnown, Case, Kids, LibRow, Config
<1>10. Together'
  <2> SUFFICES ASSUME libFaults' = 0 PROVE Together'
    BY DEF Together
  <2>1. ASSUME NEW v \in LibUsers, NEW g \in LibIds, Goes(v, g)', NEW k \in Kids(g)'
        PROVE  k \in libCalls'[v].todo \/ Kind(k)' = "deleted"
    <3>1. g # next /\ k \in Kids(g)
      BY <1>3, <1>6, <1>7, <2>1
    <3> QED BY <1>2, <1>3, <1>5, <1>6, <1>9, <2>1, <3>1 DEF Together
  <2>2. ASSUME NEW v \in LibUsers, NEW g \in LibIds, Kids(g)' \cap libCalls'[v].todo # {}
        PROVE  Goes(v, g)'
    <3>1. g # next
      BY <1>1, <1>3, <1>5, <2>2 DEF OneGroup, Uploading
    <3> QED BY <1>2, <1>3, <1>5, <1>6, <2>2, <3>1 DEF Together
  <2>3. ASSUME NEW g \in LibIds, NEW k \in Kids(g)', Kind(k)' = "deleted"
        PROVE  \E v \in LibUsers : Goes(v, g)'
    <3>1. g # next
      BY <1>3, <1>8, <2>3
    <3> QED BY <1>2, <1>3, <1>6, <1>9, <2>3, <3>1 DEF Together
  <2> QED BY <2>1, <2>2, <2>3 DEF Together
<1>11. Reached'
  <2> SUFFICES ASSUME libFaults' = 0, NEW t \in LibIds, Kind(t)' = "child"
               PROVE  \/ \E g \in LibIds : t \in Kids(g)'
                      \/ \E v \in LibUsers : Uploading(v)' /\ t \in libCalls'[v].kids
                      \/ \E v \in LibUsers : t \in libCalls'[v].todo
                      \/ t \in libReleased'
    BY DEF Reached
  <2>1. Kind(t) = "child"
    BY <1>3
  <2>2. \/ \E g \in LibIds : t \in Kids(g)
        \/ \E v \in LibUsers : Uploading(v) /\ t \in libCalls[v].kids
        \/ \E v \in LibUsers : t \in libCalls[v].todo
        \/ t \in libReleased
    BY <1>2, <2>1 DEF Reached
  <2>3. \A g \in LibIds : Kids(g) \subseteq Kids(g)'
    BY <1>3
  <2>4. ASSUME NEW v \in LibUsers, Uploading(v), t \in libCalls[v].kids
        PROVE  \/ t \in Kids(next)'
               \/ Uploading(v)' /\ t \in libCalls'[v].kids
    BY <1>3, <1>4, <2>4 DEF Uploading
  <2> QED BY <1>2, <1>5, <2>2, <2>3, <2>4
<1> QED BY <1>10, <1>11

\* A user starts to delete tests of the list, and their cases with them.
LEMMA DeletePlaces ==
  ASSUME LibKnown, OneGroup, Together, Reached, NEW u \in LibUsers, NEW call \in LibCall,
         libCalls' = [libCalls EXCEPT ![u] = call], libCalls[u] = NoLibCall,
         UNCHANGED <<libRows, libReleased, libFaults>>, NEW S \in SUBSET Displayed(u),
         \A t \in S : libLists[u][t].kids \subseteq call.todo,
         \A g : (call.pc \in {"kids", "self"} /\ call.test = g) \/ g \in call.todo
                  <=> g \in S \/ \E t \in S : g \in libLists[u][t].kids
  PROVE  Together' /\ Reached'
<1>1. libCalls'[u] = call /\ \A v \in LibUsers \ {u} : libCalls'[v] = libCalls[v]
  BY Goto DEF LibKnown
<1>2. \A t : Kind(t)' = Kind(t) /\ Kids(t)' = Kids(t)
  BY DEF Kind, Kids
<1>3. libCalls[u].todo = {} /\ libCalls[u].pc \notin {"children", "kids", "self"}
  BY DEF NoLibCall
<1>4. \A g : ~Goes(u, g)
  BY <1>3 DEF Goes
<1>5. \A v \in LibUsers : v # u => \A g : Goes(v, g)' <=> Goes(v, g)
  BY <1>1 DEF Goes
<1>6. \A g : Goes(u, g)' <=> (g \in S \/ \E t \in S : g \in libLists[u][t].kids)
  BY <1>1 DEF Goes
<1>7. S \subseteq LibIds /\ \A t \in S : t \in Displayed(u)
  BY DEF Displayed
<1>8. \A t \in S : libLists[u][t].kids \subseteq call.todo
  OBVIOUS
<1>9. Together'
  <2> SUFFICES ASSUME libFaults' = 0 PROVE Together'
    BY DEF Together
  <2>1. ASSUME NEW v \in LibUsers, NEW g \in LibIds, Goes(v, g)', NEW k \in Kids(g)'
        PROVE  k \in libCalls'[v].todo \/ Kind(k)' = "deleted"
    <3>1. CASE v # u
      BY <1>1, <1>2, <1>5, <2>1, <3>1 DEF Together
    <3>2. CASE v = u /\ g \in S
      <4>1. Kids(g) \subseteq libLists[u][g].kids
        BY <1>7, <3>2 DEF LibKnown, ListKnown
      <4> QED BY <1>1, <1>2, <1>8, <2>1, <3>2, <4>1
    <3>3. CASE v = u /\ \E t \in S : g \in libLists[u][t].kids
      <4>1. Case(g) /\ RowKnown(g)
        BY <1>7, <3>3 DEF LibKnown, ListKnown
      <4>2. Kids(g) = {}
        BY <4>1 DEF Case, RowKnown
      <4> QED BY <1>2, <2>1, <4>2
    <3> QED BY <1>6, <2>1, <3>1, <3>2, <3>3
  <2>2. ASSUME NEW v \in LibUsers, NEW g \in LibIds, Kids(g)' \cap libCalls'[v].todo # {}
        PROVE  Goes(v, g)'
    <3>1. CASE v # u
      BY <1>1, <1>2, <1>5, <2>2, <3>1 DEF Together
    <3>2. CASE v = u
      <4>1. PICK k \in Kids(g) : k \in call.todo
        BY <1>1, <1>2, <2>2, <3>2
      <4>2. Case(k)
        BY <4>1 DEF LibKnown, RowKnown
      <4>3. k \notin S
        BY <1>7, <4>2 DEF Case
      <4>4. PICK t \in S : k \in libLists[u][t].kids
        BY <4>1, <4>3
      <4>5. t = g
        BY <1>7, <4>1, <4>4 DEF OneGroup
      <4> QED BY <1>6, <3>2, <4>4, <4>5
    <3> QED BY <3>1, <3>2
  <2>3. ASSUME NEW g \in LibIds, NEW k \in Kids(g)', Kind(k)' = "deleted"
        PROVE  \E v \in LibUsers : Goes(v, g)'
    BY <1>2, <1>4, <1>5, <2>3 DEF Together
  <2> QED BY <2>1, <2>2, <2>3 DEF Together
<1>10. Reached'
  <2>1. ~Uploading(u) /\ libReleased \subseteq libReleased'
    BY <1>3 DEF Uploading
  <2> QED BY <1>2, <1>3, <2>1, QuietReached
<1> QED BY <1>9, <1>10

\* A test is deleted.
LEMMA DeletedPlaces ==
  ASSUME LibKnown, OneGroup, Together, Reached, NEW u \in LibUsers, NEW t \in LibIds,
         DeleteOne(u, t)
  PROVE  Together' /\ Reached'
<1> DEFINE c == libCalls[u]
<1>1. /\ \/ c.pc \in {"kids", "bulk"} /\ t \in c.todo
         \/ c.pc = "self" /\ t = c.test
      /\ \/ /\ libRows' = [libRows EXCEPT ![t] =
                 [config |-> [kind |-> "deleted", kids |-> {}], rev |-> 0]]
            /\ UNCHANGED libFaults
         \/ LibFault
      /\ UNCHANGED libReleased
  BY DeleteOneIs
<1>2. PICK call \in LibCall :
        /\ libCalls' = [libCalls EXCEPT ![u] = call]
        /\ \/ /\ call = NoLibCall
              /\ \/ c.pc = "self"
                 \/ c.pc = "bulk" /\ c.todo = {t}
           \/ /\ c.pc \in {"kids", "bulk"}
              /\ call.todo = c.todo \ {t} /\ call.test = c.test
              /\ \/ call.pc = "self" /\ c.pc = "kids" /\ call.todo = {}
                 \/ call.pc = c.pc
  BY DeleteOneIs
<1>3. LibCallKnown(u, c) /\ c \in LibCall
  BY LibTypes DEF LibKnown
<1>4. CASE LibFault
  BY <1>4, FaultIs DEF Together, Reached
<1>5. CASE /\ libRows' = [libRows EXCEPT ![t] =
                [config |-> [kind |-> "deleted", kids |-> {}], rev |-> 0]]
           /\ UNCHANGED libFaults
  <2> SUFFICES ASSUME libFaults = 0, libFaults' = 0 PROVE Together' /\ Reached'
    BY <1>5 DEF Together, Reached
  <2>1. /\ Kind(t)' = "deleted" /\ Kids(t)' = {}
        /\ \A k \in LibIds : k # t => Kind(k)' = Kind(k) /\ Kids(k)' = Kids(k)
    BY <1>5, LibTypes DEF Kind, Kids
  <2>2. libCalls'[u] = call /\ \A v \in LibUsers \ {u} : libCalls'[v] = libCalls[v]
    BY <1>2, Goto DEF LibKnown
  <2>3. call.todo = c.todo \ {t}
    BY <1>1, <1>2, <1>3 DEF LibCallKnown, NoLibCall
  <2>4. \A v \in LibUsers : v # u => \A g : Goes(v, g)' <=> Goes(v, g)
    BY <2>2 DEF Goes
  <2>5. \A g : g # t => (Goes(u, g)' <=> Goes(u, g))
    <3>1. \A g : g # t => (g \in call.todo <=> g \in c.todo)
      BY <2>3
    <3>2. \A g : g # t => (call.pc \in {"kids", "self"} /\ call.test = g
                             <=> c.pc \in {"kids", "self"} /\ c.test = g)
      <4>1. CASE call = NoLibCall
        BY <1>1, <1>2, <4>1 DEF NoLibCall
      <4>2. CASE call # NoLibCall
        BY <1>2, <4>2
      <4> QED BY <4>1, <4>2
    <3> QED BY <2>2, <3>1, <3>2 DEF Goes
  <2>6. \A v \in LibUsers : /\ \A g \in LibIds : g # t => (Goes(v, g)' <=> Goes(v, g))
                            /\ libCalls'[v].todo \subseteq libCalls[v].todo
                            /\ \A k \in libCalls[v].todo : k = t \/ k \in libCalls'[v].todo
    BY <2>2, <2>3, <2>4, <2>5
  <2>7. \A g \in LibIds : t \in Kids(g) => Goes(u, g) /\ g # t
    <3> SUFFICES ASSUME NEW g \in LibIds, t \in Kids(g) PROVE Goes(u, g) /\ g # t
      OBVIOUS
    <3>1. Case(t) /\ Kind(g) = "group"
      BY DEF LibKnown, RowKnown
    <3>2. g # t
      BY <3>1 DEF Case
    <3>3. c.pc # "self"
      BY <1>1, <1>3, <3>1 DEF Case, LibCallKnown
    <3>4. t \in c.todo
      BY <1>1, <3>3
    <3> QED BY <3>2, <3>4 DEF Together
  <2>8. Goes(u, t)
    BY <1>1 DEF Goes
  <2>9. \A g \in LibIds : \A k \in Kids(g) : k \in LibIds
    BY LibTypes DEF Kids, LibRow, Config
  <2>10. Together'
    <3>1. ASSUME NEW v \in LibUsers, NEW g \in LibIds, Goes(v, g)', NEW k \in Kids(g)'
          PROVE  k \in libCalls'[v].todo \/ Kind(k)' = "deleted"
      <4>1. g # t /\ k \in Kids(g)
        BY <2>1, <3>1
      <4>2. k \in libCalls[v].todo \/ Kind(k) = "deleted"
        BY <2>6, <3>1, <4>1 DEF Together
      <4>3. Kind(k) = "deleted" => Kind(k)' = "deleted"
        BY <2>1, <2>9, <4>1
      <4> QED BY <2>1, <2>6, <4>2, <4>3
    <3>2. ASSUME NEW v \in LibUsers, NEW g \in LibIds, Kids(g)' \cap libCalls'[v].todo # {}
          PROVE  Goes(v, g)'
      <4>1. g # t /\ Kids(g) \cap libCalls[v].todo # {}
        BY <2>1, <2>6, <3>2
      <4> QED BY <2>6, <4>1 DEF Together
    <3>3. ASSUME NEW g \in LibIds, NEW k \in Kids(g)', Kind(k)' = "deleted"
          PROVE  \E v \in LibUsers : Goes(v, g)'
      <4>1. g # t /\ k \in Kids(g)
        BY <2>1, <3>3
      <4>2. CASE k = t
        BY <2>6, <2>7, <4>1, <4>2
      <4>3. CASE k # t
        <5>1. Kind(k) = "deleted"
          BY <2>1, <2>9, <3>3, <4>1, <4>3
        <5>2. PICK v \in LibUsers : Goes(v, g)
          BY <4>1, <5>1 DEF Together
        <5> QED BY <2>6, <4>1, <5>2
      <4> QED BY <4>2, <4>3
    <3> QED BY <3>1, <3>2, <3>3 DEF Together
  <2>11. Reached'
    <3> SUFFICES ASSUME NEW k \in LibIds, Kind(k)' = "child"
                 PROVE  \/ \E g \in LibIds : k \in Kids(g)'
                        \/ \E v \in LibUsers : Uploading(v)' /\ k \in libCalls'[v].kids
                        \/ \E v \in LibUsers : k \in libCalls'[v].todo
                        \/ k \in libReleased'
      BY DEF Reached
    <3>1. k # t /\ Kind(k) = "child"
      BY <2>1
    <3>2. \/ \E g \in LibIds : k \in Kids(g)
          \/ \E v \in LibUsers : Uploading(v) /\ k \in libCalls[v].kids
          \/ \E v \in LibUsers : k \in libCalls[v].todo
          \/ k \in libReleased
      BY <3>1 DEF Reached
    <3>3. ASSUME NEW g \in LibIds, k \in Kids(g)
          PROVE  k \in Kids(g)' \/ k \in libCalls'[u].todo
      <4>1. CASE g # t
        BY <2>1, <3>3, <4>1
      <4>2. CASE g = t
        <5>1. k \in c.todo
          BY <2>8, <3>1, <3>3, <4>2 DEF Together
        <5> QED BY <2>6, <3>1, <5>1
      <4> QED BY <4>1, <4>2
    <3>4. ASSUME NEW v \in LibUsers, Uploading(v), k \in libCalls[v].kids
          PROVE  Uploading(v)' /\ k \in libCalls'[v].kids
      BY <1>1, <2>2, <3>4 DEF Uploading
    <3> QED BY <1>1, <2>6, <3>1, <3>2, <3>3, <3>4
  <2> QED BY <2>10, <2>11
<1> QED BY <1>1, <1>4, <1>5

LEMMA PlacesKept ==
  ASSUME LibKnown, OneGroup, Counted, Together, Reached, [LibNext]_libVars
  PROVE  Together' /\ Reached'
<1>1. CASE UNCHANGED libVars
  BY <1>1 DEF libVars, Together, Reached, Goes, Kids, Kind, Uploading
<1>2. CASE LibNext
  <2>1. PICK u \in LibUsers :
          \/ Refetch(u)
          \/ \E n \in 1..MaxCases : Upload(u, n)
          \/ CreateChild(u) \/ CreateChildFails(u) \/ CreateParent(u)
          \/ \E t \in LibIds : DeleteTest(u, t) \/ DeleteOne(u, t) \/ Edit(u, t)
          \/ \E S \in SUBSET LibIds : BulkDelete(u, S)
          \/ Generate(u) \/ ReadTest(u) \/ WriteTest(u) \/ ReadMax(u) \/ CreateVersion(u)
          \/ LibFails(u)
    BY <1>2 DEF LibNext
  <2>2. CASE Refetch(u)
    <3>1. UNCHANGED <<libRows, libCalls, libReleased, libFaults>>
      BY <2>2 DEF Refetch
    <3> QED BY <3>1 DEF Together, Reached, Goes, Kids, Kind, Uploading
  <2>3. ASSUME NEW t \in LibIds, DeleteTest(u, t) PROVE Together' /\ Reached'
    <3>1. /\ libCalls[u] = NoLibCall /\ UNCHANGED <<libRows, libReleased, libFaults>>
          /\ t \in Displayed(u)
      BY <2>3, ClickIs DEF DeleteTest
    <3>2. PICK call \in LibCall :
            /\ libCalls' = [libCalls EXCEPT ![u] = call] /\ call.test = t
            /\ call.todo = libLists[u][t].kids /\ call.pc \in {"kids", "self"}
      BY <2>3, DeleteTestIs
    <3>3. PICK S \in SUBSET Displayed(u) : S = {t}
      BY <3>1
    <3>4. /\ \A s \in S : libLists[u][s].kids \subseteq call.todo
          /\ \A g : (call.pc \in {"kids", "self"} /\ call.test = g) \/ g \in call.todo
                      <=> g \in S \/ \E s \in S : g \in libLists[u][s].kids
      BY <3>2, <3>3
    <3> QED BY <3>1, <3>2, <3>4, DeletePlaces
  <2>4. ASSUME NEW S \in SUBSET LibIds, BulkDelete(u, S) PROVE Together' /\ Reached'
    <3>1. libCalls[u] = NoLibCall /\ UNCHANGED <<libRows, libReleased, libFaults>>
      BY <2>4, ClickIs DEF BulkDelete
    <3>2. PICK call \in LibCall :
            /\ libCalls' = [libCalls EXCEPT ![u] = call] /\ S \subseteq Displayed(u)
            /\ call.pc = "bulk" /\ call.todo = S \cup UNION {libLists[u][t].kids : t \in S}
      BY <2>4, BulkDeleteIs
    <3>3. S \in SUBSET Displayed(u)
      BY <3>2
    <3>4. /\ \A t \in S : libLists[u][t].kids \subseteq call.todo
          /\ \A g : (call.pc \in {"kids", "self"} /\ call.test = g) \/ g \in call.todo
                      <=> g \in S \/ \E t \in S : g \in libLists[u][t].kids
      BY <3>2
    <3> QED BY <3>1, <3>2, <3>3, <3>4, DeletePlaces
  <2> QED BY <2>1, <2>2, <2>3, <2>4, ParentPlaces, DeletedPlaces, QuietPlaces
<1> QED BY <1>1, <1>2

-----------------------------------------------------------------------------
(* The history of a test.                                                  *)

\* A test none of whose versions is made or deleted.
LEMMA SameVersions ==
  ASSUME NEW t, \A v : v.test = t => (v \in libVersions' <=> v \in libVersions)
  PROVE  /\ NumbersOf(t)' = NumbersOf(t) /\ LastNumber(t)' = LastNumber(t)
         /\ libRows'[t].rev = libRows[t].rev /\ Same(t) => Same(t)'
<1>1. {v \in libVersions' : v.test = t} = {v \in libVersions : v.test = t}
  OBVIOUS
<1>2. NumbersOf(t)' = NumbersOf(t)
  BY <1>1 DEF NumbersOf
<1>3. LastNumber(t)' = LastNumber(t)
  BY <1>2 DEF LastNumber
<1>4. ASSUME libRows'[t].rev = libRows[t].rev, Same(t) PROVE Same(t)'
  <2>1. CASE \E v \in libVersions : v.test = t /\ v.number = LastNumber(t)
                                               /\ v.rev = libRows[t].rev
    BY <1>3, <1>4, <2>1 DEF Same
  <2>2. CASE NumbersOf(t) = {} /\ libRows[t].rev = 0
    BY <1>2, <1>4, <2>2 DEF Same
  <2> QED BY <1>4, <2>1, <2>2 DEF Same
<1> QED BY <1>2, <1>3, <1>4

\* A test that is not there has no versions.
LEMMA NoVersions ==
  ASSUME Counted, NEW t, ~Exists(t)
  PROVE  NumbersOf(t) = {}
BY DEF Counted, NumbersOf

\* A version that is stored has the number after the last one.
LEMMA StoredIs ==
  ASSUME LibKnown, Counted, NEW u \in LibUsers, CreateVersion(u), NEW t \in LibIds,
         t = libCalls[u].test, Exists(t), libCalls[u].last + 1 \notin NumbersOf(t)
  PROVE  /\ libCalls[u].last = LastNumber(t)
         /\ libVersions' = libVersions \cup
              {[test |-> t, number |-> LastNumber(t) + 1, rev |-> libCalls[u].rev]}
         /\ NumbersOf(t)' = 1..LastNumber(t) + 1
         /\ LastNumber(t)' = LastNumber(t) + 1
<1> DEFINE c == libCalls[u]
           last == LastNumber(t)
           new == [test |-> t, number |-> last + 1, rev |-> c.rev]
<1>1. last \in Nat /\ NumbersOf(t) = 1..last
  BY LastIs
<1>2. c.pc = "version" /\ c.last \in Nat /\ 1..c.last \subseteq NumbersOf(t)
  BY LibTypes DEF CreateVersion, Counted, LibCall
<1>3. c.last = last
  <2>1. c.last + 1 \notin 1..last /\ 1..c.last \subseteq 1..last
    BY <1>1, <1>2
  <2> HIDE DEF last
  <2>2. c.last >= last
    BY <1>1, <1>2, <2>1
  <2>3. c.last = 0 \/ c.last \in 1..last
    BY <1>1, <1>2, <2>1
  <2> QED BY <1>1, <1>2, <2>2, <2>3
<1>4. libVersions' = libVersions \cup {new}
  BY <1>3 DEF CreateVersion
<1>5. NumbersOf(t)' = NumbersOf(t) \cup {last + 1}
  <2>1. new.test = t /\ new.number = last + 1
    OBVIOUS
  <2> HIDE DEF new, last
  <2>2. ASSUME NEW m \in NumbersOf(t)' PROVE m \in NumbersOf(t) \cup {last + 1}
    <3>1. PICK v \in libVersions' : v.test = t /\ v.number = m
      BY DEF NumbersOf
    <3> QED BY <1>4, <2>1, <3>1 DEF NumbersOf
  <2>3. ASSUME NEW m \in NumbersOf(t) \cup {last + 1} PROVE m \in NumbersOf(t)'
    <3>1. CASE m = last + 1
      BY <1>4, <2>1, <3>1 DEF NumbersOf
    <3>2. CASE m \in NumbersOf(t)
      <4>1. PICK v \in libVersions : v.test = t /\ v.number = m
        BY <3>2 DEF NumbersOf
      <4> QED BY <1>4, <4>1 DEF NumbersOf
    <3> QED BY <3>1, <3>2
  <2> QED BY <2>2, <2>3
<1>6. NumbersOf(t)' = 1..last + 1
  <2> HIDE DEF last
  <2> QED BY <1>1, <1>5
<1>7. LastNumber(t)' = last + 1
  <2> DEFINE next == last + 1
  <2> HIDE DEF last
  <2>1. next \in Nat /\ next \in NumbersOf(t)' /\ NumbersOf(t)' = 1..next
    BY <1>1, <1>6
  <2> HIDE DEF next
  <2>2. \A n \in NumbersOf(t)' \cup {0} :
          (\A m \in NumbersOf(t)' : m <= n) => n = next
    BY <2>1
  <2>3. /\ LastNumber(t)' \in NumbersOf(t)' \cup {0}
        /\ \A m \in NumbersOf(t)' : m <= LastNumber(t)'
    <3>1. \E n \in NumbersOf(t)' \cup {0} : \A m \in NumbersOf(t)' : m <= n
      BY <2>1
    <3> QED BY <3>1 DEF LastNumber
  <2> QED BY <2>2, <2>3 DEF next
<1> QED BY <1>3, <1>4, <1>6, <1>7

LEMMA QuietCounted ==
  ASSUME LibKnown, Counted, NEW u \in LibUsers, NEW call \in LibCall,
         libCalls' = [libCalls EXCEPT ![u] = call], UNCHANGED libVersions,
         \A t \in LibIds : Exists(t) => Exists(t)',
         \A t \in LibIds : Exists(t)' => Exists(t) \/ Kind(t) = "none",
         call.pc = "version" =>
           call.test \in LibIds /\ 1..call.last \subseteq NumbersOf(call.test)
  PROVE  Counted'
<1>1. libCalls'[u] = call /\ \A v \in LibUsers \ {u} : libCalls'[v] = libCalls[v]
  BY Goto DEF LibKnown
<1>2. \A t : NumbersOf(t)' = NumbersOf(t)
  BY DEF NumbersOf
<1>3. \A v \in libVersions' : Exists(v.test)'
  BY LibTypes DEF Counted, Version
<1>4. \A t \in LibIds : \E n \in Nat : NumbersOf(t)' = 1..n
  BY <1>2 DEF Counted
<1>5. ASSUME NEW v \in LibUsers, (libCalls[v].pc = "version" /\ Exists(libCalls[v].test))'
      PROVE  (1..libCalls[v].last \subseteq NumbersOf(libCalls[v].test))'
  <2>1. PICK c : c = libCalls'[v]
    OBVIOUS
  <2>2. c.pc = "version" /\ Exists(c.test)'
    BY <1>5, <2>1 DEF Exists
  <2>3. 1..c.last \subseteq NumbersOf(c.test)
    <3>1. CASE v = u
      BY <1>1, <2>1, <2>2, <3>1
    <3>2. CASE v # u
      <4>1. LibCallKnown(v, c) /\ c = libCalls[v]
        BY <1>1, <2>1, <3>2 DEF LibKnown
      <4>2. Exists(c.test)
        BY <2>2, <4>1 DEF LibCallKnown
      <4> QED BY <2>2, <4>1, <4>2 DEF Counted
    <3> QED BY <3>1, <3>2
  <2> QED BY <2>1, <2>3 DEF NumbersOf
<1> QED BY <1>3, <1>4, <1>5 DEF Counted

LEMMA DeletedCounted ==
  ASSUME LibKnown, Counted, NEW u \in LibUsers, NEW t \in LibIds, DeleteOne(u, t)
  PROVE  Counted'
<1> DEFINE c == libCalls[u]
<1>1. PICK call \in LibCall :
        libCalls' = [libCalls EXCEPT ![u] = call] /\ call.pc # "version"
  BY DeleteOneIs DEF NoLibCall
<1>2. CASE UNCHANGED <<libRows, libVersions>>
  <2>1. \A s : Exists(s)' <=> Exists(s)
    BY <1>2 DEF Exists
  <2> QED BY <1>1, <1>2, <2>1, QuietCounted
<1>3. CASE /\ libRows' = [libRows EXCEPT ![t] =
                [config |-> [kind |-> "deleted", kids |-> {}], rev |-> 0]]
           /\ libVersions' = {v \in libVersions : v.test # t}
  <2>1. ~Exists(t)' /\ \A s \in LibIds : s # t => (Exists(s)' <=> Exists(s))
    BY <1>3, LibTypes DEF Exists
  <2>2. \A s : s # t => NumbersOf(s)' = NumbersOf(s)
    BY <1>3, SameVersions
  <2>3. NumbersOf(t)' = {}
    BY <1>3 DEF NumbersOf
  <2>4. \A v \in libVersions' : Exists(v.test)'
    BY <1>3, <2>1, LibTypes DEF Counted, Version
  <2>5. ASSUME NEW s \in LibIds PROVE \E n \in Nat : NumbersOf(s)' = 1..n
    <3>1. CASE s = t
      <4>1. 1..0 = {} /\ 0 \in Nat
        OBVIOUS
      <4> QED BY <2>3, <3>1, <4>1
    <3>2. CASE s # t
      BY <2>2, <3>2 DEF Counted
    <3> QED BY <3>1, <3>2
  <2>6. ASSUME NEW v \in LibUsers, (libCalls[v].pc = "version" /\ Exists(libCalls[v].test))'
        PROVE  (1..libCalls[v].last \subseteq NumbersOf(libCalls[v].test))'
    <3>1. PICK d : d = libCalls'[v]
      OBVIOUS
    <3>2. d.pc = "version" /\ Exists(d.test)'
      BY <2>6, <3>1 DEF Exists
    <3>3. d = libCalls[v] /\ LibCallKnown(v, d)
      BY <1>1, <3>1, <3>2, Goto DEF LibKnown
    <3>4. d.test \in LibIds /\ d.test # t
      BY <2>1, <3>2, <3>3 DEF LibCallKnown
    <3>5. 1..d.last \subseteq NumbersOf(d.test)
      BY <2>1, <3>2, <3>3, <3>4 DEF Counted
    <3> QED BY <2>2, <3>1, <3>4, <3>5 DEF NumbersOf
  <2> QED BY <2>4, <2>5, <2>6 DEF Counted
<1> QED BY <1>2, <1>3, DeleteOneIs

LEMMA StoredCounted ==
  ASSUME LibKnown, Counted, NEW u \in LibUsers, CreateVersion(u)
  PROVE  Counted'
<1> DEFINE c == libCalls[u]
<1>1. PICK call \in LibCall :
        libCalls' = [libCalls EXCEPT ![u] = call] /\ call.pc \in {"idle", "read"}
  BY UpdateIs, UpdateAt DEF NoLibCall
<1>2. \A s : Exists(s)' <=> Exists(s)
  BY DEF CreateVersion, Exists
<1>3. CASE UNCHANGED libVersions
  BY <1>1, <1>2, <1>3, QuietCounted
<1>4. CASE Exists(c.test) /\ c.last + 1 \notin NumbersOf(c.test)
  <2>1. PICK t \in LibIds : t = c.test
    BY DEF LibKnown, LibCallKnown, CreateVersion
  <2>2. /\ libVersions' = libVersions \cup
             {[test |-> t, number |-> LastNumber(t) + 1, rev |-> c.rev]}
        /\ NumbersOf(t)' = 1..LastNumber(t) + 1
        /\ LastNumber(t) \in Nat /\ NumbersOf(t) = 1..LastNumber(t)
    BY <1>4, <2>1, StoredIs, LastIs
  <2>3. \A s : s # t => NumbersOf(s)' = NumbersOf(s)
    BY <2>2, SameVersions
  <2>4. NumbersOf(t) \subseteq NumbersOf(t)'
    BY <2>2
  <2>5. \A v \in libVersions' : Exists(v.test)'
    BY <1>2, <1>4, <2>1, <2>2 DEF Counted
  <2>6. ASSUME NEW s \in LibIds PROVE \E n \in Nat : NumbersOf(s)' = 1..n
    <3>1. CASE s = t
      <4>1. LastNumber(t) + 1 \in Nat
        BY <2>2
      <4> QED BY <2>2, <3>1, <4>1
    <3>2. CASE s # t
      BY <2>3, <3>2 DEF Counted
    <3> QED BY <3>1, <3>2
  <2>7. ASSUME NEW v \in LibUsers, (libCalls[v].pc = "version" /\ Exists(libCalls[v].test))'
        PROVE  (1..libCalls[v].last \subseteq NumbersOf(libCalls[v].test))'
    <3>1. PICK d : d = libCalls'[v]
      OBVIOUS
    <3>2. d.pc = "version" /\ Exists(d.test)
      BY <1>2, <2>7, <3>1 DEF Exists
    <3>3. d = libCalls[v]
      BY <1>1, <3>1, <3>2, Goto DEF LibKnown
    <3>4. 1..d.last \subseteq NumbersOf(d.test)
      BY <3>2, <3>3 DEF Counted
    <3>5. NumbersOf(d.test) \subseteq NumbersOf(d.test)'
      BY <2>3, <2>4
    <3> QED BY <3>1, <3>4, <3>5 DEF NumbersOf
  <2> QED BY <2>5, <2>6, <2>7 DEF Counted
<1> QED BY <1>3, <1>4 DEF CreateVersion

LEMMA CountedKept ==
  ASSUME LibKnown, Counted, [LibNext]_libVars
  PROVE  Counted'
<1>1. CASE UNCHANGED <<libRows, libVersions, libCalls>>
  BY <1>1 DEF Counted, Exists, NumbersOf
<1>2. CASE LibNext
  <2>1. PICK u \in LibUsers :
          \/ Refetch(u)
          \/ \E n \in 1..MaxCases : Upload(u, n)
          \/ CreateChild(u) \/ CreateChildFails(u) \/ CreateParent(u)
          \/ \E t \in LibIds : DeleteTest(u, t) \/ DeleteOne(u, t) \/ Edit(u, t)
          \/ \E S \in SUBSET LibIds : BulkDelete(u, S)
          \/ Generate(u) \/ ReadTest(u) \/ WriteTest(u) \/ ReadMax(u) \/ CreateVersion(u)
          \/ LibFails(u)
    BY <1>2 DEF LibNext
  <2> DEFINE c == libCalls[u]
  <2>2. LibCallKnown(u, c) /\ c \in LibCall
    BY LibTypes DEF LibKnown
  <2>3. CASE Refetch(u)
    BY <1>1, <2>3 DEF Refetch
  <2>4. ASSUME NEW call \in LibCall, libCalls' = [libCalls EXCEPT ![u] = call],
               call.pc # "version", UNCHANGED <<libRows, libVersions>>
        PROVE  Counted'
    <3>1. \A s : Exists(s)' <=> Exists(s)
      BY <2>4 DEF Exists
    <3> QED BY <2>4, <3>1, QuietCounted
  <2>5. ASSUME NEW n \in 1..MaxCases, Upload(u, n) PROVE Counted'
    <3>1. UNCHANGED <<libRows, libVersions>>
      BY <2>5 DEF Upload
    <3> QED BY <2>4, <2>5, <3>1, UploadIs
  <2>6. CASE CreateChildFails(u)
    <3>1. UNCHANGED <<libRows, libVersions>> /\ c.pc \in {"children", "failed"}
      BY <2>6 DEF CreateChildFails
    <3> QED BY <2>4, <2>6, <3>1, CreateChildFailsIs DEF NoLibCall
  <2>7. ASSUME NEW t \in LibIds, DeleteTest(u, t) \/ Edit(u, t) PROVE Counted'
    <3>1. UNCHANGED <<libRows, libVersions>>
      BY <2>7 DEF DeleteTest, Edit
    <3> QED BY <2>4, <2>7, <3>1, DeleteTestIs, EditIs
  <2>8. ASSUME NEW S \in SUBSET LibIds, BulkDelete(u, S) PROVE Counted'
    <3>1. UNCHANGED <<libRows, libVersions>>
      BY <2>8 DEF BulkDelete
    <3>2. PICK call \in LibCall : libCalls' = [libCalls EXCEPT ![u] = call] /\ call.pc = "bulk"
      BY <2>8, BulkDeleteIs
    <3> QED BY <2>4, <3>1, <3>2
  <2>9. CASE CreateChild(u) \/ CreateParent(u) \/ Generate(u)
    <3>1. PICK next \in LibIds, row \in LibRow, call \in LibCall :
            /\ Kind(next) = "none" /\ libRows' = [libRows EXCEPT ![next] = row]
            /\ row.config.kind \in {"child", "group", "plain"}
            /\ libCalls' = [libCalls EXCEPT ![u] = call] /\ call.pc # "version"
      <4>1. CASE CreateChild(u)
        <5>1. PICK next \in LibIds : next = NextTest /\ Kind(next) = "none"
          BY <4>1, CreateChildIs, NextTestIs
        <5> QED BY <4>1, <5>1, CreateChildIs DEF NoLibCall
      <4>2. CASE CreateParent(u)
        <5>1. PICK next \in LibIds : next = NextTest /\ Kind(next) = "none"
          BY <4>2, CreateParentIs, NextTestIs
        <5>2. PICK rev \in 0..MaxLibSteps, call \in LibCall :
                /\ libRows' = [libRows EXCEPT ![next] =
                     [config |-> [kind |-> "group", kids |-> c.kids], rev |-> rev]]
                /\ libCalls' = [libCalls EXCEPT ![u] = call] /\ call.pc # "version"
          BY <4>2, <5>1, CreateParentIs DEF NoLibCall
        <5>3. PICK row : row = [config |-> [kind |-> "group", kids |-> c.kids], rev |-> rev]
          OBVIOUS
        <5>4. row \in LibRow /\ row.config.kind = "group"
          BY <2>2, <5>3 DEF LibRow, Config, LibCall
        <5> QED BY <5>1, <5>2, <5>3, <5>4
      <4>3. CASE Generate(u)
        <5>1. PICK next \in LibIds : next = NextTest /\ Kind(next) = "none"
          BY <4>3, GenerateIs, NextTestIs
        <5>2. PICK rev \in 0..MaxLibSteps, call \in LibCall :
                /\ libRows' = [libRows EXCEPT ![next] =
                     [config |-> [kind |-> "plain", kids |-> {}], rev |-> rev]]
                /\ libCalls' = [libCalls EXCEPT ![u] = call] /\ call.pc # "version"
          BY <4>3, <5>1, GenerateIs
        <5>3. PICK row : row = [config |-> [kind |-> "plain", kids |-> {}], rev |-> rev]
          OBVIOUS
        <5>4. row \in LibRow /\ row.config.kind = "plain"
          BY <5>3 DEF LibRow, Config
        <5> QED BY <5>1, <5>2, <5>3, <5>4
      <4> QED BY <2>9, <4>1, <4>2, <4>3
    <3>2. \A s \in LibIds : s # next => (Exists(s)' <=> Exists(s))
      BY <3>1, LibTypes DEF Exists
    <3>3. Kind(next) = "none" /\ ~Exists(next)
      BY <3>1 DEF Exists, Kind
    <3>4. UNCHANGED libVersions
      BY <2>9 DEF CreateChild, CreateParent, Generate
    <3> QED BY <3>1, <3>2, <3>3, <3>4, QuietCounted
  <2>10. CASE WriteTest(u)
    <3>1. \A s \in LibIds : Exists(s)' <=> Exists(s)
      BY <2>10, LibTypes DEF WriteTest, Exists
    <3>2. PICK call \in LibCall :
            libCalls' = [libCalls EXCEPT ![u] = call] /\ call.pc # "version"
      BY <2>10, UpdateIs, UpdateAt DEF NoLibCall
    <3>3. UNCHANGED libVersions
      BY <2>10 DEF WriteTest
    <3> QED BY <3>1, <3>2, <3>3, QuietCounted
  <2>11. CASE ReadTest(u) \/ LibFails(u)
    <3>1. PICK call \in LibCall :
            libCalls' = [libCalls EXCEPT ![u] = call] /\ call.pc # "version"
      <4>1. CASE ReadTest(u)
        BY <4>1, UpdateIs, UpdateAt DEF NoLibCall
      <4>2. CASE LibFails(u)
        BY <4>2, NoLibCallIs DEF NoLibCall, LibFails, LibEnds
      <4> QED BY <2>11, <4>1, <4>2
    <3>2. UNCHANGED <<libRows, libVersions>>
      BY <2>11 DEF ReadTest, LibFails
    <3> QED BY <2>4, <3>1, <3>2
  <2>12. CASE ReadMax(u)
    <3>1. c.pc = "max" /\ UNCHANGED <<libRows, libVersions>>
      BY <2>12 DEF ReadMax
    <3>2. PICK t \in LibIds : t = c.test
      BY <2>2, <3>1 DEF LibCallKnown
    <3>3. PICK call \in LibCall :
            /\ libCalls' = [libCalls EXCEPT ![u] = call]
            /\ call.pc = "version" => call.test = t /\ call.last = LastNumber(t)
      BY <2>12, <3>1, <3>2, UpdateIs DEF NoLibCall
    <3>4. NumbersOf(t) = 1..LastNumber(t)
      BY LastIs
    <3>5. \A s : Exists(s)' <=> Exists(s)
      BY <3>1 DEF Exists
    <3> QED BY <3>1, <3>3, <3>4, <3>5, QuietCounted
  <2> QED BY <2>1, <2>3, <2>5, <2>6, <2>7, <2>8, <2>9, <2>10, <2>11, <2>12, DeletedCounted,
          StoredCounted
<1> QED BY <1>1, <1>2 DEF libVars

\* A step elsewhere.
LEMMA ToldElsewhere ==
  ASSUME LibKnown, NEW u \in LibUsers, NEW call \in LibCall,
         libCalls' = [libCalls EXCEPT ![u] = call], NEW t \in LibIds, ToldOf(t),
         ~At(u, t, UpdatePcs), ~(call.test = t /\ call.pc \in UpdatePcs),
         \A v : v.test = t => (v \in libVersions' <=> v \in libVersions),
         libRows'[t].rev = libRows[t].rev
  PROVE  ToldOf(t)'
<1>1. libCalls'[u] = call /\ \A v \in LibUsers \ {u} : libCalls'[v] = libCalls[v]
  BY Goto DEF LibKnown
<1>2. \A v \in LibUsers : At(v, t, UpdatePcs)' => At(v, t, UpdatePcs) /\ v # u
  BY <1>1 DEF At
<1>3. \A v \in LibUsers : At(v, t, {"max", "version"})' <=> At(v, t, {"max", "version"})
  BY <1>1 DEF At, UpdatePcs
<1>4. \A v \in LibUsers : At(v, t, {"max", "version"})' => libCalls'[v] = libCalls[v]
  BY <1>1, <1>2 DEF At, UpdatePcs
<1>5. LastNumber(t)' = LastNumber(t) /\ (Same(t) => Same(t)')
  BY SameVersions
<1>6. \A v, w \in LibUsers : At(v, t, UpdatePcs)' /\ At(w, t, UpdatePcs)' => v = w
  BY <1>2 DEF ToldOf
<1>7. \A v \in LibUsers : At(v, t, {"max", "version"})' =>
        /\ libCalls'[v].rev = libRows'[t].rev
        /\ libCalls'[v].pc = "version" => libCalls'[v].last = LastNumber(t)'
  BY <1>3, <1>4, <1>5 DEF ToldOf
<1>8. (\A v \in LibUsers : ~At(v, t, {"max", "version"})') => Same(t)'
  BY <1>3, <1>5 DEF ToldOf
<1> QED BY <1>6, <1>7, <1>8 DEF ToldOf

\* A test that is new, with its first version under way if it has code.
LEMMA ToldNew ==
  ASSUME LibKnown, Counted, NEW u \in LibUsers, NEW call \in LibCall,
         libCalls' = [libCalls EXCEPT ![u] = call], NEW t \in LibIds, Kind(t) = "none",
         UNCHANGED libVersions,
         \/ call.pc \notin UpdatePcs /\ libRows'[t].rev = 0
         \/ call.pc = "max" /\ call.test = t /\ libRows'[t].rev = call.rev
  PROVE  ToldOf(t)'
<1>1. libCalls'[u] = call /\ \A v \in LibUsers \ {u} : libCalls'[v] = libCalls[v]
  BY Goto DEF LibKnown
<1>2. \A v \in LibUsers : At(v, t, UpdatePcs)' => v = u /\ call.pc = "max"
  BY <1>1 DEF At, UpdatePcs, LibKnown, LibCallKnown
<1>3. \A v \in LibUsers : At(v, t, {"max", "version"})' => At(v, t, UpdatePcs)'
  BY DEF At, UpdatePcs
<1>4. NumbersOf(t)' = {}
  BY NoVersions DEF NumbersOf, Exists, Kind
<1>5. \A v, w \in LibUsers : At(v, t, UpdatePcs)' /\ At(w, t, UpdatePcs)' => v = w
  BY <1>2
<1>6. \A v \in LibUsers : At(v, t, {"max", "version"})' =>
        /\ libCalls'[v].rev = libRows'[t].rev
        /\ libCalls'[v].pc = "version" => libCalls'[v].last = LastNumber(t)'
  BY <1>1, <1>2, <1>3 DEF UpdatePcs
<1>7. ASSUME \A v \in LibUsers : ~At(v, t, {"max", "version"})' PROVE Same(t)'
  <2>1. libRows'[t].rev = 0
    BY <1>1, <1>7 DEF At
  <2> QED BY <1>4, <2>1 DEF Same
<1> QED BY <1>5, <1>6, <1>7 DEF ToldOf

\* An update of the test, alone.
LEMMA ToldUpdate ==
  ASSUME LibKnown, Counted, NEW u \in LibUsers, NEW t \in LibIds, t = libCalls[u].test,
         ReadTest(u) \/ WriteTest(u) \/ ReadMax(u) \/ CreateVersion(u),
         ToldOf(t), Exists(t), t \notin libCrossed'
  PROVE  ToldOf(t)'
<1> DEFINE c == libCalls[u]
<1>1. PICK call \in LibCall :
        /\ libCalls' = [libCalls EXCEPT ![u] = call]
        /\ \/ call = NoLibCall
           \/ /\ call.test = c.test /\ call.rev = c.rev
              /\ \/ ReadTest(u) /\ call.pc = "write"
                 \/ WriteTest(u) /\ call.pc = "max"
                 \/ ReadMax(u) /\ call.pc = "version" /\ call.last = LastNumber(t)
                 \/ CreateVersion(u) /\ call.pc = "read"
  BY UpdateIs
<1>2. libCalls'[u] = call /\ \A v \in LibUsers \ {u} : libCalls'[v] = libCalls[v]
  BY <1>1, Goto DEF LibKnown
<1>3. ASSUME NEW v \in LibUsers, v # u PROVE ~At(v, t, UpdatePcs) /\ ~At(v, t, UpdatePcs)'
  <2>1. CASE ReadTest(u)
    <3>1. ~Updating(u, t)
      BY <2>1 DEF ReadTest
    <3> QED BY <1>2, <1>3, <3>1 DEF Updating, At, UpdatePcs
  <2>2. CASE ~ReadTest(u)
    <3>1. At(u, t, UpdatePcs)
      BY <2>2, UpdateAt DEF At, UpdatePcs
    <3>2. ~At(v, t, UpdatePcs)
      BY <1>3, <3>1 DEF ToldOf
    <3> QED BY <1>2, <1>3, <3>2 DEF At
  <2> QED BY <2>1, <2>2
<1>4. \A v \in LibUsers : v # u => /\ ~At(v, t, {"max", "version"})
                                   /\ ~At(v, t, {"max", "version"})'
  BY <1>3 DEF At, UpdatePcs
<1>5. \A v, w \in LibUsers : At(v, t, UpdatePcs)' /\ At(w, t, UpdatePcs)' => v = w
  BY <1>3
<1>6. At(u, t, {"max", "version"})' <=> call.test = t /\ call.pc \in {"max", "version"}
  BY <1>2 DEF At
<1>7. CASE ReadTest(u)
  <2>1. call.pc \notin {"max", "version"} /\ UNCHANGED <<libRows, libVersions>>
    <3>1. call.pc \notin {"max", "version"}
      BY <1>1, <1>7, UpdateAt DEF NoLibCall
    <3> QED BY <1>7, <3>1 DEF ReadTest
  <2>2. ~At(u, t, {"max", "version"})
    BY <1>7, UpdateAt DEF At
  <2>3. Same(t)'
    BY <1>4, <2>1, <2>2, SameVersions DEF ToldOf
  <2> QED BY <1>4, <1>5, <1>6, <2>1, <2>3 DEF ToldOf
<1>8. CASE WriteTest(u)
  <2>1. libCalls' = [libCalls EXCEPT ![u].pc = "max"] /\ libRows'[t].rev = c.rev
    BY <1>8, LibTypes DEF WriteTest, LibGoto
  <2>2. call.pc = "max" /\ call.test = t /\ call.rev = c.rev
    BY <1>1, <1>2, <2>1, LibTypes DEF LibCall
  <2> QED BY <1>2, <1>4, <1>5, <1>6, <2>1, <2>2 DEF ToldOf
<1>9. CASE ReadMax(u)
  <2>1. UNCHANGED <<libRows, libVersions>>
    BY <1>9 DEF ReadMax
  <2>2. libCalls'[u].pc = "version"
    BY <1>9, LibTypes DEF ReadMax, LibCall
  <2>3. call.pc = "version" /\ call.test = t /\ call.rev = c.rev /\ call.last = LastNumber(t)
    BY <1>1, <1>2, <1>9, <2>2, UpdateAt DEF NoLibCall
  <2>4. At(u, t, {"max", "version"})
    BY <1>9, UpdateAt DEF At
  <2>5. c.rev = libRows[t].rev
    BY <2>4 DEF ToldOf
  <2>6. LastNumber(t)' = LastNumber(t)
    BY <2>1, SameVersions
  <2> QED BY <1>2, <1>4, <1>5, <1>6, <2>1, <2>3, <2>5, <2>6 DEF ToldOf
<1>10. CASE CreateVersion(u)
  <2>1. At(u, t, {"max", "version"}) /\ c.pc = "version"
    BY <1>10, UpdateAt DEF At
  <2>2. c.rev = libRows[t].rev /\ c.last = LastNumber(t)
    BY <2>1 DEF ToldOf
  <2>3. c.last + 1 \notin NumbersOf(t)
    BY <2>2, LastIs
  <2>4. /\ libVersions' = libVersions \cup
             {[test |-> t, number |-> LastNumber(t) + 1, rev |-> c.rev]}
        /\ LastNumber(t)' = LastNumber(t) + 1
    BY <1>10, <2>3, StoredIs
  <2>5. libRows' = libRows
    BY <1>10 DEF CreateVersion
  <2>6. Same(t)'
    <3>1. PICK new \in libVersions' :
            new = [test |-> t, number |-> LastNumber(t) + 1, rev |-> c.rev]
      BY <2>4
    <3>2. new.test = t /\ new.number = LastNumber(t)' /\ new.rev = libRows'[t].rev
      BY <2>2, <2>4, <2>5, <3>1
    <3> QED BY <3>2 DEF Same
  <2>7. call.pc \notin {"max", "version"}
    BY <1>1, <1>10, UpdateAt DEF NoLibCall
  <2> QED BY <1>4, <1>5, <1>6, <2>6, <2>7 DEF ToldOf
<1> QED BY <1>7, <1>8, <1>9, <1>10

LEMMA ToldKept ==
  ASSUME LibKnown, OneGroup, Counted, Told, [LibNext]_libVars
  PROVE  Told'
<1>1. CASE UNCHANGED <<libRows, libVersions, libCalls, libFaults, libCrossed>>
  <2>1. \A t : NumbersOf(t)' = NumbersOf(t) /\ LastNumber(t)' = LastNumber(t)
    BY <1>1, SameVersions
  <2>2. \A t : Same(t)' <=> Same(t)
    BY <1>1, <2>1 DEF Same
  <2>3. \A t : ToldOf(t)' <=> ToldOf(t)
    BY <1>1, <2>1, <2>2 DEF ToldOf, At
  <2> QED BY <1>1, <2>3 DEF Told, Exists
<1>2. CASE LibNext
  <2>1. PICK u \in LibUsers :
          \/ Refetch(u)
          \/ \E n \in 1..MaxCases : Upload(u, n)
          \/ CreateChild(u) \/ CreateChildFails(u) \/ CreateParent(u)
          \/ \E t \in LibIds : DeleteTest(u, t) \/ DeleteOne(u, t) \/ Edit(u, t)
          \/ \E S \in SUBSET LibIds : BulkDelete(u, S)
          \/ Generate(u) \/ ReadTest(u) \/ WriteTest(u) \/ ReadMax(u) \/ CreateVersion(u)
          \/ LibFails(u)
    BY <1>2 DEF LibNext
  <2> DEFINE c == libCalls[u]
  <2>2. LibCallKnown(u, c) /\ c \in LibCall
    BY LibTypes DEF LibKnown
  <2>3. CASE Refetch(u)
    BY <1>1, <2>3 DEF Refetch
  <2>4. ASSUME libFaults' > 0 PROVE Told'
    BY <2>4 DEF Told
  <2>5. CASE CreateChildFails(u) \/ LibFails(u)
    BY <2>4, <2>5, FaultIs DEF CreateChildFails, LibFails
  <2>6. ASSUME NEW call \in LibCall, libCalls' = [libCalls EXCEPT ![u] = call],
               c.pc \notin UpdatePcs, call.pc \notin UpdatePcs,
               UNCHANGED <<libRows, libVersions, libFaults, libCrossed>>
        PROVE  Told'
    <3> SUFFICES ASSUME NEW t \in LibIds, libFaults' = 0, t \notin libCrossed', Exists(t)'
                 PROVE  ToldOf(t)'
      BY DEF Told
    <3>1. ToldOf(t)
      BY <2>6 DEF Told, Exists
    <3> QED BY <2>6, <3>1, ToldElsewhere DEF At
  <2>7. ASSUME NEW n \in 1..MaxCases, Upload(u, n) PROVE Told'
    <3>1. /\ UNCHANGED <<libRows, libVersions, libFaults, libCrossed>>
          /\ c.pc \notin UpdatePcs
      BY <2>7 DEF Upload, Click, UpdatePcs
    <3> QED BY <2>6, <2>7, <3>1, UploadIs DEF UpdatePcs
  <2>8. ASSUME NEW t \in LibIds, DeleteTest(u, t) \/ Edit(u, t) PROVE Told'
    <3>1. /\ UNCHANGED <<libRows, libVersions, libFaults, libCrossed>>
          /\ c.pc \notin UpdatePcs
      BY <2>8 DEF DeleteTest, Edit, Click, UpdatePcs
    <3>2. PICK call \in LibCall :
            libCalls' = [libCalls EXCEPT ![u] = call] /\ call.pc \in {"self", "kids", "read"}
      BY <2>8, DeleteTestIs, EditIs
    <3> QED BY <2>6, <3>1, <3>2 DEF UpdatePcs
  <2>9. ASSUME NEW S \in SUBSET LibIds, BulkDelete(u, S) PROVE Told'
    <3>1. /\ UNCHANGED <<libRows, libVersions, libFaults, libCrossed>>
          /\ c.pc \notin UpdatePcs
      BY <2>9 DEF BulkDelete, Click, UpdatePcs
    <3>2. PICK call \in LibCall : libCalls' = [libCalls EXCEPT ![u] = call] /\ call.pc = "bulk"
      BY <2>9, BulkDeleteIs
    <3> QED BY <2>6, <3>1, <3>2 DEF UpdatePcs
  <2>10. CASE CreateChild(u) \/ CreateParent(u) \/ Generate(u)
    <3>1. PICK next \in LibIds : next = NextTest /\ Kind(next) = "none"
      BY <2>10, NextTestIs DEF CreateChild, CreateParent, Generate
    <3>2. UNCHANGED <<libVersions, libFaults, libCrossed>> /\ c.pc \notin UpdatePcs
      BY <2>10 DEF CreateChild, CreateParent, Generate, Click, UpdatePcs
    <3>3. ASSUME NEW row, NEW call \in LibCall, libRows' = [libRows EXCEPT ![next] = row],
                 libCalls' = [libCalls EXCEPT ![u] = call],
                 \/ call.pc \notin UpdatePcs /\ row.rev = 0
                 \/ call.pc = "max" /\ call.test = next /\ row.rev = call.rev
          PROVE  Told'
      <4> SUFFICES ASSUME NEW t \in LibIds, libFaults' = 0, t \notin libCrossed', Exists(t)'
                   PROVE  ToldOf(t)'
        BY DEF Told
      <4>1. CASE t = next
        <5>1. libRows'[t] = row
          BY <3>3, <4>1, LibTypes
        <5> QED BY <3>1, <3>2, <3>3, <4>1, <5>1, ToldNew
      <4>2. CASE t # next
        <5>1. libRows'[t] = libRows[t]
          BY <3>3, <4>2, LibTypes
        <5>2. ToldOf(t)
          BY <3>2, <5>1 DEF Told, Exists
        <5>3. ~At(u, t, UpdatePcs) /\ ~(call.test = t /\ call.pc \in UpdatePcs)
          BY <3>2, <3>3, <4>2 DEF At
        <5> QED BY <3>2, <3>3, <5>1, <5>2, <5>3, ToldElsewhere
      <4> QED BY <4>1, <4>2
    <3>4. CASE CreateChild(u)
      <4>1. PICK row \in LibRow, call \in LibCall :
              /\ libRows' = [libRows EXCEPT ![next] = row] /\ row.rev = 0
              /\ libCalls' = [libCalls EXCEPT ![u] = call]
              /\ call = NoLibCall \/ call.pc = c.pc
        BY <3>1, <3>4, CreateChildIs
      <4> QED BY <3>2, <3>3, <4>1 DEF NoLibCall, UpdatePcs
    <3>5. CASE CreateParent(u)
      <4>1. PICK rev \in 0..MaxLibSteps, call \in LibCall :
              /\ libRows' = [libRows EXCEPT ![next] =
                   [config |-> [kind |-> "group", kids |-> c.kids], rev |-> rev]]
              /\ libCalls' = [libCalls EXCEPT ![u] = call]
              /\ \/ call = NoLibCall /\ rev = 0
                 \/ call.pc = "max" /\ call.test = next /\ call.rev = rev
        BY <3>1, <3>5, CreateParentIs
      <4> QED BY <3>3, <4>1 DEF NoLibCall, UpdatePcs
    <3>6. CASE Generate(u)
      <4>1. PICK rev \in 0..MaxLibSteps, call \in LibCall :
              /\ libRows' = [libRows EXCEPT ![next] =
                   [config |-> [kind |-> "plain", kids |-> {}], rev |-> rev]]
              /\ libCalls' = [libCalls EXCEPT ![u] = call]
              /\ call.pc = "max" /\ call.test = next /\ call.rev = rev
        BY <3>1, <3>6, GenerateIs
      <4> QED BY <3>3, <4>1
    <3> QED BY <2>10, <3>4, <3>5, <3>6
  <2>11. ASSUME NEW s \in LibIds, DeleteOne(u, s) PROVE Told'
    <3>1. PICK call \in LibCall :
            /\ libCalls' = [libCalls EXCEPT ![u] = call] /\ c.pc \notin UpdatePcs
            /\ call.pc \notin UpdatePcs
      BY <2>11, DeleteOneIs DEF NoLibCall, UpdatePcs
    <3>2. CASE LibFault
      BY <2>4, <3>2, FaultIs
    <3>3. CASE /\ libRows' = [libRows EXCEPT ![s] =
                    [config |-> [kind |-> "deleted", kids |-> {}], rev |-> 0]]
               /\ libVersions' = {v \in libVersions : v.test # s}
               /\ UNCHANGED <<libFaults, libCrossed>>
      <4> SUFFICES ASSUME NEW t \in LibIds, libFaults' = 0, t \notin libCrossed', Exists(t)'
                   PROVE  ToldOf(t)'
        BY DEF Told
      <4>1. t # s /\ libRows'[t] = libRows[t]
        BY <3>3, LibTypes DEF Exists
      <4>2. ToldOf(t)
        BY <3>3, <4>1 DEF Told, Exists
      <4> QED BY <3>1, <3>3, <4>1, <4>2, ToldElsewhere DEF At
    <3> QED BY <2>11, <3>2, <3>3, DeleteOneIs
  <2>12. CASE ReadTest(u) \/ WriteTest(u) \/ ReadMax(u) \/ CreateVersion(u)
    <3> SUFFICES ASSUME NEW t \in LibIds, libFaults' = 0, t \notin libCrossed', Exists(t)'
                 PROVE  ToldOf(t)'
      BY DEF Told
    <3>1. UNCHANGED libFaults /\ libCrossed \subseteq libCrossed'
      BY <2>12 DEF ReadTest, WriteTest, ReadMax, CreateVersion
    <3>2. Exists(t)
      BY <2>12, LibTypes DEF ReadTest, WriteTest, ReadMax, CreateVersion, Exists
    <3>3. ToldOf(t)
      BY <3>1, <3>2 DEF Told
    <3>4. CASE t = c.test
      BY <2>12, <3>2, <3>3, <3>4, ToldUpdate
    <3>5. CASE t # c.test
      <4>1. PICK call \in LibCall :
              /\ libCalls' = [libCalls EXCEPT ![u] = call]
              /\ call = NoLibCall \/ call.test = c.test
        BY <2>12, UpdateIs
      <4>2. ~At(u, t, UpdatePcs) /\ ~(call.test = t /\ call.pc \in UpdatePcs)
        BY <3>5, <4>1 DEF At, UpdatePcs, NoLibCall
      <4>3. libRows'[t] = libRows[t]
        BY <2>12, <3>5, LibTypes DEF ReadTest, WriteTest, ReadMax, CreateVersion
      <4>4. \A v : v.test = t => (v \in libVersions' <=> v \in libVersions)
        BY <2>12, <3>5 DEF ReadTest, WriteTest, ReadMax, CreateVersion
      <4> QED BY <3>3, <4>1, <4>2, <4>3, <4>4, ToldElsewhere
    <3> QED BY <3>4, <3>5
  <2> QED BY <2>1, <2>3, <2>5, <2>7, <2>8, <2>9, <2>10, <2>11, <2>12
<1> QED BY <1>1, <1>2 DEF libVars

-----------------------------------------------------------------------------
(* The theorem.                                                            *)

LEMMA LibInitial ==
  ASSUME LibInit
  PROVE  LibInv
<1>1. /\ NoConfig \in Config /\ NoLibCall \in LibCall
      /\ 0 \in 0..MaxLibSteps /\ 0 \in 0..MaxLibFaults
  BY NoLibCallIs, LibAssumption DEF NoConfig, Config
<1>2. [config |-> NoConfig, rev |-> 0] \in LibRow
  BY <1>1 DEF LibRow
<1>3. LibTypeOK
  BY <1>1, <1>2 DEF LibInit, LibTypeOK
<1>4. /\ \A t \in LibIds : Kind(t) = "none" /\ Kids(t) = {} /\ ~Exists(t)
      /\ \A t \in LibIds : libRows[t] = [config |-> NoConfig, rev |-> 0]
  BY DEF LibInit, Kind, Kids, NoConfig, Exists
<1>5. \A u \in LibUsers, t \in LibIds : libLists[u][t].kids = {} /\ t \notin Displayed(u)
  BY DEF LibInit, NoConfig, Displayed
<1>6. \A u \in LibUsers : libCalls[u] = NoLibCall
  BY DEF LibInit
<1>7. Numbered
  <2>1. LibIds \subseteq Nat \ {0} /\ MaxLibTests \in Nat
    BY LibAssumption DEF LibIds
  <2>2. PICK n \in LibIds \cup {MaxLibTests + 1} : n = 1
    BY <2>1 DEF LibIds
  <2>3. \A s \in LibIds : s >= n
    BY <2>1, <2>2
  <2> QED BY <1>4, <2>3 DEF Numbered
<1>8. LibKnown
  <2>1. \A t \in LibIds : RowKnown(t)
    BY <1>4 DEF RowKnown
  <2>2. \A u \in LibUsers : \A t \in LibIds : ListKnown(u, t)
    BY <1>5 DEF ListKnown
  <2>3. \A u \in LibUsers : LibCallKnown(u, libCalls[u])
    BY <1>6, IdleKnown
  <2>4. FailedOnFault
    BY <1>6 DEF FailedOnFault, NoLibCall
  <2> QED BY <1>3, <1>7, <2>1, <2>2, <2>3, <2>4 DEF LibKnown
<1>9. OneGroup
  BY <1>4, <1>5, <1>6 DEF OneGroup, Uploading, NoLibCall
<1>10. Together /\ Reached
  BY <1>4, <1>6 DEF Together, Reached, Goes, NoLibCall
<1>11. Counted
  <2>1. \A t \in LibIds : NumbersOf(t) = {}
    BY DEF LibInit, NumbersOf
  <2>2. 0 \in Nat /\ 1..0 = {}
    OBVIOUS
  <2> QED BY <1>6, <2>1, <2>2 DEF Counted, LibInit, NoLibCall
<1>12. Told
  BY <1>4 DEF Told
<1> QED BY <1>8, <1>9, <1>10, <1>11, <1>12 DEF LibInv

LEMMA LibInductive ==
  ASSUME LibInv, [LibNext]_libVars
  PROVE  LibInv'
<1>1. LibKnown /\ OneGroup /\ Reached /\ Together /\ Counted /\ Told
  BY DEF LibInv
<1>2. LibKnown'
  BY <1>1, LibKnownKept
<1>3. OneGroup'
  BY <1>1, OneGroupKept
<1>4. Together' /\ Reached'
  BY <1>1, PlacesKept
<1>5. Counted'
  BY <1>1, CountedKept
<1>6. Told'
  BY <1>1, ToldKept
<1> QED BY <1>2, <1>3, <1>4, <1>5, <1>6 DEF LibInv

LEMMA LibInvSound ==
  ASSUME LibInv
  PROVE  LibTypeOK /\ LibrarySound
<1>1. LibKnown /\ Reached /\ Together /\ Counted /\ Told
  BY DEF LibInv
<1>2. LibTypeOK
  BY <1>1 DEF LibKnown
<1>3. libFaults = 0 \/ libFaults > 0
  BY <1>1, LibTypes
<1>4. HiddenHaveGroup
  BY <1>1, <1>3 DEF HiddenHaveGroup, Reached, Kind, Kids
<1>5. CasesExist
  <2> SUFFICES ASSUME NEW g \in LibIds, NEW t \in libRows[g].config.kids, ~Exists(t),
                      libFaults = 0
               PROVE  \E u \in LibUsers : g = libCalls[u].test \/ g \in libCalls[u].todo
    BY <1>3 DEF CasesExist
  <2>1. t \in Kids(g) /\ Case(t)
    BY <1>1 DEF LibKnown, RowKnown, Kids
  <2>2. Kind(t) = "deleted"
    BY <2>1 DEF Case, Kind, Exists
  <2>3. PICK u \in LibUsers : Goes(u, g)
    BY <1>1, <2>1, <2>2 DEF Together
  <2> QED BY <2>3 DEF Goes
<1>6. VersionsTell
  <2> SUFFICES ASSUME NEW t \in LibIds, Exists(t)
               PROVE  /\ NumbersOf(t) = 1..Cardinality(NumbersOf(t))
                      /\ \/ libFaults > 0 \/ t \in libCrossed
                         \/ \E u \in LibUsers : libCalls[u].test = t
                         \/ Same(t)
    BY DEF VersionsTell, Same
  <2>1. PICK n \in Nat : NumbersOf(t) = 1..n
    BY <1>1 DEF Counted
  <2>2. Cardinality(1..n) = n
    BY <2>1, FS_Interval
  <2>3. ASSUME libFaults = 0, t \notin libCrossed, \A u \in LibUsers : libCalls[u].test # t
        PROVE  Same(t)
    BY <1>1, <2>3 DEF Told, ToldOf, At
  <2> QED BY <1>3, <2>1, <2>2, <2>3
<1> QED BY <1>2, <1>4, <1>5, <1>6 DEF LibrarySound

\* Whatever requests users send, a test the page hides can be reached through a group, the
\* cases of a group exist, and the history of a test has no gap (TestsService, page.tsx).
THEOREM LibraryAlwaysSound == LibSpec => []LibrarySound
<1>1. LibInit => LibInv
  BY LibInitial
<1>2. LibInv /\ [LibNext]_libVars => LibInv'
  BY LibInductive
<1>3. LibInv => LibrarySound
  BY LibInvSound
<1> QED BY <1>1, <1>2, <1>3, PTL DEF LibSpec

-----------------------------------------------------------------------------
(* The four together.                                                      *)

RecordsInv == IInv /\ LibInv /\ SessInv /\ SchedInv

LEMMA RecordsInductive == RecordsSpec => []RecordsInv
<1>1. RecordsInit => RecordsInv
  BY InitIInv, LibInitial, SessInitial, SchedInitial DEF RecordsInit, RecordsInv
<1>2. RecordsInv /\ [RecordsNext]_recordsVars => RecordsInv'
  <2> SUFFICES ASSUME RecordsInv, [RecordsNext]_recordsVars PROVE RecordsInv'
    OBVIOUS
  <2>1. [Next]_vars /\ [LibNext]_libVars /\ [SessNext]_sessVars /\ [SchedNext]_schedVars
    BY DEF RecordsNext, recordsVars
  <2> QED BY <2>1, NextIInv, LibInductive, SessInductive, SchedInductive DEF RecordsInv
<1> QED BY <1>1, <1>2, PTL DEF RecordsSpec

\* Type correctness of the four modules: among it, that a row of test_versions is of a test
\* there was and a token in localStorage of a user there is.
THEOREM RecordsKeepTheirTypes == RecordsSpec => []RecordsTypeOK
<1>1. RecordsInv => RecordsTypeOK
  BY LibInvSound DEF RecordsInv, RecordsTypeOK, IInv, SessInv, SchedInv
<1> QED BY <1>1, RecordsInductive, PTL
=============================================================================
