---------------------------- MODULE ScansProofs ----------------------------
(***************************************************************************)
(* Load tests, security scans, accessibility tests and the queue           *)
(* administration, for any number of runs, jobs and calls, of faults and   *)
(* of restarts: an inductive invariant of each of the four modules, with a *)
(* lemma for what one run or job may do, and from them the invariants of   *)
(* MCScans.                                                                *)
(***************************************************************************)
EXTENDS MCScans, FiniteSetTheorems, TLAPS

-----------------------------------------------------------------------------
(* LoadTests: what a run leaves behind, and what is reported of it.        *)

\* Where a run is, its process, timer and close handler agree.
RunKnown(run) ==
  /\ run.pc \in {"new", "found", "queued", "running", "threw"} =>
       run.proc = "none" /\ run.code = "none"
  /\ run.pc # "returned" => run.timer = "none" /\ run.close = "none" /\ run.proc = "none"
  /\ run.pc = "returned" => run.proc # "none" /\ run.timer # "none"
  /\ run.proc \in {"live", "signalled"} => run.code = "none"
  /\ run.proc = "ended" => run.code # "none"
  /\ run.close # "none" => run.proc = "ended"

\* The run has still to write the status with which it ends.
Busy(run) ==
  \/ run.pc \in {"queued", "running"}
  \/ run.pc = "returned" /\ run.close \in {"none", "reading"}

\* The runs whose alert's event is not counted yet.
Counting == {r \in LoadRuns : loadRuns[r].close = "event"}

AtWork(status) == status \in {"QUEUED", "RUNNING"}

LoadInv ==
  /\ LoadTypeOK
  /\ \A r \in LoadRuns : RunKnown(loadRuns[r])
  /\ loadOwner # NoRun => loadRuns[loadOwner].proc # "none"
  /\ LiveIsTracked /\ CollectionStops /\ CompletedIsEarned
  /\ AtWork(loadStatus) /\ loadFaults = 0 /\ loadCrashes = 0 =>
       \E r \in LoadRuns : Busy(loadRuns[r])
  /\ IsFiniteSet(Counting)
  /\ loadAlert.counted + Cardinality(Counting) <= loadAlert.events
  /\ loadFaults = 0 /\ loadCrashes = 0 =>
       loadAlert.counted + Cardinality(Counting) = loadAlert.events

\* An alert's event may be created, or counted, or its counting given up.
AlertMoves(old, run) ==
  \/ loadAlert' = loadAlert /\ (run.close = "event" <=> old.close = "event")
  \/ /\ loadAlert' = [loadAlert EXCEPT !.events = loadAlert.events + 1]
     /\ run.close = "event" /\ old.close # "event"
  \/ /\ loadAlert' = [loadAlert EXCEPT !.counted = loadAlert.counted + 1]
     /\ run.close # "event" /\ old.close = "event"
  \/ loadAlert' = loadAlert /\ loadFaults' > 0 /\ run.close # "event" /\ old.close = "event"

LEMMA CountsMove ==
  ASSUME LoadInv, NEW r \in LoadRuns, NEW run \in LoadRun,
         loadRuns' = [loadRuns EXCEPT ![r] = run], AlertMoves(loadRuns[r], run),
         loadFaults \in Nat, loadFaults' \in Nat, loadFaults <= loadFaults',
         loadCrashes' = loadCrashes
  PROVE  /\ loadAlert' \in [events : Nat, counted : Nat]
         /\ IsFiniteSet(Counting')
         /\ loadAlert'.counted + Cardinality(Counting') <= loadAlert'.events
         /\ loadFaults' = 0 /\ loadCrashes' = 0 =>
              loadAlert'.counted + Cardinality(Counting') = loadAlert'.events
<1>1. loadRuns \in [LoadRuns -> LoadRun] /\ loadAlert \in [events : Nat, counted : Nat]
  BY DEF LoadInv, LoadTypeOK
<1>2. loadRuns'[r] = run /\ \A q \in LoadRuns \ {r} : loadRuns'[q] = loadRuns[q]
  BY <1>1
<1>3. /\ Counting' = IF run.close = "event" THEN Counting \cup {r} ELSE Counting \ {r}
      /\ r \in Counting <=> loadRuns[r].close = "event"
  BY <1>2 DEF Counting
<1>4. IsFiniteSet(Counting) /\ Cardinality(Counting) \in Nat
  BY FS_CardinalityType DEF LoadInv
<1>5. PICK e \in Nat, c \in Nat, n \in Nat :
        e = loadAlert.events /\ c = loadAlert.counted /\ n = Cardinality(Counting)
  BY <1>1, <1>4
<1>6. c + n <= e /\ (loadFaults = 0 /\ loadCrashes = 0 => c + n = e)
  BY <1>5 DEF LoadInv
<1>7. loadFaults' = 0 => loadFaults = 0
  OBVIOUS
<1>8. CASE loadAlert' = loadAlert /\ (run.close = "event" <=> loadRuns[r].close = "event")
  <2>1. Counting' = Counting
    BY <1>3, <1>8
  <2> QED BY <1>1, <1>4, <1>5, <1>6, <1>7, <1>8, <2>1
<1>9. CASE /\ loadAlert' = [loadAlert EXCEPT !.events = loadAlert.events + 1]
           /\ run.close = "event" /\ loadRuns[r].close # "event"
  <2>1. Counting' = Counting \cup {r} /\ r \notin Counting
    BY <1>3, <1>9
  <2>2. IsFiniteSet(Counting') /\ Cardinality(Counting') = n + 1
    BY <1>4, <1>5, <2>1, FS_AddElement
  <2>3. loadAlert' = [events |-> e + 1, counted |-> c]
    BY <1>1, <1>5, <1>9
  <2>4. c + (n + 1) <= e + 1 /\ (c + n = e => c + (n + 1) = e + 1)
    BY <1>6
  <2> QED BY <1>6, <1>7, <2>2, <2>3, <2>4
<1>10. ASSUME loadRuns[r].close = "event", run.close # "event"
       PROVE  IsFiniteSet(Counting') /\ Cardinality(Counting') = n - 1 /\ n - 1 \in Nat
  <2>1. Counting' = Counting \ {r} /\ r \in Counting
    BY <1>3, <1>10
  <2>2. IsFiniteSet(Counting') /\ Cardinality(Counting') = n - 1
    BY <1>4, <1>5, <2>1, FS_RemoveElement
  <2>3. Cardinality(Counting') \in Nat
    BY <2>2, FS_CardinalityType
  <2> QED BY <2>2, <2>3
<1>11. CASE /\ loadAlert' = [loadAlert EXCEPT !.counted = loadAlert.counted + 1]
            /\ run.close # "event" /\ loadRuns[r].close = "event"
  <2>1. loadAlert' = [events |-> e, counted |-> c + 1]
    BY <1>1, <1>5, <1>11
  <2>2. (c + 1) + (n - 1) <= e /\ (c + n = e => (c + 1) + (n - 1) = e)
    BY <1>6
  <2>3. /\ loadAlert'.counted = c + 1 /\ loadAlert'.events = e
        /\ loadAlert' \in [events : Nat, counted : Nat]
    BY <2>1
  <2>4. IsFiniteSet(Counting') /\ Cardinality(Counting') = n - 1
    BY <1>10, <1>11
  <2>5. loadFaults' = 0 /\ loadCrashes' = 0 => c + n = e
    BY <1>6, <1>7
  <2> QED BY <2>2, <2>3, <2>4, <2>5
<1>12. CASE /\ loadAlert' = loadAlert /\ loadFaults' > 0
            /\ run.close # "event" /\ loadRuns[r].close = "event"
  <2>1. c + (n - 1) <= e /\ loadFaults' # 0
    BY <1>6, <1>12
  <2>2. loadAlert'.counted = c /\ loadAlert'.events = e
    BY <1>5, <1>12
  <2>3. IsFiniteSet(Counting') /\ Cardinality(Counting') = n - 1
    BY <1>10, <1>12
  <2>4. loadAlert'.counted + Cardinality(Counting') <= loadAlert'.events
    BY <2>1, <2>2, <2>3
  <2> QED BY <1>1, <1>12, <2>1, <2>3, <2>4
<1> QED BY <1>8, <1>9, <1>11, <1>12 DEF AlertMoves

\* One run goes on, with what it writes.
LEMMA OneRun ==
  ASSUME LoadInv, NEW r \in LoadRuns, NEW run \in LoadRun, RunKnown(run),
         loadRuns' = [loadRuns EXCEPT ![r] = run],
         loadRuns[r].proc # "none" => run.proc # "none",
         loadRuns[r].code # "none" => run.code = loadRuns[r].code,
         loadStatus' \in {"DRAFT", "QUEUED", "RUNNING", "COMPLETED", "FAILED", "CANCELLED"},
         loadCollecting' \in BOOLEAN,
         loadCancels' \in [LoadCancels -> {"new", "read", "killed", "done"}],
         loadFaults' \in 0..MaxLoadFaults, loadFaults <= loadFaults',
             loadCrashes' = loadCrashes,
         \/ loadOwner' = loadOwner /\ (run.proc = "live" => loadRuns[r].proc = "live")
         \/ loadOwner' = r /\ run.proc # "none"
         \/ loadOwner' = NoRun /\ run.proc \in {"signalled", "ended"},
         \/ ~loadCollecting'
         \/ /\ loadCollecting' = loadCollecting
            /\ run.timer = loadRuns[r].timer \/ loadRuns[r].timer = "none"
            /\ run.close = loadRuns[r].close \/ loadRuns[r].close # "none"
         \/ run.timer = "late" \/ (run.timer = "fired" /\ run.close = "none"),
         AtWork(loadStatus') /\ loadFaults' = 0 =>
           Busy(run) \/ (AtWork(loadStatus) /\ ~Busy(loadRuns[r])),
         loadStatus' = "COMPLETED" =>
           loadStatus = "COMPLETED" \/ run.code \in {"zero", "null"},
         AlertMoves(loadRuns[r], run)
  PROVE  LoadInv'
<1>1. /\ loadRuns \in [LoadRuns -> LoadRun] /\ loadOwner \in LoadRuns \cup {NoRun}
      /\ loadFaults \in 0..MaxLoadFaults /\ loadCrashes \in 0..MaxLoadCrashes
      /\ MaxLoadFaults \in Nat
  BY LoadAssumption DEF LoadInv, LoadTypeOK
<1>2. loadRuns'[r] = run /\ \A q \in LoadRuns \ {r} : loadRuns'[q] = loadRuns[q]
  BY <1>1
<1>3. /\ loadAlert' \in [events : Nat, counted : Nat]
      /\ IsFiniteSet(Counting')
      /\ loadAlert'.counted + Cardinality(Counting') <= loadAlert'.events
      /\ loadFaults' = 0 /\ loadCrashes' = 0 =>
           loadAlert'.counted + Cardinality(Counting') = loadAlert'.events
  <2>1. loadFaults \in Nat /\ loadFaults' \in Nat
    BY <1>1
  <2> QED BY <2>1, CountsMove
<1>4. loadOwner' \in LoadRuns \cup {NoRun}
  BY <1>1
<1>5. LoadTypeOK'
  BY <1>1, <1>3, <1>4 DEF LoadTypeOK
<1>6. \A q \in LoadRuns : RunKnown(loadRuns'[q])
  BY <1>2 DEF LoadInv
<1>7. loadOwner' # NoRun => loadRuns'[loadOwner'].proc # "none"
  BY <1>1, <1>2 DEF LoadInv
<1>8. LiveIsTracked'
  <2> SUFFICES ASSUME NEW q \in LoadRuns, loadRuns'[q].proc = "live", loadOwner' # q
               PROVE  \E p \in LoadRuns \ {q} : loadRuns'[p].proc # "none"
    BY DEF LiveIsTracked
  <2>1. CASE loadOwner' = loadOwner /\ (run.proc = "live" => loadRuns[r].proc = "live")
    <3>1. loadRuns[q].proc = "live" /\ loadOwner # q
      BY <1>2, <2>1
    <3>2. PICK p \in LoadRuns \ {q} : loadRuns[p].proc # "none"
      BY <3>1 DEF LoadInv, LiveIsTracked
    <3> QED BY <1>2, <3>2
  <2>2. CASE loadOwner' = r /\ run.proc # "none"
    BY <1>2, <2>2
  <2>3. CASE loadOwner' = NoRun /\ run.proc \in {"signalled", "ended"}
    BY <1>2, <2>3
  <2> QED BY <2>1, <2>2, <2>3
<1>9. CollectionStops'
  <2> SUFFICES ASSUME loadCollecting'
               PROVE  \E q \in LoadRuns :
                        \/ loadRuns'[q].timer = "fired" /\ loadRuns'[q].close = "none"
                        \/ loadRuns'[q].timer = "late"
    BY DEF CollectionStops
  <2>1. CASE /\ loadCollecting
             /\ run.timer = loadRuns[r].timer \/ loadRuns[r].timer = "none"
             /\ run.close = loadRuns[r].close \/ loadRuns[r].close # "none"
    <3>1. PICK q \in LoadRuns : \/ loadRuns[q].timer = "fired" /\ loadRuns[q].close = "none"
                                \/ loadRuns[q].timer = "late"
      BY <2>1 DEF LoadInv, CollectionStops
    <3> QED BY <1>2, <2>1, <3>1
  <2>2. CASE run.timer = "late" \/ (run.timer = "fired" /\ run.close = "none")
    BY <1>2, <2>2
  <2> QED BY <2>1, <2>2
<1>10. CompletedIsEarned'
  <2> SUFFICES ASSUME loadStatus' = "COMPLETED"
               PROVE  \E q \in LoadRuns : loadRuns'[q].code \in {"zero", "null"}
    BY DEF CompletedIsEarned
  <2>1. CASE loadStatus = "COMPLETED"
    <3>1. PICK q \in LoadRuns : loadRuns[q].code \in {"zero", "null"}
      BY <2>1 DEF LoadInv, CompletedIsEarned
    <3> QED BY <1>2, <3>1
  <2>2. CASE run.code \in {"zero", "null"}
    BY <1>2, <2>2
  <2> QED BY <2>1, <2>2
<1>11. ASSUME AtWork(loadStatus'), loadFaults' = 0, loadCrashes' = 0
       PROVE  \E q \in LoadRuns : Busy(loadRuns'[q])
  <2>1. CASE Busy(run)
    BY <1>2, <2>1
  <2>2. CASE ~Busy(run)
    <3>1. AtWork(loadStatus) /\ ~Busy(loadRuns[r]) /\ loadFaults = 0 /\ loadCrashes = 0
      BY <1>1, <1>11, <2>2
    <3>2. PICK q \in LoadRuns : Busy(loadRuns[q])
      BY <3>1 DEF LoadInv
    <3> QED BY <1>2, <3>1, <3>2
  <2> QED BY <2>1, <2>2
<1> QED BY <1>3, <1>5, <1>6, <1>7, <1>8, <1>9, <1>10, <1>11 DEF LoadInv

\* The request of runTest and the timer it sets.
LEMMA RequestMoves ==
  ASSUME LoadInv, NEW r \in LoadRuns,
         \/ FindTest(r) \/ QueueTest(r) \/ StartTest(r) \/ Spawn(r) \/ RunTestThrows(r)
         \/ TimerFires(r)
  PROVE  LoadInv'
<1>1. /\ loadRuns \in [LoadRuns -> LoadRun] /\ loadRuns[r] \in LoadRun /\ RunKnown(loadRuns[r])
      /\ loadStatus \in {"DRAFT", "QUEUED", "RUNNING", "COMPLETED", "FAILED", "CANCELLED"}
      /\ loadCancels \in [LoadCancels -> {"new", "read", "killed", "done"}]
      /\ loadCollecting \in BOOLEAN /\ loadFaults \in 0..MaxLoadFaults
      /\ MaxLoadFaults \in Nat
  BY LoadAssumption DEF LoadInv, LoadTypeOK
<1>2. loadFaults <= loadFaults
  BY <1>1
<1>3. ASSUME NEW pc, NEW next,
             \/ pc = "new" /\ next = "found" /\ loadStatus' = loadStatus
             \/ pc = "found" /\ next = "queued" /\ loadStatus' = "QUEUED"
             \/ pc = "queued" /\ next = "running" /\ loadStatus' = "RUNNING",
             loadRuns[r].pc = pc, loadRuns' = [loadRuns EXCEPT ![r].pc = next],
             UNCHANGED <<loadOwner, loadCollecting, loadCancels, loadAlert, loadFaults,
                 loadCrashes>>
      PROVE  LoadInv'
  <2>1. PICK run : run = [loadRuns[r] EXCEPT !.pc = next]
    OBVIOUS
  <2>2. /\ run \in LoadRun /\ run.pc = next /\ run.proc = loadRuns[r].proc
        /\ run.code = loadRuns[r].code /\ run.timer = loadRuns[r].timer
        /\ run.close = loadRuns[r].close /\ next \in {"found", "queued", "running"}
    BY <1>1, <1>3, <2>1 DEF LoadRun
  <2>3. RunKnown(run) /\ loadRuns[r].close = "none" /\ run.proc = "none"
    BY <1>1, <1>3, <2>2 DEF RunKnown
  <2>4. loadRuns' = [loadRuns EXCEPT ![r] = run]
    BY <1>1, <1>3, <2>1
  <2>5. AlertMoves(loadRuns[r], run)
    BY <1>3, <2>2 DEF AlertMoves
  <2>6. AtWork(loadStatus') => Busy(run) \/ (AtWork(loadStatus) /\ ~Busy(loadRuns[r]))
    BY <1>3, <2>2, <2>3 DEF Busy, AtWork
  <2>7. loadStatus' \in {"DRAFT", "QUEUED", "RUNNING", "COMPLETED", "FAILED", "CANCELLED"}
        /\ (loadStatus' = "COMPLETED" => loadStatus = "COMPLETED")
    BY <1>1, <1>3
  <2> QED BY <1>1, <1>2, <1>3, <2>2, <2>3, <2>4, <2>5, <2>6, <2>7, OneRun
<1>4. CASE FindTest(r) \/ QueueTest(r) \/ StartTest(r)
  BY <1>3, <1>4 DEF FindTest, QueueTest, StartTest
<1>5. CASE Spawn(r)
  <2>1. PICK run : run = [loadRuns[r] EXCEPT !.pc = "returned", !.proc = "live",
      !.timer = "armed"]
    OBVIOUS
  <2>2. /\ run \in LoadRun /\ run.pc = "returned" /\ run.proc = "live"
        /\ run.code = loadRuns[r].code /\ run.timer = "armed"
        /\ run.close = loadRuns[r].close
    BY <1>1, <2>1 DEF LoadRun
  <2>3. /\ loadRuns' = [loadRuns EXCEPT ![r] = run] /\ loadOwner' = r
        /\ loadRuns[r].pc = "running"
        /\ UNCHANGED <<loadStatus, loadCollecting, loadCancels, loadAlert, loadFaults,
            loadCrashes>>
    BY <1>5, <2>1 DEF Spawn
  <2>4. /\ RunKnown(run) /\ loadRuns[r].close = "none" /\ loadRuns[r].timer = "none"
        /\ loadRuns[r].code = "none" /\ Busy(run)
    BY <1>1, <2>2, <2>3 DEF RunKnown, Busy
  <2>5. AlertMoves(loadRuns[r], run)
    BY <2>2, <2>3 DEF AlertMoves
  <2> QED BY <1>1, <1>2, <2>2, <2>3, <2>4, <2>5, OneRun
<1>6. CASE RunTestThrows(r)
  <2>1. PICK run : run = [loadRuns[r] EXCEPT !.pc = "threw"]
    OBVIOUS
  <2>2. /\ run \in LoadRun /\ run.pc = "threw" /\ run.proc = loadRuns[r].proc
        /\ run.code = loadRuns[r].code /\ run.timer = loadRuns[r].timer
        /\ run.close = loadRuns[r].close
    BY <1>1, <2>1 DEF LoadRun
  <2>3. /\ loadRuns' = [loadRuns EXCEPT ![r] = run]
        /\ loadRuns[r].pc \in {"new", "found", "queued", "running"}
        /\ UNCHANGED <<loadStatus, loadOwner, loadCollecting, loadCancels, loadAlert,
            loadCrashes>>
    BY <1>1, <1>6, <2>1 DEF RunTestThrows
  <2>4. loadFaults' \in 0..MaxLoadFaults /\ loadFaults <= loadFaults' /\ loadFaults' # 0
    BY <1>1, <1>6 DEF RunTestThrows, Fault
  <2>5. RunKnown(run) /\ AlertMoves(loadRuns[r], run)
    BY <1>1, <2>2, <2>3 DEF RunKnown, AlertMoves
  <2> QED BY <1>1, <2>2, <2>3, <2>4, <2>5, OneRun
<1>7. CASE TimerFires(r)
  <2>1. PICK timer \in {"fired", "late"} :
          timer = IF loadRuns[r].close = "none" THEN "fired" ELSE "late"
    OBVIOUS
  <2>2. PICK run : run = [loadRuns[r] EXCEPT !.timer = timer]
    OBVIOUS
  <2>3. /\ run \in LoadRun /\ run.pc = loadRuns[r].pc /\ run.proc = loadRuns[r].proc
        /\ run.code = loadRuns[r].code /\ run.timer = timer /\ run.close = loadRuns[r].close
    BY <1>1, <2>2 DEF LoadRun
  <2>4. /\ loadRuns' = [loadRuns EXCEPT ![r] = run] /\ loadRuns[r].timer = "armed"
        /\ loadCollecting' = TRUE
        /\ UNCHANGED <<loadStatus, loadOwner, loadCancels, loadAlert, loadFaults, loadCrashes>>
    BY <1>1, <1>7, <2>1, <2>2 DEF TimerFires
  <2>5. RunKnown(run) /\ AlertMoves(loadRuns[r], run) /\ (Busy(run) <=> Busy(loadRuns[r]))
    BY <1>1, <2>3, <2>4 DEF RunKnown, AlertMoves, Busy
  <2>6. run.timer = "late" \/ (run.timer = "fired" /\ run.close = "none")
    BY <2>1, <2>3
  <2> QED BY <1>1, <1>2, <2>3, <2>4, <2>5, <2>6, OneRun
<1> QED BY <1>4, <1>5, <1>6, <1>7

\* The process and its handlers.
LEMMA ProcessMoves ==
  ASSUME LoadInv, NEW r \in LoadRuns, ProcessEnds(r) \/ SpawnFails(r) \/ Close(r)
  PROVE  LoadInv'
<1>1. /\ loadRuns \in [LoadRuns -> LoadRun] /\ loadRuns[r] \in LoadRun /\ RunKnown(loadRuns[r])
      /\ loadStatus \in {"DRAFT", "QUEUED", "RUNNING", "COMPLETED", "FAILED", "CANCELLED"}
      /\ loadCancels \in [LoadCancels -> {"new", "read", "killed", "done"}]
      /\ loadCollecting \in BOOLEAN /\ loadFaults \in 0..MaxLoadFaults
      /\ MaxLoadFaults \in Nat
  BY LoadAssumption DEF LoadInv, LoadTypeOK
<1>2. loadFaults <= loadFaults
  BY <1>1
<1>3. CASE ProcessEnds(r) \/ SpawnFails(r)
  <2>1. PICK code \in {"zero", "error", "null"} :
          loadRuns' = [loadRuns EXCEPT ![r] = [loadRuns[r] EXCEPT !.proc = "ended",
              !.code = code]]
    BY <1>1, <1>3 DEF ProcessEnds, SpawnFails
  <2>2. PICK run : run = [loadRuns[r] EXCEPT !.proc = "ended", !.code = code]
    OBVIOUS
  <2>3. /\ run \in LoadRun /\ run.pc = loadRuns[r].pc /\ run.proc = "ended"
        /\ run.code = code /\ run.timer = loadRuns[r].timer /\ run.close = loadRuns[r].close
    BY <1>1, <2>2 DEF LoadRun
  <2>4. loadRuns' = [loadRuns EXCEPT ![r] = run] /\ loadRuns[r].proc \in {"live", "signalled"}
        /\ UNCHANGED <<loadCollecting, loadCancels, loadAlert, loadCrashes>>
    BY <1>3, <2>1, <2>2 DEF ProcessEnds, SpawnFails
  <2>5. /\ RunKnown(run) /\ AlertMoves(loadRuns[r], run) /\ (Busy(run) <=> Busy(loadRuns[r]))
        /\ loadRuns[r].code = "none"
    BY <1>1, <2>3, <2>4 DEF RunKnown, AlertMoves, Busy
  <2>6. /\ loadFaults' \in 0..MaxLoadFaults /\ loadFaults <= loadFaults'
        /\ loadStatus' = loadStatus \/ loadStatus' = "FAILED"
        /\ loadOwner' = loadOwner \/ loadOwner' = NoRun
    BY <1>1, <1>3 DEF ProcessEnds, SpawnFails, Fault
  <2>7. AtWork(loadStatus') => AtWork(loadStatus)
    BY <2>6 DEF AtWork
  <2> QED BY <1>1, <2>3, <2>4, <2>5, <2>6, <2>7, OneRun
<1>4. CASE Close(r)
  <2>1. PICK run : run = [loadRuns[r] EXCEPT !.close = "reading"]
    OBVIOUS
  <2>2. /\ run \in LoadRun /\ run.pc = loadRuns[r].pc /\ run.proc = loadRuns[r].proc
        /\ run.code = loadRuns[r].code /\ run.timer = loadRuns[r].timer /\ run.close = "reading"
    BY <1>1, <2>1 DEF LoadRun
  <2>3. /\ loadRuns' = [loadRuns EXCEPT ![r] = run] /\ loadRuns[r].proc = "ended"
        /\ loadRuns[r].close = "none" /\ loadOwner' = NoRun /\ loadCollecting' = FALSE
        /\ UNCHANGED <<loadStatus, loadCancels, loadAlert, loadFaults, loadCrashes>>
    BY <1>1, <1>4, <2>1 DEF Close
  <2>4. /\ RunKnown(run) /\ AlertMoves(loadRuns[r], run) /\ (Busy(run) <=> Busy(loadRuns[r]))
    BY <1>1, <2>2, <2>3 DEF RunKnown, AlertMoves, Busy
  <2> QED BY <1>1, <1>2, <2>2, <2>3, <2>4, OneRun
<1> QED BY <1>3, <1>4

\* handleTestCompletion
LEMMA CompletionMoves ==
  ASSUME LoadInv, NEW r \in LoadRuns,
         \/ Complete(r) \/ CheckThresholds(r) \/ CountAlert(r)
         \/ CompletionThrows(r) \/ Rescue(r)
  PROVE  LoadInv'
<1>1. /\ loadRuns \in [LoadRuns -> LoadRun] /\ loadRuns[r] \in LoadRun /\ RunKnown(loadRuns[r])
      /\ loadStatus \in {"DRAFT", "QUEUED", "RUNNING", "COMPLETED", "FAILED", "CANCELLED"}
      /\ loadCancels \in [LoadCancels -> {"new", "read", "killed", "done"}]
      /\ loadCollecting \in BOOLEAN /\ loadFaults \in 0..MaxLoadFaults
      /\ MaxLoadFaults \in Nat
  BY LoadAssumption DEF LoadInv, LoadTypeOK
<1>2. ASSUME NEW close \in {"written", "event", "rescue", "done"},
             loadRuns' = [loadRuns EXCEPT ![r].close = close], loadRuns[r].close # "none",
             UNCHANGED <<loadOwner, loadCollecting, loadCancels, loadCrashes>>,
             loadStatus' \in {loadStatus, "COMPLETED", "FAILED"},
             loadStatus' = "COMPLETED" =>
               loadStatus = "COMPLETED" \/ loadRuns[r].code \in {"zero", "null"},
             loadFaults' \in 0..MaxLoadFaults, loadFaults <= loadFaults',
             loadRuns[r].close = "reading" => loadFaults' # 0 \/ loadStatus' # loadStatus
                                              \/ ~AtWork(loadStatus),
             \/ loadAlert' = loadAlert /\ (close = "event" <=> loadRuns[r].close = "event")
             \/ /\ loadAlert' = [loadAlert EXCEPT !.events = loadAlert.events + 1]
                /\ close = "event" /\ loadRuns[r].close # "event"
             \/ /\ loadAlert' = [loadAlert EXCEPT !.counted = loadAlert.counted + 1]
                /\ close # "event" /\ loadRuns[r].close = "event"
             \/ loadAlert' = loadAlert /\ loadFaults' > 0 /\ close # "event"
                /\ loadRuns[r].close = "event"
      PROVE  LoadInv'
  <2>1. PICK run : run = [loadRuns[r] EXCEPT !.close = close]
    OBVIOUS
  <2>2. /\ run \in LoadRun /\ run.pc = loadRuns[r].pc /\ run.proc = loadRuns[r].proc
        /\ run.code = loadRuns[r].code /\ run.timer = loadRuns[r].timer /\ run.close = close
    BY <1>1, <2>1 DEF LoadRun
  <2>3. loadRuns' = [loadRuns EXCEPT ![r] = run]
    BY <1>1, <1>2, <2>1
  <2>4. RunKnown(run) /\ AlertMoves(loadRuns[r], run)
    BY <1>1, <1>2, <2>2 DEF RunKnown, AlertMoves
  <2>5. loadRuns[r].close # "reading" => ~Busy(loadRuns[r])
    BY <1>1, <1>2 DEF RunKnown, Busy
  <2>6. AtWork(loadStatus') /\ loadFaults' = 0 => AtWork(loadStatus) /\ ~Busy(loadRuns[r])
    BY <1>2, <2>5 DEF AtWork
  <2>7. loadStatus' \in {"DRAFT", "QUEUED", "RUNNING", "COMPLETED", "FAILED", "CANCELLED"}
    BY <1>1, <1>2
  <2> QED BY <1>1, <1>2, <2>2, <2>3, <2>4, <2>6, <2>7, OneRun
<1>3. loadFaults <= loadFaults
  BY <1>1
<1>4. CASE Complete(r)
  <2>1. /\ loadRuns[r].close = "reading" /\ loadRuns[r].proc = "ended"
        /\ loadRuns[r].code \in {"zero", "error", "null"}
    BY <1>1, <1>4 DEF Complete, RunKnown, LoadRun
  <2>2. /\ loadStatus' \in {"COMPLETED", "FAILED"}
        /\ loadStatus' = "COMPLETED" => loadRuns[r].code \in {"zero", "null"}
    BY <1>4, <2>1 DEF Complete, Verdict
  <2>3. loadStatus' # loadStatus \/ ~AtWork(loadStatus)
    BY <2>2 DEF AtWork
  <2> QED BY <1>1, <1>2, <1>3, <1>4, <2>1, <2>2, <2>3 DEF Complete
<1>5. CASE CheckThresholds(r)
  BY <1>1, <1>2, <1>3, <1>5 DEF CheckThresholds
<1>6. CASE CountAlert(r)
  BY <1>1, <1>2, <1>3, <1>6 DEF CountAlert
<1>7. CASE CompletionThrows(r)
  <2>1. loadFaults' \in 0..MaxLoadFaults /\ loadFaults <= loadFaults' /\ loadFaults' > 0
    BY <1>1, <1>7 DEF CompletionThrows, Fault
  <2> QED BY <1>1, <1>2, <1>7, <2>1 DEF CompletionThrows
<1>8. CASE Rescue(r)
  <2>1. /\ loadFaults' \in 0..MaxLoadFaults /\ loadFaults <= loadFaults'
        /\ loadStatus' = loadStatus \/ loadStatus' = "FAILED"
    BY <1>1, <1>8 DEF Rescue, Fault
  <2> QED BY <1>1, <1>2, <1>8, <2>1 DEF Rescue
<1> QED BY <1>4, <1>5, <1>6, <1>7, <1>8

\* The calls of cancelTest.
LEMMA CancelMoves ==
  ASSUME LoadInv, NEW c \in LoadCancels, ReadForCancel(c) \/ KillTest(c) \/ WriteCancel(c)
  PROVE  LoadInv'
<1>1. /\ loadRuns \in [LoadRuns -> LoadRun] /\ loadOwner \in LoadRuns \cup {NoRun}
      /\ loadStatus \in {"DRAFT", "QUEUED", "RUNNING", "COMPLETED", "FAILED", "CANCELLED"}
      /\ loadCancels \in [LoadCancels -> {"new", "read", "killed", "done"}]
      /\ loadCollecting \in BOOLEAN /\ loadFaults \in 0..MaxLoadFaults
      /\ MaxLoadFaults \in Nat
  BY LoadAssumption DEF LoadInv, LoadTypeOK
<1>2. loadCancels' \in [LoadCancels -> {"new", "read", "killed", "done"}]
  BY <1>1 DEF ReadForCancel, KillTest, WriteCancel
<1>3. ASSUME loadRuns' = loadRuns, loadOwner' = loadOwner,
             loadStatus' = loadStatus \/ loadStatus' = "CANCELLED",
             UNCHANGED <<loadCollecting, loadAlert, loadFaults, loadCrashes>>
      PROVE  LoadInv'
  <2>1. LoadTypeOK'
    BY <1>1, <1>2, <1>3 DEF LoadInv, LoadTypeOK
  <2>2. LiveIsTracked' /\ CollectionStops' /\ CompletedIsEarned' /\ Counting' = Counting
    BY <1>3 DEF LoadInv, LiveIsTracked, CollectionStops, CompletedIsEarned, Counting
  <2>3. AtWork(loadStatus') => AtWork(loadStatus)
    BY <1>3 DEF AtWork
  <2> QED BY <1>3, <2>1, <2>2, <2>3 DEF LoadInv
<1>4. CASE ReadForCancel(c) \/ WriteCancel(c)
  BY <1>3, <1>4 DEF ReadForCancel, WriteCancel
<1>5. CASE KillTest(c)
  <2>1. CASE loadOwner = NoRun
    BY <1>3, <1>5, <2>1 DEF KillTest
  <2>2. CASE loadOwner # NoRun
    <3>1. PICK r \in LoadRuns : r = loadOwner
      BY <1>1, <2>2
    <3>2. loadRuns[r] \in LoadRun /\ RunKnown(loadRuns[r]) /\ loadRuns[r].proc # "none"
      BY <1>1, <2>2, <3>1 DEF LoadInv
    <3>3. PICK proc \in {"signalled", "ended"} :
            proc = IF loadRuns[r].proc = "live" THEN "signalled" ELSE loadRuns[r].proc
      BY <3>2 DEF LoadRun
    <3>4. PICK run : run = [loadRuns[r] EXCEPT !.proc = proc]
      OBVIOUS
    <3>5. /\ run \in LoadRun /\ run.pc = loadRuns[r].pc /\ run.proc = proc
          /\ run.code = loadRuns[r].code /\ run.timer = loadRuns[r].timer
          /\ run.close = loadRuns[r].close
      BY <3>2, <3>4 DEF LoadRun
    <3>6. /\ loadRuns' = [loadRuns EXCEPT ![r] = run] /\ loadOwner' = NoRun
          /\ loadStatus' = "CANCELLED"
          /\ UNCHANGED <<loadCollecting, loadAlert, loadFaults, loadCrashes>>
      BY <1>1, <1>5, <2>2, <3>1, <3>3, <3>4 DEF KillTest
    <3>7. RunKnown(run) /\ AlertMoves(loadRuns[r], run) /\ loadFaults <= loadFaults'
      BY <1>1, <3>2, <3>3, <3>5, <3>6 DEF RunKnown, AlertMoves
    <3>8. ~AtWork(loadStatus')
      BY <3>6 DEF AtWork
    <3> QED BY <1>1, <1>2, <3>2, <3>3, <3>5, <3>6, <3>7, <3>8, OneRun
  <2> QED BY <2>1, <2>2
<1> QED BY <1>4, <1>5

\* A restart.
LEMMA CrashMoves == LoadInv /\ LoadCrash => LoadInv'
<1> SUFFICES ASSUME LoadInv, LoadCrash PROVE LoadInv'
  OBVIOUS
<1>1. /\ loadRuns \in [LoadRuns -> LoadRun]
      /\ loadAlert \in [events : Nat, counted : Nat] /\ loadCrashes \in 0..MaxLoadCrashes
      /\ MaxLoadCrashes \in Nat
      /\ loadStatus \in {"DRAFT", "QUEUED", "RUNNING", "COMPLETED", "FAILED", "CANCELLED"}
      /\ loadCancels \in [LoadCancels -> {"new", "read", "killed", "done"}]
      /\ loadFaults \in 0..MaxLoadFaults
  BY LoadAssumption DEF LoadInv, LoadTypeOK
<1>2. /\ loadCrashes' \in 0..MaxLoadCrashes /\ loadCrashes' # 0
      /\ loadOwner' = NoRun /\ loadCollecting' = FALSE
      /\ UNCHANGED <<loadStatus, loadAlert, loadFaults>>
  BY <1>1 DEF LoadCrash
<1>3. ASSUME NEW r \in LoadRuns
      PROVE  /\ loadRuns'[r] \in LoadRun /\ RunKnown(loadRuns'[r])
             /\ loadRuns'[r].proc = "none" /\ loadRuns'[r].code = loadRuns[r].code
             /\ loadRuns'[r].close = "none"
  <2>1. loadRuns[r] \in LoadRun /\ RunKnown(loadRuns[r])
    BY <1>1 DEF LoadInv
  <2>2. loadRuns[r].code \in {"none", "zero", "error", "null"}
    BY <2>1 DEF LoadRun
  <2>3. CASE loadRuns[r].pc = "new"
    <3>1. loadRuns'[r] = loadRuns[r]
      BY <2>3 DEF LoadCrash
    <3> QED BY <2>1, <2>3, <3>1 DEF RunKnown
  <2>4. CASE loadRuns[r].pc # "new"
    <3>1. loadRuns'[r] = [pc |-> "dead", proc |-> "none", code |-> loadRuns[r].code,
                          timer |-> "none", close |-> "none"]
      BY <2>4 DEF LoadCrash
    <3>2. loadRuns'[r] \in LoadRun
      BY <2>2, <3>1 DEF LoadRun
    <3> QED BY <3>1, <3>2 DEF RunKnown
  <2> QED BY <2>3, <2>4
<1>4. loadRuns' \in [LoadRuns -> LoadRun]
  BY <1>1, <1>3 DEF LoadCrash
<1>5. loadCancels' \in [LoadCancels -> {"new", "read", "killed", "done"}]
  BY <1>1 DEF LoadCrash
<1>6. LoadTypeOK'
  BY <1>1, <1>2, <1>4, <1>5 DEF LoadTypeOK
<1>7. LiveIsTracked' /\ CollectionStops'
  BY <1>2, <1>3 DEF LiveIsTracked, CollectionStops
<1>8. CompletedIsEarned'
  <2> SUFFICES ASSUME loadStatus' = "COMPLETED"
               PROVE  \E q \in LoadRuns : loadRuns'[q].code \in {"zero", "null"}
    BY DEF CompletedIsEarned
  <2>1. PICK q \in LoadRuns : loadRuns[q].code \in {"zero", "null"}
    BY <1>2 DEF LoadInv, CompletedIsEarned
  <2> QED BY <1>3, <2>1
<1>9. Counting' = {}
  BY <1>3 DEF Counting
<1>10. IsFiniteSet(Counting') /\ Cardinality(Counting') = 0
  BY <1>9, FS_EmptySet
<1>11. loadAlert'.counted + Cardinality(Counting') <= loadAlert'.events
  <2>1. PICK e \in Nat, c \in Nat, n \in Nat :
          e = loadAlert.events /\ c = loadAlert.counted /\ n = Cardinality(Counting)
    BY <1>1, FS_CardinalityType DEF LoadInv
  <2>2. c + n <= e
    BY <2>1 DEF LoadInv
  <2>3. c + 0 <= e
    BY <2>2
  <2> QED BY <1>2, <1>10, <2>1, <2>3
<1> QED BY <1>2, <1>3, <1>6, <1>7, <1>8, <1>10, <1>11 DEF LoadInv

LEMMA LoadInductive == LoadInv /\ [LoadNext]_loadVars => LoadInv'
<1> SUFFICES ASSUME LoadInv, [LoadNext]_loadVars PROVE LoadInv'
  OBVIOUS
<1>1. CASE LoadNext
  BY <1>1, RequestMoves, ProcessMoves, CompletionMoves, CancelMoves, CrashMoves
     DEF LoadNext, LoadStep
<1>2. CASE UNCHANGED loadVars
  BY <1>2 DEF loadVars, LoadInv, LoadTypeOK, LiveIsTracked, CollectionStops, CompletedIsEarned,
              Counting
<1> QED BY <1>1, <1>2

LEMMA LoadInitial == LoadInit => LoadInv
<1> SUFFICES ASSUME LoadInit PROVE LoadInv
  OBVIOUS
<1>1. MaxLoadFaults \in Nat /\ MaxLoadCrashes \in Nat
  BY LoadAssumption
<1>2. ASSUME NEW r \in LoadRuns PROVE loadRuns[r] \in LoadRun /\ RunKnown(loadRuns[r])
  BY DEF LoadInit, LoadRun, RunKnown
<1>3. LoadTypeOK
  <2>1. loadFaults \in 0..MaxLoadFaults /\ loadCrashes \in 0..MaxLoadCrashes
    BY <1>1 DEF LoadInit
  <2>2. loadRuns \in [LoadRuns -> LoadRun]
    BY <1>2 DEF LoadInit
  <2> QED BY <2>1, <2>2 DEF LoadInit, LoadTypeOK
<1>4. Counting = {}
  BY DEF LoadInit, Counting
<1>5. IsFiniteSet(Counting) /\ Cardinality(Counting) = 0
  BY <1>4, FS_EmptySet
<1>6. LiveIsTracked /\ CollectionStops /\ CompletedIsEarned /\ ~AtWork(loadStatus)
  BY DEF LoadInit, LiveIsTracked, CollectionStops, CompletedIsEarned, AtWork
<1>7. loadAlert.counted = 0 /\ loadAlert.events = 0 /\ loadOwner = NoRun
  BY DEF LoadInit
<1> QED BY <1>2, <1>3, <1>5, <1>6, <1>7 DEF LoadInv

\* What the invariant says of the row, the process, the collection and the alert.
LEMMA LoadKnown ==
  LoadInv => LoadTypeOK /\ SettledWhenQuiet /\ LoadLeavesNothing /\ LoadAccounts
<1> SUFFICES ASSUME LoadInv
             PROVE  SettledWhenQuiet /\ LoadLeavesNothing /\ LoadAccounts
  BY DEF LoadInv
<1>1. ASSUME Quiet, NEW r \in LoadRuns PROVE ~Busy(loadRuns[r])
  BY <1>1 DEF Quiet, Busy
<1>2. SettledWhenQuiet
  BY <1>1 DEF SettledWhenQuiet, LoadInv, AtWork
<1>3. PICK e \in Nat, c \in Nat, n \in Nat :
        e = loadAlert.events /\ c = loadAlert.counted /\ n = Cardinality(Counting)
  BY FS_CardinalityType DEF LoadInv, LoadTypeOK
<1>4. c <= e /\ (n = 0 /\ loadFaults = 0 /\ loadCrashes = 0 => c = e)
  <2>1. c + n <= e /\ (loadFaults = 0 /\ loadCrashes = 0 => c + n = e)
    BY <1>3 DEF LoadInv
  <2> QED BY <2>1
<1>5. Counting = {} => n = 0
  BY <1>3, FS_EmptySet
<1>6. AlertsAreCounted
  BY <1>3, <1>4, <1>5 DEF AlertsAreCounted, Counting
<1> QED BY <1>2, <1>6 DEF LoadLeavesNothing, LoadAccounts, LoadInv

-----------------------------------------------------------------------------
(* SecurityScans: a scan comes to rest, and its rows are those of one try. *)

ScanStatus == {"PENDING", "RUNNING", "COMPLETED", "FAILED", "CANCELLED"}

\* Where a job is, its tries, stalls and the scan's status agree.
ScanJobKnown(job, status, faults, crashes) ==
  /\ job.pc = "waiting" => job.made < ScanAttempts
  /\ job.pc \in {"new", "found", "threw"} => job.made = 0
  /\ job.pc \notin {"new", "found", "threw", "waiting"} => job.made >= 1
  /\ job.stalls <= crashes /\ (job.pc = "stalled" => job.stalls < crashes)
  /\ faults = 0 => job.pc # "catch"
  /\ job.pc = "failed" => faults > 0 \/ crashes > MaxStalled
  /\ job.pc \in {"scanning", "inserting", "completed"} => status # "PENDING"
  /\ job.pc = "waiting" /\ faults = 0 /\ crashes = 0 => job.made = 0

\* The job has still to write how the scan ended.
ToSave(job) == job.pc \in {"waiting", "active", "scanning", "stalled"}

TakenJobs == {j \in ScanJobs : scanJobs[j].made > 0}

\* The rows there are when one job was taken, once.
RowsSoFar(job) ==
  /\ job.pc \in {"active", "scanning"} => scanRows = 0
  /\ job.pc \in {"inserting", "completed"} => scanRows + job.left = scanTotal

RowsInv ==
  /\ TakenJobs = {} => scanRows = 0
  /\ \A j \in TakenJobs : TakenJobs = {j} => RowsSoFar(scanJobs[j])

ScanInv ==
  /\ ScanTypeOK
  /\ \A j \in ScanJobs : ScanJobKnown(scanJobs[j], scanStatus, scanFaults, scanCrashes)
  /\ scanStatus = "RUNNING" /\ scanFaults = 0 /\ scanCrashes <= MaxStalled =>
       \E j \in ScanJobs : ToSave(scanJobs[j])
  /\ IsFiniteSet(TakenJobs)
  /\ scanFaults = 0 /\ scanCrashes = 0 => RowsInv

LEMMA ScanTypes ==
  ASSUME ScanInv, NEW j \in ScanJobs
  PROVE  /\ scanJobs \in [ScanJobs -> ScanJob] /\ scanJobs[j] \in ScanJob
         /\ scanJobs[j].made \in 0..3 /\ scanJobs[j].stalls \in 0..1
         /\ scanJobs[j].left \in 0..MaxVulns
         /\ ScanJobKnown(scanJobs[j], scanStatus, scanFaults, scanCrashes)
         /\ scanStatus \in ScanStatus /\ scanTotal \in 0..MaxVulns /\ scanRows \in Nat
         /\ scanFaults \in 0..MaxScanFaults /\ MaxScanFaults \in Nat /\ scanFaults \in Nat
         /\ scanFaults <= scanFaults /\ MaxVulns \in Nat /\ scanCrashes \in Nat
BY ScanAssumption DEF ScanInv, ScanTypeOK, ScanJob, ScanAttempts, MaxStalled, ScanStatus

\* One job goes on, and no restart happens.
LEMMA OneScanJob ==
  ASSUME ScanInv, NEW j \in ScanJobs, NEW job \in ScanJob,
         scanJobs' = [scanJobs EXCEPT ![j] = job],
         ScanJobKnown(job, scanStatus', scanFaults', scanCrashes),
         scanStatus' \in ScanStatus, scanStatus # "PENDING" => scanStatus' # "PENDING",
         scanTotal' \in 0..MaxVulns, scanRows' \in Nat,
         scanFaults' \in 0..MaxScanFaults, scanFaults <= scanFaults',
         UNCHANGED <<scanProvided, scanCancels, scanCrashes>>,
         scanStatus' = "RUNNING" /\ scanFaults' = 0 /\ scanCrashes <= MaxStalled =>
           ToSave(job) \/ (scanStatus = "RUNNING" /\ ~ToSave(scanJobs[j])),
         scanFaults' = 0 /\ scanCrashes = 0 =>
           \/ scanJobs[j].made = 0 /\ job.made = 0 /\ UNCHANGED <<scanRows, scanTotal>>
           \/ /\ job.made > 0
              /\ \/ RowsSoFar(scanJobs[j]) /\ scanJobs[j].made > 0
                 \/ scanRows = 0 /\ scanJobs[j].made = 0
                 => RowsSoFar(job)'
  PROVE  ScanInv'
<1>1. /\ scanJobs \in [ScanJobs -> ScanJob] /\ scanFaults \in Nat /\ scanFaults' \in Nat
      /\ scanCrashes \in Nat
  BY ScanAssumption DEF ScanInv, ScanTypeOK
<1>2. scanJobs'[j] = job /\ \A i \in ScanJobs \ {j} : scanJobs'[i] = scanJobs[i]
  BY <1>1
<1>3. ScanTypeOK'
  BY <1>1 DEF ScanInv, ScanTypeOK, ScanStatus
<1>4. ASSUME NEW i \in ScanJobs
      PROVE  ScanJobKnown(scanJobs'[i], scanStatus', scanFaults', scanCrashes')
  <2>1. CASE i = j
    BY <1>2, <2>1
  <2>2. CASE i # j
    <3>1. ScanJobKnown(scanJobs[i], scanStatus, scanFaults, scanCrashes)
      BY DEF ScanInv
    <3>2. scanFaults > 0 => scanFaults' > 0
      BY <1>1
    <3>3. scanFaults' = 0 => scanFaults = 0
      BY <1>1
    <3> QED BY <1>2, <2>2, <3>1, <3>2, <3>3 DEF ScanJobKnown
  <2> QED BY <2>1, <2>2
<1>5. ASSUME scanStatus' = "RUNNING", scanFaults' = 0, scanCrashes' <= MaxStalled
      PROVE  \E i \in ScanJobs : ToSave(scanJobs'[i])
  <2>1. CASE ToSave(job)
    BY <1>2, <2>1
  <2>2. CASE ~ToSave(job)
    <3>1. scanStatus = "RUNNING" /\ ~ToSave(scanJobs[j]) /\ scanFaults = 0
      BY <1>1, <1>5, <2>2
    <3>2. PICK i \in ScanJobs : ToSave(scanJobs[i])
      BY <1>5, <3>1 DEF ScanInv
    <3> QED BY <1>2, <3>1, <3>2
  <2> QED BY <2>1, <2>2
<1>6. TakenJobs' = IF job.made > 0 THEN TakenJobs \cup {j} ELSE TakenJobs \ {j}
  BY <1>2 DEF TakenJobs
<1>7. IsFiniteSet(TakenJobs')
  BY <1>6, FS_AddElement, FS_RemoveElement DEF ScanInv
<1>8. ASSUME scanFaults' = 0, scanCrashes' = 0 PROVE RowsInv'
  <2>1. RowsInv /\ scanCrashes = 0
    BY <1>1, <1>8 DEF ScanInv
  <2>2. CASE scanJobs[j].made = 0 /\ job.made = 0 /\ UNCHANGED <<scanRows, scanTotal>>
    <3>1. TakenJobs' = TakenJobs
      BY <1>6, <2>2 DEF TakenJobs
    <3> QED BY <1>2, <2>1, <2>2, <3>1 DEF RowsInv, RowsSoFar, TakenJobs
  <2>3. CASE job.made > 0
    <3>1. j \in TakenJobs'
      BY <1>6, <2>3
    <3>2. ASSUME TakenJobs' = {j} PROVE RowsSoFar(job)'
      <4>1. TakenJobs = {j} \/ TakenJobs = {}
        BY <1>6, <2>3, <3>2
      <4>2. \/ scanRows = 0 /\ scanJobs[j].made = 0
            \/ RowsSoFar(scanJobs[j]) /\ scanJobs[j].made > 0
        BY <2>1, <4>1, ScanTypes DEF RowsInv, TakenJobs
      <4> QED BY <1>8, <2>1, <2>3, <4>2
    <3> QED BY <1>2, <3>1, <3>2 DEF RowsInv, RowsSoFar
  <2> QED BY <1>8, <2>1, <2>2, <2>3
<1> QED BY <1>3, <1>4, <1>5, <1>7, <1>8 DEF ScanInv

\* startScan, and the worker takes a job.
LEMMA ScanBegins ==
  ASSUME ScanInv, NEW j \in ScanJobs,
         FindScan(j) \/ AddScanJob(j) \/ TakeScan(j) \/ BeginScan(j)
  PROVE  ScanInv'
<1> USE DEF ScanStatus
<1>1. CASE FindScan(j) \/ AddScanJob(j)
  <2>1. PICK pc \in {"found", "waiting", "threw"} :
          /\ scanJobs' = [scanJobs EXCEPT ![j].pc = pc]
          /\ pc = "threw" => scanFaults' > 0
    BY <1>1, ScanTypes DEF FindScan, AddScanJob, Goto, ScanFault
  <2>2. PICK job : job = [scanJobs[j] EXCEPT !.pc = pc]
    OBVIOUS
  <2>3. /\ job \in ScanJob /\ job.pc = pc /\ job.made = scanJobs[j].made
        /\ job.stalls = scanJobs[j].stalls /\ job.left = scanJobs[j].left
    BY <2>2, ScanTypes DEF ScanJob
  <2>4. /\ scanJobs' = [scanJobs EXCEPT ![j] = job] /\ scanJobs[j].pc \in {"new", "found"}
        /\ scanFaults' \in 0..MaxScanFaults /\ scanFaults <= scanFaults'
        /\ UNCHANGED <<scanProvided, scanStatus, scanTotal, scanRows, scanCancels, scanCrashes>>
    BY <1>1, <2>1, <2>2, ScanTypes DEF FindScan, AddScanJob, ScanFault
  <2>5. ScanJobKnown(job, scanStatus', scanFaults', scanCrashes)
    BY <2>3, <2>4, ScanTypes DEF ScanJobKnown, ScanAttempts
  <2>6. ~ToSave(scanJobs[j]) /\ scanJobs[j].made = 0
    BY <2>4, ScanTypes DEF ToSave, ScanJobKnown
  <2> QED BY <2>3, <2>4, <2>5, <2>6, ScanTypes, OneScanJob
<1>2. CASE TakeScan(j)
  <2>1. PICK job : job = [scanJobs[j] EXCEPT !.pc = "active", !.made = scanJobs[j].made + 1]
    OBVIOUS
  <2>2. PICK m \in Nat : m = scanJobs[j].made /\ m < 3
    BY <1>2, ScanTypes DEF TakeScan, ScanJobKnown, ScanAttempts
  <2>3. m + 1 \in 0..ScanAttempts /\ m + 1 >= 1 /\ m + 1 > 0
    BY <2>2 DEF ScanAttempts
  <2>4. /\ job \in ScanJob /\ job.pc = "active" /\ job.made = m + 1
        /\ job.stalls = scanJobs[j].stalls /\ job.left = scanJobs[j].left
    BY <2>1, <2>2, <2>3, ScanTypes DEF ScanJob
  <2>5. /\ scanJobs' = [scanJobs EXCEPT ![j] = job] /\ scanJobs[j].pc = "waiting"
        /\ UNCHANGED <<scanProvided, scanStatus, scanTotal, scanRows, scanCancels, scanFaults,
                       scanCrashes>>
    BY <1>2, <2>1 DEF TakeScan
  <2>6. ScanJobKnown(job, scanStatus', scanFaults', scanCrashes)
    BY <2>3, <2>4, <2>5, ScanTypes DEF ScanJobKnown
  <2>7. ToSave(job)
    BY <2>4 DEF ToSave
  <2>8. ASSUME scanFaults' = 0, scanCrashes = 0,
               \/ RowsSoFar(scanJobs[j]) /\ scanJobs[j].made > 0
               \/ scanRows = 0 /\ scanJobs[j].made = 0
        PROVE  RowsSoFar(job)'
    <3>1. scanJobs[j].made = 0
      BY <2>5, <2>8, ScanTypes DEF ScanJobKnown
    <3> QED BY <2>4, <2>5, <2>8, <3>1 DEF RowsSoFar
  <2> QED BY <2>3, <2>4, <2>5, <2>6, <2>7, <2>8, ScanTypes, OneScanJob
<1>3. CASE BeginScan(j)
  <2>1. PICK job : job = [scanJobs[j] EXCEPT !.pc = "scanning"]
    OBVIOUS
  <2>2. /\ job \in ScanJob /\ job.pc = "scanning" /\ job.made = scanJobs[j].made
        /\ job.stalls = scanJobs[j].stalls /\ job.left = scanJobs[j].left
    BY <2>1, ScanTypes DEF ScanJob
  <2>3. /\ scanJobs' = [scanJobs EXCEPT ![j] = job] /\ scanJobs[j].pc = "active"
        /\ scanStatus' = "RUNNING"
        /\ UNCHANGED <<scanProvided, scanTotal, scanRows, scanCancels, scanFaults, scanCrashes>>
    BY <1>3, <2>1 DEF BeginScan, Goto
  <2>4. ScanJobKnown(job, scanStatus', scanFaults', scanCrashes) /\ job.made > 0
    BY <2>2, <2>3, ScanTypes DEF ScanJobKnown
  <2>5. ToSave(job)
    BY <2>2 DEF ToSave
  <2>6. RowsSoFar(scanJobs[j]) \/ scanRows = 0 => RowsSoFar(job)'
    BY <2>2, <2>3 DEF RowsSoFar
  <2> QED BY <2>2, <2>3, <2>4, <2>5, <2>6, ScanTypes, OneScanJob
<1> QED BY <1>1, <1>2, <1>3

\* The results are stored.
LEMMA ScanStores ==
  ASSUME ScanInv, NEW j \in ScanJobs, SaveScan(j) \/ InsertVuln(j) \/ EndScan(j)
  PROVE  ScanInv'
<1> USE DEF ScanStatus
<1>1. CASE SaveScan(j)
  <2>1. PICK n \in 0..MaxVulns :
          /\ scanJobs' = [scanJobs EXCEPT ![j] =
               [scanJobs[j] EXCEPT !.pc = "inserting", !.left = n]]
          /\ scanTotal' = n
    BY <1>1, ScanTypes DEF SaveScan
  <2>2. PICK job : job = [scanJobs[j] EXCEPT !.pc = "inserting", !.left = n]
    OBVIOUS
  <2>3. /\ job \in ScanJob /\ job.pc = "inserting" /\ job.made = scanJobs[j].made
        /\ job.stalls = scanJobs[j].stalls /\ job.left = n /\ n \in Nat
    <3>1. n \in Nat /\ scanJobs[j] \in ScanJob
      BY ScanTypes
    <3> QED BY <2>2, <3>1 DEF ScanJob
  <2>4. /\ scanJobs' = [scanJobs EXCEPT ![j] = job] /\ scanJobs[j].pc = "scanning"
        /\ scanStatus' = "COMPLETED" /\ scanTotal' = n
        /\ UNCHANGED <<scanProvided, scanRows, scanCancels, scanFaults, scanCrashes>>
    BY <1>1, <2>1, <2>2 DEF SaveScan
  <2>5. ScanJobKnown(job, scanStatus', scanFaults', scanCrashes) /\ job.made > 0
    BY <2>3, <2>4, ScanTypes DEF ScanJobKnown
  <2>6. RowsSoFar(scanJobs[j]) \/ scanRows = 0 => RowsSoFar(job)'
    BY <2>3, <2>4 DEF RowsSoFar
  <2> QED BY <2>3, <2>4, <2>5, <2>6, ScanTypes, OneScanJob
<1>2. CASE InsertVuln(j)
  <2>1. PICK n \in Nat : n = scanJobs[j].left /\ n > 0 /\ n - 1 \in 0..MaxVulns
    BY <1>2, ScanTypes DEF InsertVuln
  <2>2. PICK job : job = [scanJobs[j] EXCEPT !.left = n - 1]
    OBVIOUS
  <2>3. /\ job \in ScanJob /\ job.pc = scanJobs[j].pc /\ job.made = scanJobs[j].made
        /\ job.stalls = scanJobs[j].stalls /\ job.left = n - 1
    BY <2>1, <2>2, ScanTypes DEF ScanJob
  <2>4. /\ scanJobs' = [scanJobs EXCEPT ![j] = job] /\ scanJobs[j].pc = "inserting"
        /\ scanRows' = scanRows + 1
        /\ UNCHANGED <<scanProvided, scanStatus, scanTotal, scanCancels, scanFaults,
            scanCrashes>>
    BY <1>2, <2>1, <2>2, ScanTypes DEF InsertVuln
  <2>5. ScanJobKnown(job, scanStatus', scanFaults', scanCrashes) /\ job.made > 0
    BY <2>3, <2>4, ScanTypes DEF ScanJobKnown
  <2>6. ~ToSave(scanJobs[j])
    BY <2>4 DEF ToSave
  <2>7. ASSUME RowsSoFar(scanJobs[j]) PROVE RowsSoFar(job)'
    <3>1. scanRows + n = scanTotal
      BY <2>1, <2>4, <2>7 DEF RowsSoFar
    <3>2. (scanRows + 1) + (n - 1) = scanTotal
      BY <2>1, <3>1, ScanTypes
    <3> QED BY <2>3, <2>4, <3>2 DEF RowsSoFar
  <2>8. scanRows' \in Nat
    BY <2>4, ScanTypes
  <2>9. /\ scanStatus' \in ScanStatus /\ scanFaults' \in 0..MaxScanFaults
        /\ scanTotal' \in 0..MaxVulns /\ scanFaults <= scanFaults'
    BY <2>4, ScanTypes
  <2>10. scanJobs[j].made # 0
    BY <2>3, <2>5
  <2> QED BY <2>3, <2>4, <2>5, <2>6, <2>7, <2>8, <2>9, <2>10, OneScanJob
<1>3. CASE EndScan(j)
  <2>1. PICK job : job = [scanJobs[j] EXCEPT !.pc = "completed"]
    OBVIOUS
  <2>2. /\ job \in ScanJob /\ job.pc = "completed" /\ job.made = scanJobs[j].made
        /\ job.stalls = scanJobs[j].stalls /\ job.left = scanJobs[j].left
    BY <2>1, ScanTypes DEF ScanJob
  <2>3. /\ scanJobs' = [scanJobs EXCEPT ![j] = job] /\ scanJobs[j].pc = "inserting"
        /\ UNCHANGED <<scanProvided, scanStatus, scanTotal, scanRows, scanCancels, scanFaults,
                       scanCrashes>>
    BY <1>3, <2>1 DEF EndScan, Goto
  <2>4. ScanJobKnown(job, scanStatus', scanFaults', scanCrashes) /\ job.made > 0
    BY <2>2, <2>3, ScanTypes DEF ScanJobKnown
  <2>5. ~ToSave(scanJobs[j])
    BY <2>3 DEF ToSave
  <2>6. RowsSoFar(scanJobs[j]) => RowsSoFar(job)'
    BY <2>2, <2>3 DEF RowsSoFar
  <2> QED BY <2>2, <2>3, <2>4, <2>5, <2>6, ScanTypes, OneScanJob
<1> QED BY <1>1, <1>2, <1>3

\* A try fails, and the queue has the job run again or fail.
LEMMA ScanFails ==
  ASSUME ScanInv, NEW j \in ScanJobs, ScanThrows(j) \/ FailScan(j) \/ Recover(j)
  PROVE  ScanInv'
<1> USE DEF ScanStatus
<1>1. CASE ScanThrows(j)
  <2>1. PICK job : job = [scanJobs[j] EXCEPT !.pc = "catch", !.left = 0]
    OBVIOUS
  <2>2. /\ job \in ScanJob /\ job.pc = "catch" /\ job.made = scanJobs[j].made
        /\ job.stalls = scanJobs[j].stalls /\ job.left = 0
    <3>1. 0 \in 0..MaxVulns
      BY ScanTypes
    <3> QED BY <2>1, <3>1, ScanTypes DEF ScanJob
  <2>3. /\ scanJobs' = [scanJobs EXCEPT ![j] = job]
        /\ scanJobs[j].pc \in {"active", "scanning", "inserting"}
        /\ UNCHANGED <<scanProvided, scanStatus, scanTotal, scanRows, scanCancels, scanCrashes>>
    BY <1>1, <2>1 DEF ScanThrows
  <2>4. scanFaults' \in 0..MaxScanFaults /\ scanFaults <= scanFaults' /\ scanFaults' > 0
    BY <1>1, ScanTypes DEF ScanThrows, ScanFault
  <2>5. ScanJobKnown(job, scanStatus', scanFaults', scanCrashes)
    BY <2>2, <2>3, <2>4, ScanTypes DEF ScanJobKnown
  <2>6. scanFaults' # 0
    BY <2>4
  <2> QED BY <2>2, <2>3, <2>4, <2>5, <2>6, ScanTypes, OneScanJob
<1>2. CASE FailScan(j)
  <2>1. PICK pc \in {"waiting", "failed"} :
          /\ scanJobs' = [scanJobs EXCEPT ![j].pc = pc]
          /\ pc = "waiting" => scanJobs[j].made < 3
    BY <1>2 DEF FailScan, Goto, Again, ScanAttempts
  <2>2. PICK job : job = [scanJobs[j] EXCEPT !.pc = pc]
    OBVIOUS
  <2>3. /\ job \in ScanJob /\ job.pc = pc /\ job.made = scanJobs[j].made
        /\ job.stalls = scanJobs[j].stalls /\ job.left = scanJobs[j].left
    BY <2>2, ScanTypes DEF ScanJob
  <2>4. /\ scanJobs' = [scanJobs EXCEPT ![j] = job] /\ scanJobs[j].pc = "catch"
        /\ UNCHANGED <<scanProvided, scanTotal, scanRows, scanCancels, scanCrashes>>
        /\ scanStatus' = "FAILED" \/ scanStatus' = scanStatus
    BY <1>2, <2>1, <2>2 DEF FailScan
  <2>5. scanFaults # 0
    BY <2>4, ScanTypes DEF ScanJobKnown
  <2>6. scanFaults' \in 0..MaxScanFaults /\ scanFaults <= scanFaults' /\ scanFaults' > 0
    BY <1>2, <2>5, ScanTypes DEF FailScan, ScanFault
  <2>7. ScanJobKnown(job, scanStatus', scanFaults', scanCrashes)
    BY <2>1, <2>3, <2>4, <2>6, ScanTypes DEF ScanJobKnown, ScanAttempts
  <2>8. /\ scanFaults' # 0 /\ scanStatus' \in ScanStatus
        /\ scanStatus # "PENDING" => scanStatus' # "PENDING"
    BY <2>4, <2>6, ScanTypes
  <2> QED BY <2>3, <2>4, <2>6, <2>7, <2>8, ScanTypes, OneScanJob
<1>3. CASE Recover(j)
  <2>1. PICK m \in Nat, n \in Nat, c \in Nat :
          /\ m = scanJobs[j].made /\ n = scanJobs[j].stalls /\ c = scanCrashes
          /\ m >= 1 /\ m <= 3 /\ n < c /\ n <= 1 /\ scanJobs[j].pc = "stalled"
    BY <1>3, ScanTypes DEF Recover, ScanJobKnown
  <2>2. /\ UNCHANGED <<scanProvided, scanStatus, scanTotal, scanRows, scanCancels, scanFaults,
                       scanCrashes>>
        /\ scanFaults' \in 0..MaxScanFaults /\ scanFaults <= scanFaults'
    BY <1>3, ScanTypes DEF Recover
  <2>3. /\ scanRows' \in Nat /\ scanTotal' \in 0..MaxVulns /\ scanStatus' \in ScanStatus
        /\ scanCrashes # 0
    BY <2>1, <2>2, ScanTypes
  <2>4. CASE n < 1
    <3>1. PICK job : job = [scanJobs[j] EXCEPT !.pc = "waiting", !.stalls = n + 1,
        !.made = m - 1]
      OBVIOUS
    <3>2. /\ m - 1 \in 0..ScanAttempts /\ n + 1 \in 0..MaxStalled
          /\ m - 1 < ScanAttempts /\ n + 1 <= c
      BY <2>1, <2>4 DEF ScanAttempts, MaxStalled
    <3>3. /\ job \in ScanJob /\ job.pc = "waiting" /\ job.made = m - 1
          /\ job.stalls = n + 1 /\ job.left = scanJobs[j].left
      BY <3>1, <3>2, ScanTypes DEF ScanJob
    <3>4. scanJobs' = [scanJobs EXCEPT ![j] = job]
      BY <1>3, <2>1, <2>4, <3>1 DEF Recover, MaxStalled
    <3>5. ScanJobKnown(job, scanStatus', scanFaults', scanCrashes)
      BY <2>1, <2>3, <3>2, <3>3 DEF ScanJobKnown
    <3>6. ToSave(job)
      BY <3>3 DEF ToSave
    <3> QED BY <2>2, <2>3, <3>3, <3>4, <3>5, <3>6, OneScanJob
  <2>5. CASE ~(n < 1)
    <3>1. PICK job : job = [scanJobs[j] EXCEPT !.pc = "failed"]
      OBVIOUS
    <3>2. /\ job \in ScanJob /\ job.pc = "failed" /\ job.made = m
          /\ job.stalls = n /\ job.left = scanJobs[j].left
      BY <2>1, <3>1, ScanTypes DEF ScanJob
    <3>3. scanJobs' = [scanJobs EXCEPT ![j] = job]
      BY <1>3, <2>1, <2>5, <3>1 DEF Recover, MaxStalled
    <3>4. c > MaxStalled
      BY <2>1, <2>5 DEF MaxStalled
    <3>5. ScanJobKnown(job, scanStatus', scanFaults', scanCrashes)
      BY <2>1, <2>3, <3>2, <3>4 DEF ScanJobKnown
    <3>6. ~(scanCrashes <= MaxStalled)
      BY <2>1, <3>4 DEF MaxStalled
    <3> QED BY <2>2, <2>3, <3>2, <3>3, <3>5, <3>6, OneScanJob
  <2> QED BY <2>4, <2>5
<1> QED BY <1>1, <1>2, <1>3

\* cancelScan
LEMMA ScanCancelled ==
  ASSUME ScanInv, NEW c \in ScanCancels, ReadScanStatus(c) \/ CancelScan(c)
  PROVE  ScanInv'
<1>1. /\ scanCancels \in [ScanCancels -> {"new", "read", "done"}]
      /\ scanStatus \in ScanStatus
  BY DEF ScanInv, ScanTypeOK, ScanStatus
<1>2. /\ scanCancels' \in [ScanCancels -> {"new", "read", "done"}]
      /\ UNCHANGED <<scanProvided, scanTotal, scanRows, scanJobs, scanFaults, scanCrashes>>
      /\ scanStatus' = scanStatus \/ scanStatus' = "CANCELLED"
  BY <1>1 DEF ReadScanStatus, CancelScan
<1>3. ScanTypeOK'
  BY <1>1, <1>2 DEF ScanInv, ScanTypeOK, ScanStatus
<1>4. ASSUME NEW j \in ScanJobs
      PROVE  ScanJobKnown(scanJobs'[j], scanStatus', scanFaults', scanCrashes')
  BY <1>2 DEF ScanInv, ScanJobKnown
<1>5. TakenJobs' = TakenJobs /\ (RowsInv => RowsInv')
  BY <1>2 DEF TakenJobs, RowsInv, RowsSoFar
<1> QED BY <1>2, <1>3, <1>4, <1>5 DEF ScanInv

\* A restart.
LEMMA ScanRestarts == ScanInv /\ ScanCrash => ScanInv'
<1> SUFFICES ASSUME ScanInv, ScanCrash PROVE ScanInv'
  OBVIOUS
<1>1. /\ scanCrashes \in Nat /\ scanCrashes' = scanCrashes + 1
      /\ scanCrashes' \in 0..MaxScanCrashes /\ scanCrashes' # 0
      /\ UNCHANGED <<scanProvided, scanStatus, scanTotal, scanRows, scanFaults>>
  <2>1. MaxScanCrashes \in Nat /\ scanCrashes \in 0..MaxScanCrashes
    BY ScanAssumption DEF ScanInv, ScanTypeOK
  <2>2. /\ scanCrashes < MaxScanCrashes /\ scanCrashes' = scanCrashes + 1
        /\ UNCHANGED <<scanProvided, scanStatus, scanTotal, scanRows, scanFaults>>
    BY DEF ScanCrash
  <2> QED BY <2>1, <2>2
<1>2. ASSUME NEW j \in ScanJobs
      PROVE  /\ scanJobs'[j] \in ScanJob /\ scanJobs'[j].made = scanJobs[j].made
             /\ scanJobs'[j].stalls = scanJobs[j].stalls
             /\ \/ scanJobs'[j].pc = scanJobs[j].pc /\ ~Active(j)
                \/ scanJobs'[j].pc = "stalled" /\ Active(j)
                \/ scanJobs'[j].pc = "threw" /\ scanJobs[j].pc = "found"
  <2>1. CASE Active(j)
    <3>1. 0 \in 0..MaxVulns /\ scanJobs[j] \in ScanJob
      BY ScanTypes
    <3>2. scanJobs'[j] = [scanJobs[j] EXCEPT !.pc = "stalled", !.left = 0]
      BY <2>1 DEF ScanCrash, Active
    <3> QED BY <2>1, <3>1, <3>2 DEF ScanJob
  <2>2. CASE ~Active(j) /\ scanJobs[j].pc = "found"
    <3>1. scanJobs'[j] = [scanJobs[j] EXCEPT !.pc = "threw"]
      BY <2>2 DEF ScanCrash, Active
    <3> QED BY <2>2, <3>1, ScanTypes DEF ScanJob
  <2>3. CASE ~Active(j) /\ scanJobs[j].pc # "found"
    <3>1. scanJobs'[j] = scanJobs[j]
      BY <2>3 DEF ScanCrash, Active
    <3> QED BY <2>3, <3>1, ScanTypes
  <2> QED BY <2>1, <2>2, <2>3
<1>3. scanJobs' \in [ScanJobs -> ScanJob]
  BY <1>2 DEF ScanCrash
<1>4. scanCancels' \in [ScanCancels -> {"new", "read", "done"}]
  BY DEF ScanCrash, ScanInv, ScanTypeOK
<1>5. ScanTypeOK'
  BY <1>1, <1>3, <1>4 DEF ScanInv, ScanTypeOK
<1>6. ASSUME NEW j \in ScanJobs
      PROVE  ScanJobKnown(scanJobs'[j], scanStatus', scanFaults', scanCrashes')
  <2>1. PICK n \in Nat, m \in Nat : n = scanJobs[j].stalls /\ m = scanJobs[j].made
    BY ScanTypes
  <2>2. /\ ScanJobKnown(scanJobs[j], scanStatus, scanFaults, scanCrashes)
        /\ scanJobs'[j].stalls = n /\ scanJobs'[j].made = m
    BY <1>2, <2>1, ScanTypes
  <2>3. n <= scanCrashes
    BY <2>1, <2>2 DEF ScanJobKnown
  <2>4. /\ n < scanCrashes' /\ n <= scanCrashes'
        /\ scanCrashes > MaxStalled => scanCrashes' > MaxStalled
    BY <1>1, <2>1, <2>3 DEF MaxStalled
  <2> QED BY <1>1, <1>2, <2>1, <2>2, <2>4 DEF ScanJobKnown, Active
<1>7. ASSUME scanStatus' = "RUNNING", scanFaults' = 0, scanCrashes' <= MaxStalled
      PROVE  \E j \in ScanJobs : ToSave(scanJobs'[j])
  <2>1. scanCrashes <= MaxStalled
    BY <1>1, <1>7 DEF MaxStalled
  <2>2. PICK j \in ScanJobs : ToSave(scanJobs[j])
    BY <1>1, <1>7, <2>1 DEF ScanInv
  <2>3. ToSave(scanJobs'[j])
    BY <1>2, <2>2 DEF ToSave, Active
  <2> QED BY <2>3
<1>8. TakenJobs' = TakenJobs
  BY <1>2 DEF TakenJobs
<1> QED BY <1>1, <1>5, <1>6, <1>7, <1>8 DEF ScanInv

LEMMA ScanInductive == ScanInv /\ [ScanNext]_scanVars => ScanInv'
<1> SUFFICES ASSUME ScanInv, [ScanNext]_scanVars PROVE ScanInv'
  OBVIOUS
<1>1. CASE ScanNext
  BY <1>1, ScanBegins, ScanStores, ScanFails, ScanCancelled, ScanRestarts DEF ScanNext, ScanStep
<1>2. CASE UNCHANGED scanVars
  BY <1>2 DEF scanVars, ScanInv, ScanTypeOK, TakenJobs, RowsInv, RowsSoFar
<1> QED BY <1>1, <1>2

LEMMA ScanInitial == ScanInit => ScanInv
<1> SUFFICES ASSUME ScanInit PROVE ScanInv
  OBVIOUS
<1>1. /\ MaxScanFaults \in Nat /\ MaxScanCrashes \in Nat /\ MaxVulns \in Nat
      /\ scanProvided \in BOOLEAN
  BY ScanAssumption DEF ScanInit
<1>2. [pc |-> "new", made |-> 0, stalls |-> 0, left |-> 0] \in ScanJob
  BY <1>1 DEF ScanJob, ScanAttempts, MaxStalled
<1>3. ScanTypeOK
  <2>1. scanFaults \in 0..MaxScanFaults /\ scanCrashes \in 0..MaxScanCrashes
        /\ scanTotal \in 0..MaxVulns
    BY <1>1 DEF ScanInit
  <2> QED BY <1>1, <1>2, <2>1 DEF ScanInit, ScanTypeOK
<1>4. ASSUME NEW j \in ScanJobs
      PROVE  ScanJobKnown(scanJobs[j], scanStatus, scanFaults, scanCrashes)
  BY DEF ScanInit, ScanJobKnown
<1>5. TakenJobs = {}
  BY DEF ScanInit, TakenJobs
<1>6. IsFiniteSet(TakenJobs)
  BY <1>5, FS_EmptySet
<1>7. RowsInv
  BY <1>5 DEF ScanInit, RowsInv
<1>8. scanStatus # "RUNNING"
  BY DEF ScanInit
<1> QED BY <1>3, <1>4, <1>6, <1>7, <1>8 DEF ScanInv

\* What the invariant says of the scan's row and rows.
LEMMA ScanKnown == ScanInv => ScanTypeOK /\ ScanSettled /\ RowsMatchCount
<1> SUFFICES ASSUME ScanInv PROVE ScanSettled /\ RowsMatchCount
  BY DEF ScanInv
<1>1. ASSUME NEW j \in ScanJobs, Idle(j) PROVE ~ToSave(scanJobs[j])
  BY <1>1 DEF Idle, Ended, ToSave
<1>2. ASSUME scanFaults = 0, scanCrashes <= MaxStalled, NEW j \in ScanJobs, Ended(j)
      PROVE  scanStatus # "PENDING"
  <2>1. scanJobs[j].pc # "failed"
    BY <1>2, ScanTypes DEF ScanJobKnown, MaxStalled
  <2> QED BY <1>2, <2>1, ScanTypes DEF Ended, ScanJobKnown
<1>3. ScanSettled
  BY <1>1, <1>2 DEF ScanSettled, ScanInv
<1>4. RowsMatchCount
  <2> SUFFICES ASSUME scanFaults = 0, scanCrashes = 0, Cardinality(TakenJobs) <= 1,
                      NEW j \in TakenJobs, scanJobs[j].pc \in {"inserting", "completed"}
               PROVE  scanRows + scanJobs[j].left = scanTotal
    BY DEF RowsMatchCount, TakenJobs
  <2>1. IsFiniteSet(TakenJobs) /\ RowsInv
    BY DEF ScanInv
  <2>2. TakenJobs = {j}
    <3>1. /\ Cardinality(TakenJobs \ {j}) = Cardinality(TakenJobs) - 1
          /\ IsFiniteSet(TakenJobs \ {j})
      BY <2>1, FS_RemoveElement
    <3>2. Cardinality(TakenJobs) \in Nat /\ Cardinality(TakenJobs \ {j}) \in Nat
      BY <2>1, <3>1, FS_CardinalityType
    <3>3. Cardinality(TakenJobs \ {j}) = 0
      BY <3>1, <3>2
    <3>4. TakenJobs \ {j} = {}
      BY <3>1, <3>3, FS_EmptySet
    <3> QED BY <3>4
  <2> QED BY <2>1, <2>2 DEF RowsInv, RowsSoFar
<1> QED BY <1>3, <1>4

-----------------------------------------------------------------------------
(* AxeScans: a test comes to rest, and its row is that of one scan.        *)

AtWorkOnAxe(run) == run.pc \in {"queued", "running", "scanned"}

\* The row holds what a run found, and its score.
RowOf(run) ==
  /\ run.pc \in {"saved", "returned", "threw"}
  /\ axeRow.issues = run.issues /\ axeRow.passes = run.passes
  /\ axeRow.score = Score(run.passes, run.issues)

AxeInv ==
  /\ AxeTypeOK
  /\ axeFaults = 0 /\ axeRow.status \in {"QUEUED", "RUNNING"} =>
       \E r \in AxeRuns : AtWorkOnAxe(axeRuns[r])
  /\ axeRow.score > 0 => \E r \in AxeRuns : RowOf(axeRuns[r])

\* calculateScore: a percentage; 100 of a scan without issues, and of one with so few that
\* they round away.
LEMMA ScoreRounds ==
  ASSUME NEW p \in Nat, NEW i \in Nat
  PROVE  /\ Score(p, i) \in 0..100
         /\ Score(p, i) = 100 => 200 * i <= p + i
         /\ i = 0 => Score(p, i) = 100
<1>1. CASE p = 0 /\ i = 0
  BY <1>1 DEF Score
<1>2. CASE p + i > 0
  <2>1. PICK d \in Nat : d = 2 * (p + i) /\ d > 0
    BY <1>2
  <2>2. PICK n \in Nat : n = 200 * p + p + i
    OBVIOUS
  <2>3. Score(p, i) = n \div d
    BY <1>2, <2>1, <2>2 DEF Score
  <2>4. PICK q \in Int : q = n \div d /\ d * q <= n /\ n < d * (q + 1)
    BY <2>1, <2>2
  <2>5. 0 <= q
    BY <2>1, <2>2, <2>4
  <2>6. n < d * 101
    BY <2>1, <2>2, <1>2
  <2>7. q <= 100
    BY <2>1, <2>2, <2>4, <2>6
  <2>8. ASSUME q = 100 PROVE 200 * i <= p + i
    <3>1. d * 100 <= n
      BY <2>4, <2>8
    <3> QED BY <2>1, <2>2, <3>1
  <2>9. ASSUME i = 0 PROVE q = 100
    <3>1. d * 100 <= n
      BY <2>1, <2>2, <2>9
    <3>2. d * 100 < d * (q + 1)
      BY <2>1, <2>2, <2>4, <3>1
    <3>3. 100 < q + 1
      BY <2>1, <2>4, <3>2
    <3> QED BY <2>4, <2>7, <3>3
  <2> QED BY <2>3, <2>4, <2>5, <2>7, <2>8, <2>9
<1> QED BY <1>1, <1>2

LEMMA AxeNumbers == 0..MaxIssues \subseteq Nat /\ AxePasses \cup {0} \subseteq Nat
<1>1. MaxIssues \in Nat /\ AxePasses \subseteq Nat
  BY AxeAssumption
<1>2. 0..MaxIssues \subseteq Nat
  BY <1>1
<1>3. AxePasses \cup {0} \subseteq Nat
  BY <1>1
<1> QED BY <1>2, <1>3

LEMMA AxeTypes ==
  ASSUME AxeInv
  PROVE  /\ axeRuns \in [AxeRuns -> AxeRun] /\ MaxIssues \in Nat /\ 0 \in 0..MaxIssues
         /\ axeRow \in [status : {"PENDING", "QUEUED", "RUNNING", "COMPLETED", "CANCELLED"},
                        issues : 0..MaxIssues, passes : AxePasses \cup {0}, score : 0..100]
         /\ axeFaults \in Nat
BY AxeAssumption DEF AxeInv, AxeTypeOK

\* A run goes on: it takes the row along, or what it was is not what the row depends on.
LEMMA OneAxeRun ==
  ASSUME AxeInv, NEW r \in AxeRuns, NEW run \in AxeRun,
         axeRuns' = [axeRuns EXCEPT ![r] = run],
         axeRow' \in [status : {"PENDING", "QUEUED", "RUNNING", "COMPLETED", "CANCELLED"},
                      issues : 0..MaxIssues, passes : AxePasses \cup {0}, score : 0..100],
         axeFaults' \in 0..MaxAxeFaults, axeFaults <= axeFaults', UNCHANGED axeCancels,
         axeFaults' = 0 /\ axeRow'.status \in {"QUEUED", "RUNNING"} =>
           AtWorkOnAxe(run) \/ (UNCHANGED axeRow /\ ~AtWorkOnAxe(axeRuns[r])),
         \/ RowOf(run)'
         \/ /\ axeRow'.issues = axeRow.issues /\ axeRow'.passes = axeRow.passes
            /\ axeRow'.score = axeRow.score
            /\ RowOf(axeRuns[r]) => RowOf(run)'
  PROVE  AxeInv'
<1>1. /\ axeRuns \in [AxeRuns -> AxeRun] /\ axeFaults \in Nat /\ axeFaults' \in Nat
  BY AxeAssumption DEF AxeInv, AxeTypeOK
<1>2. axeRuns'[r] = run /\ \A i \in AxeRuns \ {r} : axeRuns'[i] = axeRuns[i]
  BY <1>1
<1>3. AxeTypeOK'
  BY <1>1 DEF AxeInv, AxeTypeOK
<1>4. ASSUME axeFaults' = 0, axeRow'.status \in {"QUEUED", "RUNNING"}
      PROVE  \E i \in AxeRuns : AtWorkOnAxe(axeRuns'[i])
  <2>1. CASE AtWorkOnAxe(run)
    BY <1>2, <2>1
  <2>2. CASE ~AtWorkOnAxe(run)
    <3>1. UNCHANGED axeRow /\ ~AtWorkOnAxe(axeRuns[r]) /\ axeFaults = 0
      BY <1>1, <1>4, <2>2
    <3>2. PICK i \in AxeRuns : AtWorkOnAxe(axeRuns[i])
      BY <1>4, <3>1 DEF AxeInv
    <3> QED BY <1>2, <3>1, <3>2
  <2> QED BY <2>1, <2>2
<1>5. ASSUME axeRow'.score > 0 PROVE \E i \in AxeRuns : RowOf(axeRuns[i])'
  <2>1. CASE RowOf(run)'
    BY <1>2, <2>1 DEF RowOf
  <2>2. CASE /\ axeRow'.issues = axeRow.issues /\ axeRow'.passes = axeRow.passes
             /\ axeRow'.score = axeRow.score /\ (RowOf(axeRuns[r]) => RowOf(run)')
    <3>1. PICK i \in AxeRuns : RowOf(axeRuns[i])
      BY <1>5, <2>2 DEF AxeInv
    <3> QED BY <1>2, <2>2, <3>1 DEF RowOf
  <2> QED BY <2>1, <2>2
<1> QED BY <1>3, <1>4, <1>5 DEF AxeInv

\* runTest: every step but the scan and the store changes the run's pc only.
LEMMA AxeMoves ==
  ASSUME AxeInv, NEW r \in AxeRuns,
         AxeFind(r) \/ AxeQueue(r) \/ AxeStart(r) \/ AxeStore(r) \/ AxeThrows(r)
  PROVE  AxeInv'
<1>1. PICK pc \in {"found", "queued", "running", "threw", "returned"} :
        /\ axeRuns' = [axeRuns EXCEPT ![r].pc = pc]
        /\ pc = "found" => axeRuns[r].pc = "new"
        /\ pc = "queued" => axeRuns[r].pc = "found"
        /\ pc = "running" => axeRuns[r].pc = "queued"
        /\ pc = "returned" => axeRuns[r].pc = "saved"
        /\ pc = "threw" /\ axeFaults' = 0 => axeRuns[r].pc = "saved"
        /\ axeRow' = axeRow \/ (pc = "queued" /\ axeRow' = [axeRow EXCEPT !.status = "QUEUED"])
             \/ (pc = "running" /\ axeRow' = [axeRow EXCEPT !.status = "RUNNING"])
  <2>1. axeFaults \in Nat
    BY AxeTypes
  <2> QED BY <2>1 DEF AxeFind, AxeQueue, AxeStart, AxeStore, AxeThrows, AxeGoto
<1>2. PICK run : run = [axeRuns[r] EXCEPT !.pc = pc]
  OBVIOUS
<1>3. /\ run \in AxeRun /\ run.pc = pc /\ run.issues = axeRuns[r].issues
      /\ run.passes = axeRuns[r].passes
  BY <1>2, AxeTypes DEF AxeRun
<1>4. axeRuns' = [axeRuns EXCEPT ![r] = run] /\ UNCHANGED axeCancels
  BY <1>1, <1>2 DEF AxeFind, AxeQueue, AxeStart, AxeStore, AxeThrows
<1>5. axeFaults' \in 0..MaxAxeFaults /\ axeFaults <= axeFaults'
  BY AxeAssumption DEF AxeInv, AxeTypeOK, AxeFind, AxeQueue, AxeStart, AxeStore, AxeThrows
<1>6. /\ axeRow' \in [status : {"PENDING", "QUEUED", "RUNNING", "COMPLETED", "CANCELLED"},
                      issues : 0..MaxIssues, passes : AxePasses \cup {0}, score : 0..100]
      /\ axeRow'.issues = axeRow.issues /\ axeRow'.passes = axeRow.passes
      /\ axeRow'.score = axeRow.score
  BY <1>1, AxeTypes
<1>7. axeFaults' = 0 => AtWorkOnAxe(run) \/ (UNCHANGED axeRow /\ ~AtWorkOnAxe(axeRuns[r]))
  BY <1>1, <1>3 DEF AtWorkOnAxe
<1>8. RowOf(axeRuns[r]) => RowOf(run)'
  <2> SUFFICES ASSUME RowOf(axeRuns[r]) PROVE RowOf(run)'
    OBVIOUS
  <2>1. axeRuns[r].pc \in {"saved", "returned", "threw"}
    BY DEF RowOf
  <2>2. pc \in {"threw", "returned"}
    BY <1>1, <2>1
  <2> QED BY <1>3, <1>6, <2>2 DEF RowOf
<1> QED BY <1>3, <1>4, <1>5, <1>6, <1>7, <1>8, OneAxeRun

\* The scan ends, and its results are stored.
LEMMA AxeResults ==
  ASSUME AxeInv, NEW r \in AxeRuns, AxeScan(r) \/ AxeSave(r)
  PROVE  AxeInv'
<1>0. axeFaults' \in 0..MaxAxeFaults /\ axeFaults <= axeFaults' /\ UNCHANGED axeCancels
  BY AxeAssumption DEF AxeInv, AxeTypeOK, AxeScan, AxeSave
<1>1. CASE AxeScan(r)
  <2>1. PICK run \in AxeRun : run.pc = "scanned" /\ axeRuns' = [axeRuns EXCEPT ![r] = run]
    BY <1>1 DEF AxeScan, AxeRun
  <2>2. axeRuns[r].pc = "running" /\ UNCHANGED axeRow
    BY <1>1 DEF AxeScan
  <2>3. AtWorkOnAxe(run) /\ ~RowOf(axeRuns[r])
    BY <2>1, <2>2 DEF AtWorkOnAxe, RowOf
  <2> QED BY <1>0, <2>1, <2>2, <2>3, AxeTypes, OneAxeRun
<1>2. CASE AxeSave(r)
  <2>1. PICK run : run = [axeRuns[r] EXCEPT !.pc = "saved"]
    OBVIOUS
  <2>2. /\ run \in AxeRun /\ run.pc = "saved" /\ run.issues = axeRuns[r].issues
        /\ run.passes = axeRuns[r].passes
    BY <2>1, AxeTypes DEF AxeRun
  <2>3. axeRuns' = [axeRuns EXCEPT ![r] = run]
    BY <1>2, <2>1 DEF AxeSave, AxeGoto
  <2>4. run.issues \in 0..MaxIssues /\ run.passes \in AxePasses \cup {0}
    BY <2>2 DEF AxeRun
  <2>5. Score(run.passes, run.issues) \in 0..100
    <3>1. run.issues \in Nat /\ run.passes \in Nat
      BY <2>4, AxeNumbers
    <3> QED BY <3>1, ScoreRounds
  <2>6. axeRow' = [status |-> "COMPLETED", issues |-> run.issues, passes |-> run.passes,
                   score |-> Score(run.passes, run.issues)]
    BY <1>2, <2>2 DEF AxeSave
  <2>7. RowOf(run)' /\ axeRow'.status = "COMPLETED"
    BY <2>2, <2>6 DEF RowOf
  <2>8. axeRow' \in [status : {"PENDING", "QUEUED", "RUNNING", "COMPLETED", "CANCELLED"},
                     issues : 0..MaxIssues, passes : AxePasses \cup {0}, score : 0..100]
    BY <2>4, <2>5, <2>6
  <2> QED BY <1>0, <2>2, <2>3, <2>7, <2>8, OneAxeRun
<1> QED BY <1>1, <1>2

\* cancelTest
LEMMA AxeCancelled ==
  ASSUME AxeInv, NEW c \in AxeCancels, AxeReadStatus(c) \/ AxeCancel(c)
  PROVE  AxeInv'
<1>1. axeCancels' \in [AxeCancels -> {"new", "read", "done"}]
  BY DEF AxeInv, AxeTypeOK, AxeReadStatus, AxeCancel
<1>2. /\ axeRow' = axeRow \/ axeRow' = [axeRow EXCEPT !.status = "CANCELLED"]
      /\ UNCHANGED <<axeRuns, axeFaults>>
  BY DEF AxeReadStatus, AxeCancel
<1>3. /\ axeRow' \in [status : {"PENDING", "QUEUED", "RUNNING", "COMPLETED", "CANCELLED"},
                      issues : 0..MaxIssues, passes : AxePasses \cup {0}, score : 0..100]
      /\ axeRow'.issues = axeRow.issues /\ axeRow'.passes = axeRow.passes
      /\ axeRow'.score = axeRow.score
      /\ axeRow'.status = axeRow.status \/ axeRow'.status = "CANCELLED"
  BY <1>2, AxeTypes
<1>4. AxeTypeOK'
  BY <1>1, <1>2, <1>3 DEF AxeInv, AxeTypeOK
<1>5. axeRow'.score > 0 => \E r \in AxeRuns : RowOf(axeRuns[r])'
  BY <1>2, <1>3 DEF AxeInv, RowOf
<1> QED BY <1>2, <1>3, <1>4, <1>5 DEF AxeInv

LEMMA AxeInductive == AxeInv /\ [AxeNext]_axeVars => AxeInv'
<1> SUFFICES ASSUME AxeInv, [AxeNext]_axeVars PROVE AxeInv'
  OBVIOUS
<1>1. CASE AxeNext
  BY <1>1, AxeMoves, AxeResults, AxeCancelled DEF AxeNext
<1>2. CASE UNCHANGED axeVars
  BY <1>2 DEF axeVars, AxeInv, AxeTypeOK, RowOf
<1> QED BY <1>1, <1>2

LEMMA AxeInitial == AxeInit => AxeInv
<1> SUFFICES ASSUME AxeInit PROVE AxeInv
  OBVIOUS
<1>1. 0 \in 0..MaxIssues /\ 0 \in 0..MaxAxeFaults
  BY AxeAssumption
<1>2. [pc |-> "new", issues |-> 0, passes |-> 0] \in AxeRun
  BY <1>1 DEF AxeRun
<1>3. AxeTypeOK
  BY <1>1, <1>2 DEF AxeInit, AxeTypeOK
<1> QED BY <1>3 DEF AxeInit, AxeInv

\* What the invariant says of the test's row.
LEMMA AxeKnown == AxeInv => AxeTypeOK /\ AxeSettled /\ ScoreIsOfOneScan
<1> SUFFICES ASSUME AxeInv PROVE AxeSettled /\ ScoreIsOfOneScan
  BY DEF AxeInv
<1>1. AxeSettled
  BY DEF AxeInv, AxeSettled, AtWorkOnAxe
<1>2. ScoreIsOfOneScan
  <2> SUFFICES ASSUME axeRow.score > 0
               PROVE  /\ \E r \in AxeRuns : /\ axeRow.issues = axeRuns[r].issues
                                            /\ axeRow.passes = axeRuns[r].passes
                      /\ axeRow.score = 100 =>
                           200 * axeRow.issues <= axeRow.passes + axeRow.issues
                      /\ axeRow.issues = 0 => axeRow.score = 100
    BY DEF ScoreIsOfOneScan
  <2>1. PICK r \in AxeRuns : RowOf(axeRuns[r])
    BY DEF AxeInv
  <2>2. PICK p \in Nat, i \in Nat : p = axeRow.passes /\ i = axeRow.issues
    BY AxeTypes, AxeNumbers
  <2>3. axeRow.score = Score(p, i)
    BY <2>1, <2>2 DEF RowOf
  <2> QED BY <2>1, <2>2, <2>3, ScoreRounds DEF RowOf
<1> QED BY <1>1, <1>2

-----------------------------------------------------------------------------
(* QueueAdmin: what administrators may retry.                              *)

\* The calls of retryAllFailed that have still to retry a job.
ToRetry(j) == {c \in AdminCalls : queueCalls[c].kind = "retryAll" /\ j \in queueCalls[c].left}

\* The tries a job has made when it next comes to rest, at most.
Most(j) ==
  LET job == queueJobs[j] IN
  IF job.state \notin {"waiting", "active", "delayed"} THEN job.made
  ELSE IF job.made < queueAttempts THEN queueAttempts ELSE job.made + 1

Least == IF queueAttempts < 3 THEN 3 ELSE queueAttempts

\* One less than the calls of retryAllFailed, and 0 without one.
Overlaps == IF Cardinality(RetryAlls) = 0 THEN 0 ELSE Cardinality(RetryAlls) - 1

\* A try more for each retry that is still to come.
MostBounded(j) == Most(j) + Cardinality(ToRetry(j)) <= Least + queueAsked[j] + Overlaps

\* A job has failed, been listed or been retried by retryAllFailed with its attempts used up,
\* or its worker lost twice; on a queue of three attempts the first is on no list.
FailedOfReason(j) ==
  LET job == queueJobs[j] IN
  /\ job.state = "failed" => job.made >= queueAttempts \/ job.stalls > 1
  /\ job.again > 0 \/ ToRetry(j) # {} => queueAttempts < 3 \/ job.stalls > 1

QueueInv ==
  /\ QueueTypeOK
  /\ IsFiniteSet(RetryAlls)
  /\ \A c \in AdminCalls : queueCalls[c].pc = "new" => queueCalls[c].kind = "none"
  /\ \A j \in QueueJobs :
       /\ queueJobs[j].stalls <= queueFaults
       /\ queueJobs[j].state = "none" => queueJobs[j].made = 0 /\ ToRetry(j) = {}
       /\ MostBounded(j) /\ FailedOfReason(j)

LEMMA QueueCounts ==
  ASSUME QueueInv, NEW j \in QueueJobs
  PROVE  /\ Cardinality(RetryAlls) \in Nat /\ IsFiniteSet(ToRetry(j))
         /\ Cardinality(ToRetry(j)) \in Nat /\ Cardinality(ToRetry(j)) <= Cardinality(RetryAlls)
         /\ Least \in Nat /\ Least >= 3 /\ Least >= queueAttempts /\ queueAttempts \in Nat \ {0}
         /\ Overlaps \in Nat /\ Cardinality(ToRetry(j)) <= Overlaps + 1
         /\ Most(j) \in Nat /\ queueAsked[j] \in Nat
         /\ Most(j) + Cardinality(ToRetry(j)) <= Least + queueAsked[j] + Overlaps
<1>1. IsFiniteSet(RetryAlls) /\ ToRetry(j) \subseteq RetryAlls
  BY DEF QueueInv, ToRetry, RetryAlls
<1>2. /\ IsFiniteSet(ToRetry(j)) /\ Cardinality(ToRetry(j)) \in Nat
      /\ Cardinality(RetryAlls) \in Nat /\ Cardinality(ToRetry(j)) <= Cardinality(RetryAlls)
  BY <1>1, FS_Subset, FS_CardinalityType
<1>3. queueAttempts \in Nat \ {0} /\ queueJobs[j] \in QueueJob /\ queueAsked[j] \in Nat
  BY QueueAssumption DEF QueueInv, QueueTypeOK
<1>4. Least \in Nat /\ Least >= 3 /\ Least >= queueAttempts
  BY <1>3 DEF Least
<1>5. Overlaps \in Nat /\ Cardinality(ToRetry(j)) <= Overlaps + 1
  BY <1>2 DEF Overlaps
<1>6. Most(j) \in Nat
  BY <1>3 DEF Most, QueueJob
<1>7. MostBounded(j)
  BY DEF QueueInv
<1> QED BY <1>2, <1>3, <1>4, <1>5, <1>6, <1>7 DEF MostBounded

\* A job moves on by itself.
LEMMA OneJob ==
  ASSUME QueueInv, NEW j \in QueueJobs, NEW job \in QueueJob,
         queueJobs' = [queueJobs EXCEPT ![j] = job],
         queueFaults' \in 0..MaxQueueFaults, queueFaults <= queueFaults',
         UNCHANGED <<queueAttempts, queuePaused, queueCalls, queueAsked>>,
         job.stalls <= queueFaults', job.stalls >= queueJobs[j].stalls,
         job.again = queueJobs[j].again, job.state # "none",
         job.state = "failed" => job.made >= queueAttempts \/ job.stalls > 1,
         \/ Most(j)' <= Most(j)
         \/ queueJobs[j].state = "none" /\ Most(j)' <= Least
  PROVE  QueueInv'
<1>1. /\ queueJobs \in [QueueJobs -> QueueJob] /\ queueFaults \in Nat
      /\ \A i \in QueueJobs : queueJobs[i].stalls \in Nat /\ queueJobs[i].stalls <= queueFaults
  BY QueueAssumption DEF QueueInv, QueueTypeOK, QueueJob
<1>2. QueueTypeOK'
  BY <1>1 DEF QueueInv, QueueTypeOK
<1>3. RetryAlls' = RetryAlls /\ \A i \in QueueJobs : ToRetry(i)' = ToRetry(i)
  BY DEF RetryAlls, ToRetry
<1>4. queueJobs'[j] = job /\ \A i \in QueueJobs \ {j} : queueJobs'[i] = queueJobs[i]
  BY <1>1
<1>5. ASSUME NEW i \in QueueJobs PROVE queueJobs'[i].stalls <= queueFaults'
  <2>1. CASE i # j
    <3>1. /\ queueJobs[i].stalls \in Nat /\ queueJobs[i].stalls <= queueFaults
          /\ queueFaults' \in Nat
      BY <1>1, QueueAssumption
    <3>2. queueJobs[i].stalls <= queueFaults'
      BY <1>1, <3>1
    <3> QED BY <1>4, <2>1, <3>2
  <2> QED BY <1>4, <2>1
<1>6. ASSUME NEW i \in QueueJobs 
      PROVE queueJobs'[i].state = "none" => queueJobs'[i].made = 0 /\ ToRetry(i)' = {}
  BY <1>3, <1>4 DEF QueueInv
<1>7. Overlaps' = Overlaps /\ Least' = Least
  BY <1>3 DEF Overlaps, Least
<1>8. Most(j)' \in Nat
  BY <1>2, QueueAssumption DEF Most, QueueTypeOK, QueueJob
<1>9. ASSUME NEW i \in QueueJobs PROVE MostBounded(i)'
  <2>1. Most(i)' = Most(i) \/ i = j
    BY <1>4 DEF Most
  <2>2. PICK p \in Nat, a \in Nat, o \in Nat, b \in Nat, m \in Nat :
          /\ p = Cardinality(ToRetry(i)) /\ a = queueAsked[i]
          /\ o = Overlaps /\ b = Least /\ m = Most(i)
    BY QueueCounts
  <2>3. m + p <= b + a + o /\ p <= o + 1
    BY <2>2, QueueCounts
  <2>4. i = j /\ queueJobs[j].state = "none" => p = 0
    BY <2>2, FS_EmptySet DEF QueueInv
  <2>5. PICK n \in Nat : n = Most(i)'
    BY <1>8, <2>1, <2>2
  <2>6. n <= m \/ (p = 0 /\ n <= b)
    BY <2>1, <2>2, <2>4, <2>5
  <2>7. n + p <= b + a + o
    BY <2>3, <2>6
  <2>8. Cardinality(ToRetry(i))' = p /\ queueAsked'[i] = a /\ Overlaps' = o /\ Least' = b
    BY <1>3, <1>7, <2>2
  <2> QED BY <2>5, <2>7, <2>8 DEF MostBounded
<1>10. ASSUME NEW i \in QueueJobs PROVE FailedOfReason(i)'
  <2>1. FailedOfReason(i) /\ ToRetry(i)' = ToRetry(i)
    BY <1>3 DEF QueueInv
  <2>2. CASE i # j
    BY <1>4, <2>1, <2>2 DEF FailedOfReason
  <2>3. CASE i = j
    <3>1. job.stalls \in Nat /\ queueJobs[j].stalls \in Nat
      BY <1>1, QueueAssumption DEF QueueJob
    <3>2. queueJobs[j].stalls > 1 => job.stalls > 1
      BY <3>1
    <3> QED BY <1>4, <2>1, <2>3, <3>2 DEF FailedOfReason
  <2> QED BY <2>2, <2>3
<1> QED BY <1>2, <1>3, <1>5, <1>6, <1>9, <1>10 DEF QueueInv

LEMMA JobsMove ==
  ASSUME QueueInv, NEW j \in QueueJobs,
         \/ AddJob(j) \/ TakeJob(j) \/ Due(j) \/ StallJob(j)
         \/ \E ok \in BOOLEAN : JobEnds(j, ok)
  PROVE  QueueInv'
<1>1. /\ queueJobs[j] \in QueueJob /\ queueAttempts \in Nat \ {0}
      /\ queueFaults \in 0..MaxQueueFaults /\ MaxQueueFaults \in Nat
      /\ queueJobs[j].stalls <= queueFaults /\ FailedOfReason(j)
      /\ queueJobs \in [QueueJobs -> QueueJob]
  BY QueueAssumption DEF QueueInv, QueueTypeOK
<1>2. ASSUME NEW from \in {"none", "waiting", "delayed"}, NEW to \in {"waiting", "active"},
             Moves(j, from, to)
      PROVE  QueueInv'
  <2>1. PICK job : job = [queueJobs[j] EXCEPT !.state = to]
    OBVIOUS
  <2>2. /\ job \in QueueJob /\ job.state = to /\ job.made = queueJobs[j].made
        /\ job.stalls = queueJobs[j].stalls /\ job.again = queueJobs[j].again
    BY <1>1, <2>1 DEF QueueJob
  <2>3. queueJobs' = [queueJobs EXCEPT ![j] = job] /\ queueJobs[j].state = from
    BY <1>2, <2>1 DEF Moves, JobGoes
  <2>4. queueJobs'[j] = job /\ queueAttempts' = queueAttempts
    BY <1>1, <1>2, <2>3 DEF Moves
  <2>5. PICK m \in Nat, a \in Nat : m = queueJobs[j].made /\ a = queueAttempts
    BY <1>1 DEF QueueJob
  <2>6. Most(j)' = IF m < a THEN a ELSE m + 1
    BY <1>2, <2>2, <2>4, <2>5 DEF Most
  <2>9. /\ job.stalls <= queueFaults' /\ job.stalls >= queueJobs[j].stalls /\ to # "failed"
        /\ queueFaults' \in 0..MaxQueueFaults /\ queueFaults <= queueFaults'
        /\ job.state # "none"
        /\ UNCHANGED <<queueAttempts, queuePaused, queueCalls, queueAsked>>
    BY <1>1, <1>2, <2>2 DEF Moves, QueueJob
  <2>7. CASE from = "none"
    <3>1. m = 0 /\ a <= Least
      BY <2>3, <2>5, <2>7, QueueCounts DEF QueueInv
    <3>2. Most(j)' <= Least
      BY <1>1, <2>5, <2>6, <3>1
    <3> QED BY <2>2, <2>3, <2>7, <2>9, <3>2, OneJob
  <2>8. CASE from # "none"
    <3>1. Most(j)' <= Most(j)
      BY <1>2, <2>3, <2>5, <2>6, <2>8 DEF Most
    <3> QED BY <2>2, <2>3, <2>9, <3>1, OneJob
  <2> QED BY <2>7, <2>8
<1>3. CASE AddJob(j) \/ TakeJob(j) \/ Due(j)
  <2>1. AddJob(j) => Moves(j, "none", "waiting")
    BY DEF AddJob, Moves
  <2> QED BY <1>2, <1>3, <2>1 DEF TakeJob, Due
<1>4. CASE StallJob(j)
  <2>1. PICK st \in {"waiting", "failed"} :
           st = IF queueJobs[j].stalls = 0 THEN "waiting" ELSE "failed"
    OBVIOUS
  <2>2. PICK job : job = [queueJobs[j] EXCEPT !.stalls = @ + 1, !.state = st]
    OBVIOUS
  <2>3. PICK n \in Nat, m \in Nat, a \in Nat :
          n = queueJobs[j].stalls /\ m = queueJobs[j].made /\ a = queueAttempts
    BY <1>1 DEF QueueJob
  <2>4. /\ queueFaults' = queueFaults + 1 /\ queueFaults' \in 0..MaxQueueFaults
        /\ n + 1 <= queueFaults' /\ queueFaults <= queueFaults'
    BY <1>1, <1>4, <2>3 DEF StallJob
  <2>5. n + 1 \in 0..MaxQueueFaults
    BY <1>1, <2>3, <2>4
  <2>6. /\ job \in QueueJob /\ job.state = st /\ job.made = m
        /\ job.stalls = n + 1 /\ job.again = queueJobs[j].again
    BY <1>1, <2>2, <2>3, <2>5 DEF QueueJob
  <2>7. queueJobs' = [queueJobs EXCEPT ![j] = job]
    BY <1>1, <1>4, <2>1, <2>2 DEF StallJob
  <2>8. queueJobs'[j] = job /\ queueAttempts' = a
    BY <1>1, <1>4, <2>3, <2>7 DEF StallJob
  <2>9. st = "failed" => job.stalls > 1
    BY <2>1, <2>3, <2>6
  <2>10. Most(j) = (IF m < a THEN a ELSE m + 1) /\ queueJobs[j].stalls = n
    BY <1>4, <2>3 DEF StallJob, Most
  <2>11. Most(j)' = m \/ Most(j)' = Most(j)
    BY <2>6, <2>8, <2>10 DEF Most
  <2>12. Most(j)' <= Most(j) /\ n + 1 >= n
    BY <2>10, <2>11
  <2> QED BY <1>4, <2>3, <2>4, <2>6, <2>7, <2>9, <2>12, OneJob DEF StallJob
<1>5. ASSUME NEW ok \in BOOLEAN, JobEnds(j, ok) PROVE QueueInv'
  <2>1. PICK m \in Nat, a \in Nat : m = queueJobs[j].made /\ a = queueAttempts
    BY <1>1 DEF QueueJob
  <2>2. PICK st \in {"completed", "delayed", "failed"} :
          st = IF ok THEN "completed" ELSE IF m + 1 < a THEN "delayed" ELSE "failed"
    OBVIOUS
  <2>3. PICK job : job = [queueJobs[j] EXCEPT !.made = m + 1, !.state = st]
    OBVIOUS
  <2>4. /\ job \in QueueJob /\ job.state = st /\ job.made = m + 1
        /\ job.stalls = queueJobs[j].stalls /\ job.again = queueJobs[j].again
    <3>1. m + 1 \in Nat
      BY <2>1
    <3> QED BY <1>1, <2>3, <3>1 DEF QueueJob
  <2>5. queueJobs' = [queueJobs EXCEPT ![j] = job]
    BY <1>1, <1>5, <2>1, <2>2, <2>3 DEF JobEnds
  <2>6. queueJobs'[j] = job /\ queueAttempts' = a
    BY <1>1, <1>5, <2>1, <2>5 DEF JobEnds
  <2>7. Most(j) = IF m < a THEN a ELSE m + 1
    BY <1>5, <2>1 DEF JobEnds, Most
  <2>8. Most(j)' = IF st # "delayed" THEN m + 1 ELSE IF m + 1 < a THEN a ELSE m + 1 + 1
    BY <2>2, <2>4, <2>6 DEF Most
  <2>9. st = "delayed" => m + 1 < a
    BY <2>2
  <2>10. Most(j)' <= Most(j)
    BY <2>7, <2>8, <2>9
  <2>11. st = "failed" => m + 1 >= a
    BY <2>2
  <2>12. /\ job.stalls <= queueFaults' /\ job.stalls >= queueJobs[j].stalls
         /\ queueFaults' \in 0..MaxQueueFaults /\ queueFaults <= queueFaults'
         /\ job.state # "none" /\ (job.state = "failed" => job.made >= queueAttempts)
         /\ UNCHANGED <<queueAttempts, queuePaused, queueCalls, queueAsked>>
    <3>1. /\ queueJobs[j].stalls \in Nat /\ queueFaults \in Nat
          /\ UNCHANGED <<queueAttempts, queuePaused, queueCalls, queueAsked, queueFaults>>
      <4>1. UNCHANGED <<queueAttempts, queuePaused, queueCalls, queueAsked, queueFaults>>
        BY <1>5 DEF JobEnds
      <4>2. queueJobs[j].stalls \in 0..MaxQueueFaults
        BY <1>1 DEF QueueJob
      <4> QED BY <1>1, <4>1, <4>2
    <3>2. job.state # "none" /\ (job.state = "failed" => job.made >= queueAttempts)
      BY <2>1, <2>2, <2>4, <2>11
    <3> QED BY <1>1, <2>4, <3>1, <3>2
  <2> QED BY <2>4, <2>5, <2>10, <2>12, OneJob
<1> QED BY <1>3, <1>4, <1>5

\* A call goes on, and lists nothing more.
LEMMA OneCall ==
  ASSUME QueueInv, NEW c \in AdminCalls, NEW call \in AdminCall,
         queueCalls' = [queueCalls EXCEPT ![c] = call], call.pc # "new",
         call.kind = "retryAll" <=> queueCalls[c].kind = "retryAll",
         call.kind = "retryAll" => call.left \subseteq queueCalls[c].left
  PROVE  /\ queueCalls' \in [AdminCalls -> AdminCall]
         /\ \A d \in AdminCalls : queueCalls'[d].pc = "new" => queueCalls'[d].kind = "none"
         /\ RetryAlls' = RetryAlls
         /\ \A j \in QueueJobs : ToRetry(j)' \subseteq ToRetry(j)
<1>1. queueCalls \in [AdminCalls -> AdminCall]
  BY DEF QueueInv, QueueTypeOK
<1>2. queueCalls'[c] = call /\ \A d \in AdminCalls \ {c} : queueCalls'[d] = queueCalls[d]
  BY <1>1
<1> QED BY <1>1, <1>2 DEF QueueInv, RetryAlls, ToRetry

\* Jobs are removed, or stay, and a call goes on.
LEMMA CallMoves ==
  ASSUME QueueInv, NEW c \in AdminCalls, NEW call \in AdminCall,
         queueCalls' = [queueCalls EXCEPT ![c] = call], call.pc # "new",
         call.kind = "retryAll" <=> queueCalls[c].kind = "retryAll",
         call.kind = "retryAll" => call.left \subseteq queueCalls[c].left,
         UNCHANGED <<queueAttempts, queueAsked, queueFaults>>, queuePaused' \in BOOLEAN,
         queueJobs' \in [QueueJobs -> QueueJob],
         \A j \in QueueJobs : \/ queueJobs'[j] = queueJobs[j]
                              \/ queueJobs'[j] = [queueJobs[j] EXCEPT !.state = "removed"]
  PROVE  QueueInv'
<1>1. /\ queueCalls' \in [AdminCalls -> AdminCall]
      /\ \A d \in AdminCalls : queueCalls'[d].pc = "new" => queueCalls'[d].kind = "none"
      /\ RetryAlls' = RetryAlls
      /\ \A j \in QueueJobs : ToRetry(j)' \subseteq ToRetry(j)
  BY OneCall
<1>2. QueueTypeOK' /\ IsFiniteSet(RetryAlls')
  BY <1>1 DEF QueueInv, QueueTypeOK
<1>3. Overlaps' = Overlaps /\ Least' = Least
  BY <1>1 DEF Overlaps, Least
<1>4. ASSUME NEW j \in QueueJobs
      PROVE  /\ queueJobs'[j].made = queueJobs[j].made
             /\ queueJobs'[j].stalls = queueJobs[j].stalls
             /\ queueJobs'[j].again = queueJobs[j].again
             /\ queueJobs'[j].state \in {queueJobs[j].state, "removed"}
             /\ queueJobs[j] \in QueueJob
  <2>1. queueJobs[j] \in QueueJob
    BY DEF QueueInv, QueueTypeOK
  <2>2. CASE queueJobs'[j] = queueJobs[j]
    BY <2>1, <2>2
  <2>3. CASE queueJobs'[j] = [queueJobs[j] EXCEPT !.state = "removed"]
    BY <2>1, <2>3 DEF QueueJob
  <2> QED BY <2>2, <2>3
<1>5. ASSUME NEW j \in QueueJobs PROVE Cardinality(ToRetry(j)') <= Cardinality(ToRetry(j))
  BY <1>1, QueueCounts, FS_Subset
<1>6. ASSUME NEW j \in QueueJobs PROVE Cardinality(ToRetry(j)') \in Nat
  <2>1. IsFiniteSet(ToRetry(j)')
    BY <1>1, QueueCounts, FS_Subset
  <2> QED BY <2>1, FS_CardinalityType
<1>7. ASSUME NEW j \in QueueJobs PROVE Most(j)' <= Most(j) /\ Most(j)' \in Nat
  <2>1. PICK m \in Nat, a \in Nat : m = queueJobs[j].made /\ a = queueAttempts
    BY <1>4, QueueCounts DEF QueueJob
  <2>2. Most(j)' = m \/ Most(j)' = Most(j)
    BY <1>4, <2>1 DEF Most
  <2>3. m <= Most(j) /\ Most(j) \in Nat
    BY <2>1, QueueCounts DEF Most
  <2> QED BY <2>1, <2>2, <2>3
<1>8. ASSUME NEW j \in QueueJobs PROVE MostBounded(j)'
  <2>1. PICK p \in Nat, a \in Nat, o \in Nat, b \in Nat, m \in Nat :
          /\ p = Cardinality(ToRetry(j)) /\ a = queueAsked[j]
          /\ o = Overlaps /\ b = Least /\ m = Most(j)
    BY QueueCounts
  <2>2. PICK q \in Nat, n \in Nat : q = Cardinality(ToRetry(j)') /\ n = Most(j)'
    BY <1>6, <1>7
  <2>3. m + p <= b + a + o /\ n <= m /\ q <= p
    BY <1>5, <1>7, <2>1, <2>2, QueueCounts
  <2>4. n + q <= b + a + o
    BY <2>3
  <2>5. queueAsked'[j] = a /\ Overlaps' = o /\ Least' = b /\ Cardinality(ToRetry(j))' = q
    BY <1>3, <2>1, <2>2
  <2> QED BY <2>2, <2>4, <2>5 DEF MostBounded
<1>9. ASSUME NEW j \in QueueJobs
      PROVE  /\ queueJobs'[j].stalls <= queueFaults' /\ FailedOfReason(j)'
             /\ queueJobs'[j].state = "none" => queueJobs'[j].made = 0 /\ ToRetry(j)' = {}
  <2>1. queueJobs'[j].stalls <= queueFaults'
    BY <1>4 DEF QueueInv
  <2>2. FailedOfReason(j)'
    BY <1>1, <1>4 DEF QueueInv, FailedOfReason
  <2>3. queueJobs'[j].state = "none" => queueJobs'[j].made = 0 /\ ToRetry(j)' = {}
    BY <1>1, <1>4 DEF QueueInv
  <2> QED BY <2>1, <2>2, <2>3
<1> QED BY <1>1, <1>2, <1>8, <1>9 DEF QueueInv

\* The calls that do not retry a job.
LEMMA CallsMove ==
  ASSUME QueueInv, NEW c \in AdminCalls,
         \/ \E j \in QueueJobs : FindJob(c, j) \/ RemoveJob(c, j)
         \/ EndRetryAll(c) \/ PauseQueue(c) \/ ResumeQueue(c) \/ DrainQueue(c)
  PROVE  QueueInv'
<1>1. /\ queueCalls \in [AdminCalls -> AdminCall] /\ queueCalls[c] \in AdminCall
      /\ queueJobs \in [QueueJobs -> QueueJob] /\ queuePaused \in BOOLEAN
      /\ queueCalls[c].pc = "new" => queueCalls[c].kind = "none"
  BY DEF QueueInv, QueueTypeOK
<1>2. ASSUME NEW j \in QueueJobs, FindJob(c, j) PROVE QueueInv'
  <2>1. PICK kind \in {"retry", "remove"} : Calls(c, kind, {j})
    BY <1>2 DEF FindJob
  <2>2. PICK call \in AdminCall : call = [kind |-> kind, pc |-> "found", left |-> {j}]
    BY DEF AdminCall
  <2>3. queueCalls[c].kind = "none" /\ queueCalls' = [queueCalls EXCEPT ![c] = call]
        /\ UNCHANGED <<queueAttempts, queuePaused, queueJobs, queueAsked, queueFaults>>
    BY <1>1, <2>1, <2>2 DEF Calls
  <2>4. call.kind # "retryAll" /\ call.pc = "found"
    BY <2>2
  <2> QED BY <1>1, <2>3, <2>4, CallMoves
<1>3. ASSUME NEW call, \E pc \in {"done", "error"} : call = [queueCalls[c] EXCEPT !.pc = pc,
             !.left = {}]
      PROVE  /\ call \in AdminCall /\ call.pc # "new" /\ call.kind = queueCalls[c].kind
             /\ call.left = {}
  BY <1>1, <1>3 DEF AdminCall
<1>4. CASE EndRetryAll(c)
  <2>1. PICK call : call = [queueCalls[c] EXCEPT !.pc = "done", !.left = {}]
    OBVIOUS
  <2>2. /\ queueCalls' = [queueCalls EXCEPT ![c] = call]
        /\ UNCHANGED <<queueAttempts, queuePaused, queueJobs, queueAsked, queueFaults>>
    BY <1>1, <1>4, <2>1 DEF EndRetryAll, CallEnds
  <2>3. /\ call \in AdminCall /\ call.pc # "new" /\ call.kind = queueCalls[c].kind
        /\ call.left = {}
    BY <1>3, <2>1
  <2> QED BY <1>1, <2>2, <2>3, CallMoves
<1>5. ASSUME NEW j \in QueueJobs, RemoveJob(c, j) PROVE QueueInv'
  <2>1. PICK pc \in {"done", "error"} :
          /\ CallEnds(c, pc)
          /\ queueJobs' = queueJobs \/ JobGoes(j, "removed")
          /\ UNCHANGED <<queueAttempts, queuePaused, queueAsked, queueFaults>>
    BY <1>5 DEF RemoveJob
  <2>2. PICK call : call = [queueCalls[c] EXCEPT !.pc = pc, !.left = {}]
    OBVIOUS
  <2>3. queueCalls' = [queueCalls EXCEPT ![c] = call]
    BY <1>1, <2>1, <2>2 DEF CallEnds
  <2>4. /\ call \in AdminCall /\ call.pc # "new" /\ call.kind = queueCalls[c].kind
        /\ call.left = {}
    BY <1>3, <2>2
  <2>5. /\ queueJobs' \in [QueueJobs -> QueueJob]
        /\ \A i \in QueueJobs : \/ queueJobs'[i] = queueJobs[i]
                                \/ queueJobs'[i] = [queueJobs[i] EXCEPT !.state = "removed"]
    <3>1. CASE queueJobs' = queueJobs
      BY <1>1, <3>1
    <3>2. CASE JobGoes(j, "removed")
      <4>1. PICK job : job = [queueJobs[j] EXCEPT !.state = "removed"]
        OBVIOUS
      <4>2. job \in QueueJob
        BY <1>1, <4>1 DEF QueueJob
      <4>3. queueJobs' = [queueJobs EXCEPT ![j] = job]
        BY <1>1, <3>2, <4>1 DEF JobGoes
      <4> QED BY <1>1, <4>1, <4>2, <4>3
    <3> QED BY <2>1, <3>1, <3>2
  <2> QED BY <1>1, <2>1, <2>3, <2>4, <2>5, CallMoves
<1>6. CASE PauseQueue(c) \/ ResumeQueue(c) \/ DrainQueue(c)
  <2>1. PICK call \in AdminCall : call = [kind |-> "queue", pc |-> "done", left |-> {}]
    BY DEF AdminCall
  <2>2. /\ queueCalls' = [queueCalls EXCEPT ![c] = call] /\ queueCalls[c].kind = "none"
        /\ UNCHANGED <<queueAttempts, queueAsked, queueFaults>> /\ queuePaused' \in BOOLEAN
        /\ call.kind # "retryAll" /\ call.pc = "done"
    BY <1>1, <1>6, <2>1 DEF PauseQueue, ResumeQueue, DrainQueue, QueueCall
  <2>3. /\ queueJobs' \in [QueueJobs -> QueueJob]
        /\ \A i \in QueueJobs : \/ queueJobs'[i] = queueJobs[i]
                                \/ queueJobs'[i] = [queueJobs[i] EXCEPT !.state = "removed"]
    <3>1. CASE queueJobs' = queueJobs
      BY <1>1, <3>1
    <3>2. CASE DrainQueue(c)
      <4>1. \A i \in QueueJobs : [queueJobs[i] EXCEPT !.state = "removed"] \in QueueJob
        BY <1>1 DEF QueueJob
      <4> QED BY <1>1, <3>2, <4>1 DEF DrainQueue
    <3> QED BY <1>6, <3>1, <3>2 DEF PauseQueue, ResumeQueue
  <2> QED BY <2>2, <2>3, CallMoves
<1> QED BY <1>2, <1>4, <1>5, <1>6

\* retryAllFailed reads its list.
LEMMA ListMoves ==
  ASSUME QueueInv, NEW c \in AdminCalls, ListFailed(c)
  PROVE  QueueInv'
<1>1. /\ queueCalls \in [AdminCalls -> AdminCall] /\ queueCalls[c].kind = "none"
      /\ queueJobs \in [QueueJobs -> QueueJob]
  BY DEF QueueInv, QueueTypeOK, ListFailed, Calls
<1>2. FewAttempts \subseteq QueueJobs
  BY DEF FewAttempts
<1>3. PICK call \in AdminCall : call = [kind |-> "retryAll", pc |-> "found",
    left |-> FewAttempts]
  BY <1>2 DEF AdminCall
<1>4. /\ queueCalls' = [queueCalls EXCEPT ![c] = call]
      /\ UNCHANGED <<queueAttempts, queuePaused, queueJobs, queueAsked, queueFaults>>
  BY <1>3 DEF ListFailed, Calls
<1>5. queueCalls'[c] = call /\ \A d \in AdminCalls \ {c} : queueCalls'[d] = queueCalls[d]
  BY <1>1, <1>4
<1>6. c \notin RetryAlls /\ RetryAlls' = RetryAlls \cup {c}
  BY <1>1, <1>3, <1>5 DEF RetryAlls
<1>7. /\ IsFiniteSet(RetryAlls) /\ IsFiniteSet(RetryAlls')
      /\ Cardinality(RetryAlls') = Cardinality(RetryAlls) + 1
  BY <1>6, FS_AddElement DEF QueueInv
<1>8. /\ Cardinality(RetryAlls) \in Nat
      /\ Overlaps' = Cardinality(RetryAlls)
  BY <1>7, FS_CardinalityType DEF Overlaps
<1>9. ASSUME NEW j \in QueueJobs
      PROVE  /\ j \in FewAttempts => ToRetry(j)' = ToRetry(j) \cup {c}
             /\ j \notin FewAttempts => ToRetry(j)' = ToRetry(j)
             /\ c \notin ToRetry(j)
  BY <1>1, <1>3, <1>5 DEF ToRetry
<1>10. ASSUME NEW j \in QueueJobs PROVE MostBounded(j)'
  <2>1. PICK p \in Nat, a \in Nat, o \in Nat, b \in Nat, m \in Nat, n \in Nat :
          /\ p = Cardinality(ToRetry(j)) /\ a = queueAsked[j] /\ o = Overlaps /\ b = Least
          /\ m = Most(j) /\ n = Cardinality(RetryAlls)
    BY QueueCounts, <1>8
  <2>2. m + p <= b + a + o /\ p <= n /\ b >= 3 /\ (n = 0 => o = 0) /\ (n # 0 => o = n - 1)
    BY <2>1, QueueCounts DEF Overlaps
  <2>3. Most(j)' = m /\ queueAsked'[j] = a /\ Least' = b /\ Overlaps' = n
    BY <1>4, <1>8, <2>1 DEF Most, Least
  <2>4. CASE j \in FewAttempts
    <3>1. Cardinality(ToRetry(j)') = p + 1
      BY <1>9, <2>1, <2>4, QueueCounts, FS_AddElement
    <3>2. m < 3
      BY <2>1, <2>4 DEF FewAttempts, Most
    <3>3. m + (p + 1) <= b + a + n
      BY <2>2, <3>2
    <3> QED BY <2>3, <3>1, <3>3 DEF MostBounded
  <2>5. CASE j \notin FewAttempts
    <3>1. Cardinality(ToRetry(j)') = p
      BY <1>9, <2>1, <2>5
    <3>2. m + p <= b + a + n
      BY <2>2
    <3> QED BY <2>3, <3>1, <3>2 DEF MostBounded
  <2> QED BY <2>4, <2>5
<1>11. ASSUME NEW j \in QueueJobs PROVE FailedOfReason(j)'
  <2>1. FailedOfReason(j) /\ queueAttempts \in Nat /\ queueJobs[j].made \in Nat
    BY <1>1, QueueAssumption DEF QueueInv, QueueTypeOK, QueueJob
  <2>2. j \in FewAttempts => queueAttempts < 3 \/ queueJobs[j].stalls > 1
    BY <2>1 DEF FailedOfReason, FewAttempts
  <2> QED BY <1>4, <1>9, <2>1, <2>2 DEF FailedOfReason
<1>12. QueueTypeOK'
  BY <1>1, <1>4 DEF QueueInv, QueueTypeOK
<1>13. \A d \in AdminCalls : queueCalls'[d].pc = "new" => queueCalls'[d].kind = "none"
  BY <1>3, <1>5 DEF QueueInv
<1>14. ASSUME NEW j \in QueueJobs
       PROVE  /\ queueJobs'[j].stalls <= queueFaults'
              /\ queueJobs'[j].state = "none" => queueJobs'[j].made = 0 /\ ToRetry(j)' = {}
  BY <1>4, <1>9 DEF QueueInv, FewAttempts
<1> QED BY <1>7, <1>10, <1>11, <1>12, <1>13, <1>14 DEF QueueInv

\* A failed job waits again: one more of its tries, or as many as a call was to retry it.
LEMMA RetryMoves ==
  ASSUME QueueInv, NEW c \in AdminCalls, NEW j \in QueueJobs, RetryJob(c, j) \/ RetryNext(c, j)
  PROVE  QueueInv'
<1>1. /\ queueCalls \in [AdminCalls -> AdminCall] /\ queueCalls[c] \in AdminCall
      /\ queueJobs \in [QueueJobs -> QueueJob] /\ queuePaused \in BOOLEAN
      /\ queueAsked \in [QueueJobs -> Nat]
  BY DEF QueueInv, QueueTypeOK
<1>2. PICK call : call = IF RetryJob(c, j)
                         THEN [queueCalls[c] EXCEPT !.pc = "done", !.left = {}]
                         ELSE [queueCalls[c] EXCEPT !.left = @ \ {j}]
  OBVIOUS
<1>3. CASE queueJobs[j].state # "failed"
  <2>1. CallEnds(c, "error")
        /\ UNCHANGED <<queueAttempts, queuePaused, queueJobs, queueAsked, queueFaults>>
    BY <1>3 DEF RetryJob, RetryNext
  <2>2. PICK ended : ended = [queueCalls[c] EXCEPT !.pc = "error", !.left = {}]
    OBVIOUS
  <2>3. /\ ended \in AdminCall /\ ended.pc # "new" /\ ended.kind = queueCalls[c].kind
        /\ ended.left = {} /\ queueCalls' = [queueCalls EXCEPT ![c] = ended]
    BY <1>1, <2>1, <2>2 DEF AdminCall, CallEnds
  <2> QED BY <1>1, <2>1, <2>3, CallMoves
<1>4. CASE queueJobs[j].state = "failed"
  <2>1. /\ call \in AdminCall /\ call.pc # "new" /\ call.kind = queueCalls[c].kind
        /\ call.left \subseteq queueCalls[c].left /\ j \notin call.left
        /\ queueCalls' = [queueCalls EXCEPT ![c] = call]
    <3>1. CASE RetryJob(c, j)
      BY <1>1, <1>2, <1>4, <3>1 DEF RetryJob, CallEnds, AdminCall
    <3>2. CASE ~RetryJob(c, j)
      BY <1>1, <1>2, <1>4, <3>2 DEF RetryNext, AdminCall
    <3> QED BY <3>1, <3>2
  <2>2. /\ queueCalls' \in [AdminCalls -> AdminCall]
        /\ \A d \in AdminCalls : queueCalls'[d].pc = "new" => queueCalls'[d].kind = "none"
        /\ RetryAlls' = RetryAlls
        /\ \A i \in QueueJobs : ToRetry(i)' \subseteq ToRetry(i)
    BY <2>1, OneCall
  <2>3. Overlaps' = Overlaps /\ Least' = Least /\ queueAttempts' = queueAttempts
        /\ queueFaults' = queueFaults /\ queuePaused' = queuePaused
    BY <2>2 DEF Overlaps, Least, RetryJob, RetryNext
  <2>4. PICK job : job = [queueJobs[j] EXCEPT !.state = "waiting",
                                              !.again = IF RetryJob(c, j) THEN @ ELSE @ + 1]
    OBVIOUS
  <2>5. /\ job \in QueueJob /\ job.state = "waiting" /\ job.made = queueJobs[j].made
        /\ job.stalls = queueJobs[j].stalls
        /\ ~RetryJob(c, j) \/ job.again = queueJobs[j].again
    <3>1. queueJobs[j] \in QueueJob /\ queueJobs[j].again \in Nat
      BY <1>1 DEF QueueJob
    <3>2. PICK n \in Nat : n = IF RetryJob(c,
        j) THEN queueJobs[j].again ELSE queueJobs[j].again + 1
      BY <3>1
    <3>3. job = [queueJobs[j] EXCEPT !.state = "waiting", !.again = n]
      BY <2>4, <3>2
    <3> QED BY <3>1, <3>2, <3>3 DEF QueueJob
  <2>6. queueJobs' = [queueJobs EXCEPT ![j] = job]
    <3>1. CASE RetryJob(c, j)
      BY <1>1, <1>4, <2>4, <3>1 DEF RetryJob, JobGoes
    <3>2. CASE ~RetryJob(c, j)
      BY <1>1, <1>4, <2>4, <3>2 DEF RetryNext
    <3> QED BY <3>1, <3>2
  <2>7. queueJobs'[j] = job /\ \A i \in QueueJobs \ {j} : queueJobs'[i] = queueJobs[i]
    BY <1>1, <2>6
  <2>8. queueAsked' = IF RetryJob(c, j) THEN [queueAsked EXCEPT ![j] = @ + 1] ELSE queueAsked
    BY <1>4 DEF RetryJob, RetryNext
  <2>9. queueAsked' \in [QueueJobs -> Nat]
    BY <1>1, <2>8
  <2>10. QueueTypeOK' /\ IsFiniteSet(RetryAlls')
    BY <1>1, <2>2, <2>3, <2>5, <2>6, <2>9 DEF QueueInv, QueueTypeOK
  <2>11. ASSUME NEW i \in QueueJobs
         PROVE  /\ IsFiniteSet(ToRetry(i)') /\ Cardinality(ToRetry(i)') \in Nat
                /\ Cardinality(ToRetry(i)') <= Cardinality(ToRetry(i))
    <3>1. IsFiniteSet(ToRetry(i)') /\ Cardinality(ToRetry(i)') <= Cardinality(ToRetry(i))
      BY <2>2, QueueCounts, FS_Subset
    <3> QED BY <3>1, FS_CardinalityType
  <2>12. ~RetryJob(c, j) =>
            /\ c \in ToRetry(j) /\ c \notin ToRetry(j)'
            /\ Cardinality(ToRetry(j)') <= Cardinality(ToRetry(j)) - 1
    <3> SUFFICES ASSUME ~RetryJob(c, j)
                 PROVE  /\ c \in ToRetry(j) /\ c \notin ToRetry(j)'
                        /\ Cardinality(ToRetry(j)') <= Cardinality(ToRetry(j)) - 1
      OBVIOUS
    <3>1. c \in ToRetry(j)
      BY DEF RetryNext, ToRetry
    <3>2. c \notin ToRetry(j)'
      BY <1>1, <2>1 DEF ToRetry
    <3>3. ToRetry(j)' \subseteq ToRetry(j) \ {c} /\ IsFiniteSet(ToRetry(j))
      BY <2>2, <3>2, QueueCounts
    <3>4. /\ IsFiniteSet(ToRetry(j) \ {c})
          /\ Cardinality(ToRetry(j) \ {c}) = Cardinality(ToRetry(j)) - 1
      BY <3>1, <3>3, FS_RemoveElement
    <3>5. Cardinality(ToRetry(j)') <= Cardinality(ToRetry(j) \ {c})
      BY <3>3, <3>4, FS_Subset
    <3> QED BY <3>1, <3>2, <3>4, <3>5
  <2>13. ASSUME NEW i \in QueueJobs PROVE MostBounded(i)'
    <3>1. PICK p \in Nat, a \in Nat, o \in Nat, b \in Nat, m \in Nat, q \in Nat, t \in Nat :
            /\ p = Cardinality(ToRetry(i)) /\ a = queueAsked[i] /\ o = Overlaps /\ b = Least
            /\ m = Most(i) /\ q = Cardinality(ToRetry(i)') /\ t = queueAttempts
      BY <2>11, QueueCounts
    <3>2. m + p <= b + a + o /\ p <= o + 1 /\ q <= p /\ t <= b
      BY <2>11, <3>1, QueueCounts
    <3>3. CASE i # j
      <4>1. Most(i)' = m /\ queueAsked'[i] = a /\ m + q <= b + a + o
        BY <1>1, <2>3, <2>7, <2>8, <3>1, <3>2, <3>3 DEF Most
      <4> QED BY <2>3, <3>1, <4>1 DEF MostBounded
    <3>4. CASE i = j
      <4>1. m = queueJobs[j].made
        BY <1>4, <3>1, <3>4 DEF Most
      <4>2. Most(j)' = IF m < t THEN t ELSE m + 1
        BY <2>3, <2>5, <2>7, <3>1, <4>1 DEF Most
      <4>3. PICK n \in Nat : n = Most(j)' /\ (n <= b \/ n = m + 1)
        BY <3>2, <4>2
      <4>4. CASE RetryJob(c, j)
        <5>1. queueAsked'[j] = a + 1
          BY <1>1, <2>8, <3>1, <3>4, <4>4
        <5>2. n + q <= b + (a + 1) + o
          BY <3>2, <4>3
        <5> QED BY <2>3, <3>1, <3>4, <4>3, <5>1, <5>2 DEF MostBounded
      <4>5. CASE ~RetryJob(c, j)
        <5>1. queueAsked'[j] = a /\ q <= p - 1
          BY <2>8, <2>12, <3>1, <3>4, <4>5
        <5>2. n + q <= b + a + o
          BY <3>2, <4>3, <5>1
        <5> QED BY <2>3, <3>1, <3>4, <4>3, <5>1, <5>2 DEF MostBounded
      <4> QED BY <4>4, <4>5
    <3> QED BY <3>3, <3>4
  <2>14. ASSUME NEW i \in QueueJobs PROVE FailedOfReason(i)'
    <3>1. FailedOfReason(i)
      BY DEF QueueInv
    <3>2. CASE i # j
      BY <2>2, <2>3, <2>7, <3>1, <3>2 DEF FailedOfReason
    <3>3. CASE i = j
      <4>1. job.again > 0 \/ ToRetry(j)' # {} => queueJobs[j].again > 0 \/ ToRetry(j) # {}
        BY <2>2, <2>5, <2>12
      <4> QED BY <2>3, <2>5, <2>7, <3>1, <3>3, <4>1 DEF FailedOfReason
    <3> QED BY <3>2, <3>3
  <2>15. ASSUME NEW i \in QueueJobs
         PROVE  /\ queueJobs'[i].stalls <= queueFaults'
                /\ queueJobs'[i].state = "none" => queueJobs'[i].made = 0 /\ ToRetry(i)' = {}
    <3>1. CASE i # j
      BY <2>2, <2>3, <2>7, <3>1 DEF QueueInv
    <3>2. CASE i = j
      BY <2>3, <2>5, <2>7, <3>2 DEF QueueInv
    <3> QED BY <3>1, <3>2
  <2> QED BY <2>2, <2>10, <2>13, <2>14, <2>15 DEF QueueInv
<1> QED BY <1>3, <1>4

LEMMA QueueInductive == QueueInv /\ [QueueNext]_queueVars => QueueInv'
<1> SUFFICES ASSUME QueueInv, [QueueNext]_queueVars PROVE QueueInv'
  OBVIOUS
<1>1. CASE QueueNext
  BY <1>1, JobsMove, CallsMove, ListMoves, RetryMoves DEF QueueNext
<1>2. CASE UNCHANGED queueVars
  BY <1>2 DEF queueVars, QueueInv, QueueTypeOK, RetryAlls, ToRetry, MostBounded, Most, Least,
              Overlaps, FailedOfReason
<1> QED BY <1>1, <1>2

LEMMA QueueInitial == QueueInit => QueueInv
<1> SUFFICES ASSUME QueueInit PROVE QueueInv
  OBVIOUS
<1>1. RetryAlls = {} /\ \A j \in QueueJobs : ToRetry(j) = {}
  BY DEF QueueInit, RetryAlls, ToRetry
<1>2. IsFiniteSet({}) /\ Cardinality({}) = 0
  BY FS_EmptySet
<1>3. queueAttempts \in Nat \ {0} /\ MaxQueueFaults \in Nat
  BY QueueAssumption DEF QueueInit
<1>4. NoQueueJob \in QueueJob
  BY <1>3 DEF NoQueueJob, QueueJob
<1>5. QueueTypeOK
  <2>1. [kind |-> "none", pc |-> "new", left |-> {}] \in AdminCall
    BY DEF AdminCall
  <2>2. queueFaults \in 0..MaxQueueFaults
    BY <1>3 DEF QueueInit
  <2>3. queueJobs \in [QueueJobs -> QueueJob]
    BY <1>4 DEF QueueInit
  <2>4. queueCalls \in [AdminCalls -> AdminCall] /\ queueAsked \in [QueueJobs -> Nat]
    BY <2>1 DEF QueueInit
  <2> QED BY <2>2, <2>3, <2>4 DEF QueueInit, QueueTypeOK
<1>6. Least \in Nat /\ Overlaps = 0
  BY <1>1, <1>2, <1>3 DEF Least, Overlaps
<1>7. ASSUME NEW j \in QueueJobs PROVE MostBounded(j)
  <2>1. Most(j) = 0 /\ queueAsked[j] = 0 /\ Cardinality(ToRetry(j)) = 0
    BY <1>1, <1>2 DEF QueueInit, Most, NoQueueJob
  <2> QED BY <1>6, <2>1 DEF MostBounded
<1> QED BY <1>1, <1>2, <1>5, <1>7 DEF QueueInit, QueueInv, FailedOfReason, NoQueueJob

\* What the invariant says of the retries.
LEMMA RetriesKnown == QueueInv => RetriesBounded
<1> SUFFICES ASSUME QueueInv, NEW j \in QueueJobs
             PROVE  /\ queueJobs[j].made <= Least + queueAsked[j] + Overlaps
                    /\ queueJobs[j].again > 0 => queueAttempts < 3 \/ queueJobs[j].stalls > 1
  BY DEF RetriesBounded, TriesBounded, RetryAllReaches, Least, Overlaps
<1>1. PICK p \in Nat, a \in Nat, o \in Nat, b \in Nat, m \in Nat, n \in Nat :
        /\ p = Cardinality(ToRetry(j)) /\ a = queueAsked[j] /\ o = Overlaps /\ b = Least
        /\ m = Most(j) /\ n = queueJobs[j].made
  BY QueueCounts DEF QueueInv, QueueTypeOK, QueueJob
<1>2. n <= m /\ m + p <= b + a + o
  BY <1>1, QueueCounts DEF Most
<1>3. n <= b + a + o
  BY <1>2
<1> QED BY <1>1, <1>3 DEF QueueInv, FailedOfReason


-----------------------------------------------------------------------------
(* The four together.                                                      *)

ScansInv == LoadInv /\ ScanInv /\ AxeInv /\ QueueInv

LEMMA ScansInductive == Spec => []ScansInv
<1>1. Init => ScansInv
  BY LoadInitial, ScanInitial, AxeInitial, QueueInitial DEF Init, ScansInv
<1>2. ScansInv /\ [Next]_vars => ScansInv'
  <2> SUFFICES ASSUME ScansInv, [Next]_vars PROVE ScansInv'
    OBVIOUS
  <2>1. /\ [LoadNext]_loadVars /\ [ScanNext]_scanVars
        /\ [AxeNext]_axeVars /\ [QueueNext]_queueVars
    BY DEF Next, vars
  <2> QED BY <2>1, LoadInductive, ScanInductive, AxeInductive, QueueInductive DEF ScansInv
<1> QED BY <1>1, <1>2, PTL DEF Spec

\* Type correctness of the four modules.  A score is a percentage because calculateScore
\* rounds a share, and the tries a job has made never go negative.
THEOREM ScansKeepTheirTypes == Spec => []ScansTypeOK
<1>1. ScansInv => ScansTypeOK
  BY LoadKnown, ScanKnown, AxeKnown DEF ScansInv, ScansTypeOK, QueueInv
<1> QED BY <1>1, ScansInductive, PTL

\* Once no request, process, handler or job is at work on it, a load test, a scan or an
\* accessibility test is not left queued or running, unless a call to the database failed
\* or the backend restarted too often.
THEOREM ScansAlwaysSettle == Spec => []ScansSettle
<1>1. ScansInv => ScansSettle
  BY LoadKnown, ScanKnown, AxeKnown DEF ScansInv, ScansSettle
<1> QED BY <1>1, ScansInductive, PTL

\* A live k6 process is the one runningProcesses holds, unless another run of its test had
\* one; the collection runs beside a process or after a late timer; a COMPLETED test had a
\* process end well or by its cancel; and an alert is counted as often as it triggered.
THEOREM LoadAlwaysSound == Spec => []LoadSound
<1>1. ScansInv => LoadSound
  BY LoadKnown DEF ScansInv, LoadSound
<1> QED BY <1>1, ScansInductive, PTL

\* The vulnerabilities of a scan that was tried once are as many as its row says, and the
\* row of an accessibility test holds the results of one scan with their score.
THEOREM ResultsAlwaysOfOneTry == Spec => []ResultsOfOneTry
<1>1. ScansInv => ResultsOfOneTry
  BY ScanKnown, AxeKnown DEF ScansInv, ResultsOfOneTry
<1> QED BY <1>1, ScansInductive, PTL

\* A job is tried no more often than its attempts, the retries asked for and the overlaps
\* of retryAllFailed allow, which reaches no job of a queue of three attempts but one
\* whose worker was lost.
THEOREM RetriesAlwaysBounded == Spec => []RetriesBounded
<1>1. ScansInv => RetriesBounded
  BY RetriesKnown DEF ScansInv
<1> QED BY <1>1, ScansInductive, PTL
=============================================================================
