------------------------ MODULE ExecutionEngineProofs ------------------------
(***************************************************************************)
(* The ExecutionEngine, for any number of executions, workers and tests:   *)
(* a worker runs one loop at a time and one more for every cancel, workers *)
(* come back, and an execution that resolves has a result for each test,   *)
(* since the chunks cover the tests (LoopsCover) and a loop that has ended *)
(* has been through its chunk (LoopKnown). A failure that is not retried   *)
(* stays, since the chunks have no test in common (ChunksApart).           *)
(***************************************************************************)
EXTENDS ExecutionEngine, FiniteSetTheorems, TLAPS

-----------------------------------------------------------------------------
(* Rank: the workers of a set, counted from 1.                             *)

LEMMA SomeRank ==
  ASSUME NEW S \in SUBSET Nat, IsFiniteSet(S), NEW w \in S
  PROVE  Rank(w, S) \in 1..Cardinality(S)
<1> DEFINE Upto == {v \in S : v <= w}
<1>1. Upto \in SUBSET S /\ {w} \in SUBSET Upto
  OBVIOUS
<1>2. IsFiniteSet(Upto) /\ Cardinality(Upto) <= Cardinality(S) /\ Cardinality(Upto) \in Nat
  BY <1>1, FS_Subset, FS_CardinalityType
<1>3. Cardinality({w}) = 1 /\ Cardinality({w}) <= Cardinality(Upto)
  BY <1>1, <1>2, FS_Subset, FS_Singleton
<1>4. Cardinality(S) \in Nat
  BY FS_CardinalityType
<1> HIDE DEF Upto
<1>5. Cardinality(Upto) \in 1..Cardinality(S)
  BY <1>2, <1>3, <1>4
<1> QED BY <1>5 DEF Rank, Upto

LEMMA RankGrows ==
  ASSUME NEW S \in SUBSET Nat, IsFiniteSet(S), NEW v \in S, NEW w \in S, v < w
  PROVE  Rank(v, S) < Rank(w, S)
<1> DEFINE V == {u \in S : u <= v}
           W == {u \in S : u <= w}
<1>0. v \in Nat /\ w \in Nat /\ \A u \in S : u \in Nat
  OBVIOUS
<1>a. \A u \in S : u <= v => u <= w
  BY <1>0
<1>b. w <= w /\ ~(w <= v)
  BY <1>0
<1>1. V \in SUBSET W /\ w \in W /\ w \notin V /\ W \in SUBSET S
  BY ONLY <1>a, <1>b, w \in S
<1>2. IsFiniteSet(W) /\ IsFiniteSet(V) /\ Cardinality(W) \in Nat /\ Cardinality(V) \in Nat
  BY <1>1, FS_Subset, FS_CardinalityType
<1>3. Cardinality(V) <= Cardinality(W) /\ Cardinality(V) # Cardinality(W)
  <2> HIDE DEF V, W
  <2> QED BY <1>1, <1>2, FS_Subset
<1> HIDE DEF V, W
<1>4. Cardinality(V) < Cardinality(W)
  BY <1>2, <1>3
<1> QED BY <1>4 DEF Rank, V, W

\* Ranks differ, so that each number up to the size of the set is one.
LEMMA EveryRank ==
  ASSUME NEW S \in SUBSET Nat, IsFiniteSet(S), NEW c \in 1..Cardinality(S)
  PROVE  \E w \in S : Rank(w, S) = c
<1> DEFINE f == [w \in S |-> Rank(w, S)]
           T == 1..Cardinality(S)
<1>1. Cardinality(S) \in Nat
  BY FS_CardinalityType
<1>2. IsFiniteSet(T) /\ Cardinality(T) = Cardinality(S)
  BY <1>1, FS_Interval
<1>3. f \in Injection(S, T)
  <2>1. f \in [S -> T]
    BY SomeRank
  <2>2. ASSUME NEW v \in S, NEW w \in S, Rank(v, S) = Rank(w, S) PROVE v = w
    <3>1. v \in Nat /\ w \in Nat /\ Rank(v, S) \in Nat /\ Rank(w, S) \in Nat
      BY <1>1, SomeRank
    <3>2. ~(v < w) /\ ~(w < v)
      BY <2>2, <3>1, RankGrows
    <3> QED BY <3>1, <3>2
  <2> QED BY <2>1, <2>2 DEF Injection, IsInjective
<1> HIDE DEF f, T
<1>4. f \in Surjection(S, T)
  BY <1>2, <1>3, FS_Injection
<1> QED BY <1>4 DEF Surjection, f, T

LEMMA WorkersFinite == Workers \in SUBSET Nat /\ IsFiniteSet(Workers)
<1>1. 1 \in Int /\ PoolSize \in Int
  BY EngineAssumption
<1> QED BY <1>1, FS_Interval, EngineAssumption DEF Workers

\* A request for one worker gets the first that is idle.
LEMMA OnlyOne ==
  ASSUME NEW w \in Assigned(1)
  PROVE  Rank(w, Assigned(1)) = 1
<1> DEFINE S == Assigned(1)
           V == {v \in S : v <= w}
           F == {v \in Free : v <= w}
<1>1. S \in SUBSET Workers /\ S \in SUBSET Nat /\ V \in SUBSET F /\ F \in SUBSET Workers
  BY WorkersFinite DEF Assigned, Free
<1>2. IsFiniteSet(S) /\ IsFiniteSet(F)
  BY <1>1, WorkersFinite, FS_Subset
<1>3. Cardinality(F) <= 1 /\ w \in S
  BY DEF Assigned, Rank
<1>4. Cardinality(V) <= Cardinality(F) /\ Cardinality(V) \in Nat /\ Cardinality(F) \in Nat
  BY <1>1, <1>2, FS_Subset, FS_CardinalityType
<1>5. Rank(w, S) \in 1..Cardinality(S) /\ Cardinality(S) \in Nat
  BY <1>1, <1>2, <1>3, SomeRank, FS_CardinalityType
<1> HIDE DEF S
<1>6. Rank(w, S) = Cardinality(V)
  BY DEF Rank
<1>7. Rank(w, S) = 1
  BY <1>3, <1>4, <1>5, <1>6
<1> QED BY <1>7 DEF S

-----------------------------------------------------------------------------
(* chunkTests.                                                             *)

LEMMA Division ==
  ASSUME NEW a \in Nat, NEW b \in Nat \ {0}
  PROVE  a \div b \in Nat /\ b * (a \div b) <= a /\ a < b * (a \div b) + b
  OBVIOUS

\* Where the i-th chunk begins and ends.
First(size, i) == (i - 1) * size + 1
Last(size, i, n) == IF i * size < n THEN i * size ELSE n

LEMMA ChunkIs ==
  ASSUME NEW tests \in Seq(Tests), NEW k \in Nat \ {0}, NEW i \in 1..k
  PROVE  /\ ChunkSize(Len(tests), k) \in Nat
         /\ First(ChunkSize(Len(tests), k), i) \in Nat \ {0}
         /\ Last(ChunkSize(Len(tests), k), i, Len(tests)) \in 0..Len(tests)
         /\ Chunk(tests, i, k) = SubSeq(tests, First(ChunkSize(Len(tests), k), i),
                                        Last(ChunkSize(Len(tests), k), i, Len(tests)))
<1>0. PICK size : size = ChunkSize(Len(tests), k)
  OBVIOUS
<1>1. Len(tests) \in Nat
  OBVIOUS
<1>2. size \in Nat
  <2>1. Len(tests) + k - 1 \in Nat
    BY <1>1
  <2> QED BY <1>0, <2>1, Division DEF ChunkSize
<1>3. (i - 1) * size \in Nat /\ i * size \in Nat
  BY <1>2
<1>4. First(size, i) \in Nat \ {0} /\ Last(size, i, Len(tests)) \in 0..Len(tests)
  BY <1>1, <1>3 DEF First, Last
<1>5. Chunk(tests, i, k) = SubSeq(tests, First(size, i), Last(size, i, Len(tests)))
  BY <1>0 DEF Chunk, First, Last
<1> QED BY <1>0, <1>2, <1>4, <1>5

LEMMA PartIs ==
  ASSUME NEW tests \in Seq(Tests), NEW a \in Nat \ {0}, NEW b \in 0..Len(tests)
  PROVE  /\ SubSeq(tests, a, b) \in [1..(1 + b - a) -> Tests]
         /\ \A j \in 1..(1 + b - a) : SubSeq(tests, a, b)[j] = tests[j + a - 1]
<1>1. Len(tests) \in Nat /\ \A j \in 1..Len(tests) : tests[j] \in Tests
  OBVIOUS
<1>2. SubSeq(tests, a, b) = [j \in 1..(1 + b - a) |-> tests[j + a - 1]]
  OBVIOUS
<1>3. \A j \in 1..(1 + b - a) : j + a - 1 \in 1..Len(tests)
  BY <1>1
<1> QED BY <1>1, <1>2, <1>3

\* A chunk is a list of tests.
LEMMA ChunkTyped ==
  ASSUME NEW tests \in Seq(Tests), Len(tests) <= MaxTests, NEW k \in Nat \ {0}, NEW i \in 1..k
  PROVE  Chunk(tests, i, k) \in TestIds
<1>0. Len(tests) \in Nat /\ MaxTests \in Nat
  BY EngineAssumption
<1>1. PICK size, a, b : /\ size = ChunkSize(Len(tests), k)
                        /\ a = First(size, i) /\ b = Last(size, i, Len(tests))
  OBVIOUS
<1>2. /\ a \in Nat \ {0} /\ b \in 0..Len(tests)
      /\ Chunk(tests, i, k) \in [1..(1 + b - a) -> Tests]
  <2>1. /\ a \in Nat \ {0} /\ b \in 0..Len(tests)
        /\ Chunk(tests, i, k) = SubSeq(tests, a, b)
    BY <1>1, ChunkIs
  <2> QED BY <2>1, PartIs
<1>3. CASE a <= b
  <2>1. 1 + b - a \in 0..MaxTests
    BY <1>0, <1>2, <1>3
  <2> QED BY <1>2, <2>1 DEF TestIds
<1>4. CASE a > b
  <2>1. 1..(1 + b - a) = 1..0 /\ 0 \in 0..MaxTests
    BY <1>0, <1>2, <1>4
  <2> QED BY <1>2, <2>1 DEF TestIds
<1> QED BY <1>0, <1>2, <1>3, <1>4

\* Every test is in one of the chunks: a chunk is long enough for as many as there are.
LEMMA ChunksCover ==
  ASSUME NEW tests \in Seq(Tests), NEW k \in Nat \ {0}, NEW t \in 1..Len(tests)
  PROVE  \E i \in 1..k : \E m \in DOMAIN Chunk(tests, i, k) : Chunk(tests, i, k)[m] = tests[t]
<1>1. PICK n, size : n = Len(tests) /\ n \in Nat /\ size = ChunkSize(n, k)
  OBVIOUS
<1>2. n + k - 1 \in Nat /\ size = (n + k - 1) \div k
  BY <1>1 DEF ChunkSize
<1>3. size \in Nat /\ n + k - 1 < k * size + k
  BY <1>2, Division
<1>4. k * size \in Nat /\ n <= k * size
  BY <1>1, <1>3
<1>5. size # 0 /\ t - 1 \in Nat
  BY <1>1, <1>4
<1>6. PICK q \in Nat : size * q <= t - 1 /\ t - 1 < size * q + size
  BY <1>3, <1>5, Division
<1>7. size * q < k * size
  BY <1>1, <1>3, <1>4, <1>6
<1>8. q < k
  BY <1>3, <1>6, <1>7
<1>9. PICK i \in 1..k : i = q + 1
  BY <1>6, <1>8
<1>10. PICK a, b : /\ size = ChunkSize(Len(tests), k)
                   /\ a = First(size, i) /\ b = Last(size, i, Len(tests))
  BY <1>1
<1>11. /\ Chunk(tests, i, k) \in [1..(1 + b - a) -> Tests]
       /\ \A j \in 1..(1 + b - a) : Chunk(tests, i, k)[j] = tests[j + a - 1]
  <2>1. /\ a \in Nat \ {0} /\ b \in 0..Len(tests)
        /\ Chunk(tests, i, k) = SubSeq(tests, a, b)
    BY <1>10, ChunkIs
  <2> QED BY <2>1, PartIs
<1>12. PICK p : p = size * q /\ p \in Nat
  BY <1>3
<1>13. (i - 1) * size = p /\ i * size = p + size
  BY <1>3, <1>6, <1>9, <1>12
<1>14. PICK m \in 1..(1 + b - a) : m + a - 1 = t
  <2>1. a = p + 1 /\ b = (IF p + size < n THEN p + size ELSE n)
    BY <1>1, <1>10, <1>13 DEF First, Last
  <2>2. /\ p \in Nat /\ size \in Nat /\ n \in Nat
        /\ p <= t - 1 /\ t - 1 < p + size /\ t \in 1..n
    BY <1>1, <1>3, <1>6, <1>12
  <2>3. t - p \in 1..(1 + b - a) /\ (t - p) + a - 1 = t
    BY ONLY <2>1, <2>2
  <2> QED BY <2>3
<1>15. m \in DOMAIN Chunk(tests, i, k) /\ Chunk(tests, i, k)[m] = tests[t]
  BY <1>11, <1>14
<1> QED BY <1>15

\* The lists of a request are sequences of tests.
LEMMA ListsAreSequences ==
  ASSUME NEW tests \in TestIds
  PROVE  tests \in Seq(Tests) /\ Len(tests) \in 0..MaxTests /\ DOMAIN tests = 1..Len(tests)
<1>1. PICK n \in 0..MaxTests : tests \in [1..n -> Tests]
  BY DEF TestIds
<1>2. n \in Nat
  BY EngineAssumption
<1> QED BY <1>1, <1>2

-----------------------------------------------------------------------------
(* The loops a request begins with.                                        *)

\* A loop that exists has a list, and every test of the request is in one of the lists.
Covers(ls, tests) ==
  (\E w \in Workers : ls[w].pc # "none") =>
    \A t \in DOMAIN tests : \E w \in Workers :
      ls[w].pc # "none" /\ \E k \in DOMAIN ls[w].tests : ls[w].tests[k] = tests[t]

\* A loop has a result for each test it has been through, and has ended at the last.
LoopKnown(l, rs) ==
  /\ l.at <= Len(l.tests)
  /\ l.pc = "retry" => l.at < Len(l.tests)
  /\ l.pc = "ended" => l.at = Len(l.tests)
  /\ \A k \in 1..l.at : rs[l.tests[k]] # "none"

LEMMA ListsAreTyped ==
  ASSUME NEW tests \in TestIds
  PROVE  /\ ReadyLoop(tests) \in Loop /\ ReadyLoop(tests).pc = "ready"
         /\ ReadyLoop(tests).tests = tests /\ ReadyLoop(tests).at = 0
  BY EngineAssumption DEF ReadyLoop, Loop

LEMMA EmptyLoop == NoLoop \in Loop /\ NoLoop.pc = "none" /\ NoLoop.at = 0 /\ <<>> \in TestIds
<1>1. <<>> \in [1..0 -> Tests] /\ 0 \in 0..MaxTests
  BY EngineAssumption
<1> QED BY <1>1 DEF NoLoop, Loop, TestIds

\* The loops of a request on the workers S: ready, at their first test, and on S alone.
LEMMA LoopsBegin ==
  ASSUME NEW r \in Request, NEW S \in SUBSET Workers
  PROVE  /\ LoopsOf(r, S) \in [Workers -> Loop]
         /\ \A w \in Workers : /\ LoopsOf(r, S)[w].pc \in {"none", "ready"}
                               /\ LoopsOf(r, S)[w].at = 0
                               /\ w \notin S => LoopsOf(r, S)[w].pc = "none"
         /\ \A w \in S : \/ LoopsOf(r, S)[w].pc = "ready"
                         \/ ~(r.parallel /\ r.width > 1) /\ Rank(w, S) # 1
<1>1. S \in SUBSET Nat /\ IsFiniteSet(S)
  BY WorkersFinite, FS_Subset
<1>3. r.tests \in TestIds
  BY DEF Request
<1>2. r.tests \in Seq(Tests) /\ Len(r.tests) <= MaxTests
  BY <1>3, ListsAreSequences, EngineAssumption
<1>4. ASSUME NEW w \in S PROVE Chunk(r.tests, Rank(w, S), Cardinality(S)) \in TestIds
  <2>1. Rank(w, S) \in 1..Cardinality(S) /\ Cardinality(S) \in Nat
    BY <1>1, SomeRank, FS_CardinalityType
  <2>2. Cardinality(S) \in Nat \ {0}
    BY <2>1
  <2> QED BY <1>2, <2>1, <2>2, ChunkTyped
<1>5. ASSUME NEW w \in Workers
      PROVE  /\ LoopsOf(r, S)[w] \in Loop /\ LoopsOf(r, S)[w].pc \in {"none", "ready"}
             /\ LoopsOf(r, S)[w].at = 0 /\ (w \notin S => LoopsOf(r, S)[w].pc = "none")
             /\ w \in S => \/ LoopsOf(r, S)[w].pc = "ready"
                           \/ ~(r.parallel /\ r.width > 1) /\ Rank(w, S) # 1
  <2>1. \/ LoopsOf(r, S)[w] = NoLoop /\ w \notin S
        \/ /\ LoopsOf(r, S)[w] = NoLoop
           /\ ~(r.parallel /\ r.width > 1) /\ Rank(w, S) # 1
        \/ w \in S /\ LoopsOf(r, S)[w] = ReadyLoop(Chunk(r.tests, Rank(w, S), Cardinality(S)))
        \/ w \in S /\ LoopsOf(r, S)[w] = ReadyLoop(r.tests)
    BY DEF LoopsOf
  <2> QED BY <1>3, <1>4, <2>1, ListsAreTyped, EmptyLoop
<1>6. LoopsOf(r, S) \in [Workers -> Loop]
  <2>1. LoopsOf(r, S) = [w \in Workers |-> LoopsOf(r, S)[w]]
    BY DEF LoopsOf
  <2> QED BY <1>5, <2>1
<1> QED BY <1>5, <1>6

\* runParallel's chunks, and runSequential's one list, hold every test.
LEMMA LoopsCover ==
  ASSUME NEW r \in Request, NEW S \in SUBSET Workers
  PROVE  Covers(LoopsOf(r, S), r.tests)
<1> SUFFICES ASSUME NEW v \in Workers, LoopsOf(r, S)[v].pc # "none", NEW t \in DOMAIN r.tests
             PROVE  \E w \in Workers :
                      /\ LoopsOf(r, S)[w].pc # "none"
                      /\ \E k \in DOMAIN LoopsOf(r, S)[w].tests :
                           LoopsOf(r, S)[w].tests[k] = r.tests[t]
  BY DEF Covers
<1>1. S \in SUBSET Nat /\ IsFiniteSet(S)
  BY WorkersFinite, FS_Subset
<1>2. r.tests \in Seq(Tests) /\ t \in 1..Len(r.tests)
  BY ListsAreSequences DEF Request
<1>3. v \in S
  BY LoopsBegin
<1>4. CASE r.parallel /\ r.width > 1
  <2>1. Cardinality(S) \in Nat \ {0}
    BY <1>1, <1>3, SomeRank, FS_CardinalityType
  <2>2. \E i \in 1..Cardinality(S) : \E k \in DOMAIN Chunk(r.tests, i, Cardinality(S)) :
          Chunk(r.tests, i, Cardinality(S))[k] = r.tests[t]
    BY <1>2, <2>1, ChunksCover
  <2>3. PICK i \in 1..Cardinality(S) : \E k \in DOMAIN Chunk(r.tests, i, Cardinality(S)) :
                                         Chunk(r.tests, i, Cardinality(S))[k] = r.tests[t]
    BY <2>2
  <2>4. PICK w \in S : Rank(w, S) = i
    BY <1>1, EveryRank
  <2>5. LoopsOf(r, S)[w] = ReadyLoop(Chunk(r.tests, i, Cardinality(S)))
    BY <1>4, <2>4 DEF LoopsOf
  <2>6. LoopsOf(r, S)[w].pc # "none" /\ LoopsOf(r, S)[w].tests = Chunk(r.tests, i, Cardinality(S))
    BY <2>5 DEF ReadyLoop
  <2> QED BY <2>3, <2>6
<1>5. CASE ~(r.parallel /\ r.width > 1)
  <2>1. LoopsOf(r, S)[v] = ReadyLoop(r.tests)
    BY <1>3, <1>5, EmptyLoop DEF LoopsOf
  <2>2. LoopsOf(r, S)[v].tests = r.tests
    BY <2>1 DEF ReadyLoop
  <2> QED BY <2>2
<1> QED BY <1>4, <1>5

-----------------------------------------------------------------------------
(* The invariant.                                                          *)

\* A new execution has no loop, a resolved one none that goes on.
PhaseKnown(e) ==
  /\ phase[e] = "new" => \A w \in Workers : loops[e][w].pc = "none"
  /\ phase[e] = "resolved" => /\ status[e] = StatusOf(results[e])
                              /\ \A w \in Workers : loops[e][w].pc \in {"none", "ended"}

EngInv ==
  /\ TypeOK
  /\ \A e \in Execs : /\ PhaseKnown(e)
                      /\ Covers(loops[e], requests[e].tests)
                      /\ \A w \in Workers : LoopKnown(loops[e][w], results[e])
  /\ \A w \in Workers : pool[w].exec \in Execs => phase[pool[w].exec] # "new"
  /\ OneLoopPerWorker /\ WorkersComeBack

LEMMA SomeLoopsOn ==
  ASSUME NEW w \in Workers
  PROVE  IsFiniteSet(LoopsOn(w)) /\ Cardinality(LoopsOn(w)) \in Nat
<1>1. LoopsOn(w) \in SUBSET Execs
  BY DEF LoopsOn
<1> QED BY <1>1, EngineAssumption, FS_Subset, FS_CardinalityType

\* Nothing is asked for, and every worker idle.
LEMMA EngInitial == Init => EngInv
<1> SUFFICES ASSUME Init PROVE EngInv
  OBVIOUS
<1> USE EngineAssumption DEF Init
<1>1. TypeOK
  <2>1. Idle \in Allocation
    BY DEF Idle, Allocation
  <2> QED BY <2>1, EmptyLoop DEF TypeOK
<1>2. \A e \in Execs, w \in Workers : loops[e][w] = NoLoop
  OBVIOUS
<1>3. \A e \in Execs : PhaseKnown(e) /\ Covers(loops[e], requests[e].tests)
  BY <1>2, EmptyLoop DEF PhaseKnown, Covers
<1>4. \A e \in Execs, w \in Workers : LoopKnown(loops[e][w], results[e])
  BY <1>2 DEF LoopKnown, NoLoop
<1>5. \A w \in Workers : pool[w].status = "idle" /\ pool[w].exec \notin Execs
  BY DEF Idle, None
<1>6. \A w \in Workers : LoopsOn(w) = {}
  BY <1>2, EmptyLoop DEF LoopsOn, Live
<1>7. OneLoopPerWorker
  BY <1>5, <1>6, FS_EmptySet DEF OneLoopPerWorker
<1>8. WorkersComeBack
  BY <1>5 DEF WorkersComeBack
<1> QED BY <1>1, <1>3, <1>4, <1>5, <1>7, <1>8 DEF EngInv

-----------------------------------------------------------------------------
(* A step of a loop.                                                       *)

\* Results are replaced, never taken back.
LEMMA KnownStays ==
  ASSUME NEW l \in Loop, NEW rs, NEW rs2, LoopKnown(l, rs),
         \A t \in Tests : rs[t] # "none" => rs2[t] # "none"
  PROVE  LoopKnown(l, rs2)
<1>1. l.tests \in Seq(Tests) /\ l.at \in Nat /\ l.at <= Len(l.tests)
  BY ListsAreSequences, EngineAssumption DEF Loop, LoopKnown
<1>2. \A k \in 1..l.at : l.tests[k] \in Tests
  BY <1>1
<1> QED BY <1>2 DEF LoopKnown

\* What every step of the loop of e on w does: it changes this loop alone, keeps its
\* list, and gives the worker back when it ends.
LoopStep(e, w, l) ==
  /\ loops' = [loops EXCEPT ![e] = [@ EXCEPT ![w] = l]]
  /\ l.tests = loops[e][w].tests /\ l.pc \in {"test", "retry", "ended", "threw"}
  /\ UNCHANGED <<requests, cancels>>
  /\ \/ phase' = phase
     \/ phase' = [phase EXCEPT ![e] = "rejected"]
  /\ pool' \in [Workers -> Allocation]
  /\ \A v \in Workers : pool'[v].exec = pool[v].exec
  /\ \A v \in Workers \ {w} : pool'[v] = pool[v]
  /\ l.pc = "ended" => pool'[w].status = "idle"
  /\ l.pc # "ended" /\ pool'[w].status = "idle" => pool[w].status = "idle"
  /\ results' \in [Execs -> [Tests -> {"none", "passed", "failed"}]]
  /\ status' \in [Execs -> {"queued", "pending", "passed", "failed"}]
  /\ \A f \in Execs \ {e} : results'[f] = results[f] /\ status'[f] = status[f]
  /\ \A t \in Tests : results[e][t] # "none" => results'[e][t] # "none"

LEMMA StepChanges ==
  ASSUME TypeOK, NEW e \in Execs, NEW w \in Workers, NEW l \in Loop, LoopStep(e, w, l)
  PROVE  /\ loops' \in [Execs -> [Workers -> Loop]] /\ loops'[e][w] = l
         /\ \A f \in Execs \ {e} : loops'[f] = loops[f]
         /\ \A v \in Workers \ {w} : loops'[e][v] = loops[e][v]
<1>1. loops \in [Execs -> [Workers -> Loop]] /\ loops[e] \in [Workers -> Loop]
  BY DEF TypeOK
<1>2. PICK ls : ls = [loops[e] EXCEPT ![w] = l]
  OBVIOUS
<1>3. ls \in [Workers -> Loop] /\ ls[w] = l /\ \A v \in Workers \ {w} : ls[v] = loops[e][v]
  BY <1>1, <1>2
<1>4. loops' = [loops EXCEPT ![e] = ls]
  BY <1>2 DEF LoopStep
<1> QED BY <1>1, <1>3, <1>4

LEMMA StepTyped ==
  ASSUME TypeOK, NEW e \in Execs, NEW w \in Workers, NEW l \in Loop, LoopStep(e, w, l)
  PROVE  TypeOK'
<1>1. loops' \in [Execs -> [Workers -> Loop]]
  BY StepChanges
<1>2. phase' \in [Execs -> {"new", "running", "resolved", "rejected"}]
  BY DEF TypeOK, LoopStep
<1> QED BY <1>1, <1>2 DEF TypeOK, LoopStep

\* The loops a worker runs: one less, when this one ends or throws.
LEMMA StepLoopsOn ==
  ASSUME TypeOK, NEW e \in Execs, NEW w \in Workers, NEW l \in Loop, LoopStep(e, w, l),
         Live(e, w)
  PROVE  /\ \A v \in Workers \ {w} : LoopsOn(v)' = LoopsOn(v)
         /\ l.pc \in {"test", "retry"} => LoopsOn(w)' = LoopsOn(w)
         /\ l.pc \in {"ended", "threw"} => LoopsOn(w)' = LoopsOn(w) \ {e}
         /\ e \in LoopsOn(w)
<1>1. /\ loops'[e][w] = l /\ \A f \in Execs \ {e} : loops'[f] = loops[f]
      /\ \A v \in Workers \ {w} : loops'[e][v] = loops[e][v]
  BY StepChanges
<1>2. \A v \in Workers \ {w}, f \in Execs : loops'[f][v] = loops[f][v]
  BY <1>1
<1>3. \A f \in Execs \ {e} : loops'[f][w] = loops[f][w]
  BY <1>1
<1>4. \A v \in Workers \ {w} : LoopsOn(v)' = LoopsOn(v)
  BY <1>2 DEF LoopsOn, Live
<1>5. l.pc \in {"test", "retry"} => LoopsOn(w)' = LoopsOn(w)
  BY <1>1, <1>3 DEF LoopsOn, Live
<1>6. l.pc \in {"ended", "threw"} => LoopsOn(w)' = LoopsOn(w) \ {e}
  BY <1>1, <1>3 DEF LoopsOn, Live
<1> QED BY <1>4, <1>5, <1>6 DEF LoopsOn

LEMMA StepOneLoop ==
  ASSUME TypeOK, OneLoopPerWorker, NEW e \in Execs, NEW w \in Workers, NEW l \in Loop,
         LoopStep(e, w, l), Live(e, w)
  PROVE  OneLoopPerWorker'
<1>0. cancels' = cancels /\ cancels \in Nat
  BY EngineAssumption DEF LoopStep, TypeOK
<1>1. ASSUME NEW v \in Workers, v # w
      PROVE  Cardinality(LoopsOn(v)') <= cancels' + (IF pool'[v].status = "idle" THEN 0 ELSE 1)
  <2>1. LoopsOn(v)' = LoopsOn(v) /\ pool'[v] = pool[v]
    BY <1>1, StepLoopsOn DEF LoopStep
  <2>2. Cardinality(LoopsOn(v)) <= cancels + (IF pool[v].status = "idle" THEN 0 ELSE 1)
    BY DEF OneLoopPerWorker
  <2> QED BY <1>0, <2>1, <2>2
<1>2. CASE l.pc \in {"test", "retry"}
  <2>1. LoopsOn(w)' = LoopsOn(w)
    BY <1>2, StepLoopsOn
  <2>2. pool'[w].status = "idle" => pool[w].status = "idle"
    BY <1>2 DEF LoopStep
  <2>3. Cardinality(LoopsOn(w)) <= cancels + (IF pool[w].status = "idle" THEN 0 ELSE 1)
    BY DEF OneLoopPerWorker
  <2>4. Cardinality(LoopsOn(w)) \in Nat
    BY SomeLoopsOn
  <2>5. Cardinality(LoopsOn(w)) <= cancels + (IF pool'[w].status = "idle" THEN 0 ELSE 1)
    BY <1>0, <2>2, <2>3, <2>4
  <2>6. Cardinality(LoopsOn(w)') <= cancels' + (IF pool'[w].status = "idle" THEN 0 ELSE 1)
    BY <1>0, <2>1, <2>5
  <2> QED BY <1>1, <2>6 DEF OneLoopPerWorker
<1>3. CASE l.pc \in {"ended", "threw"}
  <2>1. LoopsOn(w)' = LoopsOn(w) \ {e} /\ e \in LoopsOn(w)
    BY <1>3, StepLoopsOn
  <2>2. l.pc = "threw" => (pool'[w].status = "idle" => pool[w].status = "idle")
    BY DEF LoopStep
  <2>3. Cardinality(LoopsOn(w)) <= cancels + (IF pool[w].status = "idle" THEN 0 ELSE 1)
    BY DEF OneLoopPerWorker
  <2>4. IsFiniteSet(LoopsOn(w)) /\ Cardinality(LoopsOn(w)) \in Nat
    BY SomeLoopsOn
  <2>5. Cardinality(LoopsOn(w)') = Cardinality(LoopsOn(w)) - 1
    BY <2>1, <2>4, FS_RemoveElement
  <2>6. Cardinality(LoopsOn(w)') <= cancels' + (IF pool'[w].status = "idle" THEN 0 ELSE 1)
    BY <1>0, <2>3, <2>4, <2>5
  <2> QED BY <1>1, <2>6 DEF OneLoopPerWorker
<1> QED BY <1>2, <1>3 DEF LoopStep

\* A worker that is not idle and runs nothing: this loop threw, or it was so before.
LEMMA StepComesBack ==
  ASSUME TypeOK, WorkersComeBack, NEW e \in Execs, NEW w \in Workers, NEW l \in Loop,
         LoopStep(e, w, l), Live(e, w)
  PROVE  WorkersComeBack'
<1> SUFFICES ASSUME NEW v \in Workers, pool'[v].status # "idle", LoopsOn(v)' = {}
             PROVE  \E f \in Execs :
                      \/ ~requests'[f].parallel /\ requests'[f].width > 1 /\ pool'[v].exec = f
                      \/ loops'[f][v].pc = "threw"
  BY DEF WorkersComeBack
<1>1. CASE v = w
  <2>1. l.pc # "ended"
    BY <1>1 DEF LoopStep
  <2>2. l.pc \notin {"test", "retry"}
    BY <1>1, StepLoopsOn
  <2>3. loops'[e][w].pc = "threw"
    BY <2>1, <2>2, StepChanges DEF LoopStep
  <2> QED BY <1>1, <2>3
<1>2. CASE v # w
  <2>1. pool'[v] = pool[v] /\ LoopsOn(v) = {} /\ requests' = requests
    BY <1>2, StepLoopsOn DEF LoopStep
  <2>2. \A f \in Execs : loops'[f][v] = loops[f][v]
    BY <1>2, StepChanges
  <2>3. PICK f \in Execs :
          \/ ~requests[f].parallel /\ requests[f].width > 1 /\ pool[v].exec = f
          \/ loops[f][v].pc = "threw"
    BY <2>1 DEF WorkersComeBack
  <2> QED BY <2>1, <2>2, <2>3
<1> QED BY <1>1, <1>2

LEMMA StepKeeps ==
  ASSUME EngInv, NEW e \in Execs, NEW w \in Workers, NEW l \in Loop,
         LoopStep(e, w, l), Live(e, w), LoopKnown(l, results'[e])
  PROVE  EngInv'
<1> USE DEF EngInv
<1>1. /\ loops'[e][w] = l /\ \A f \in Execs \ {e} : loops'[f] = loops[f]
      /\ \A v \in Workers \ {w} : loops'[e][v] = loops[e][v]
  BY StepChanges
<1>2. /\ requests' = requests
      /\ \A f \in Execs \ {e} : results'[f] = results[f] /\ status'[f] = status[f]
  BY DEF LoopStep
<1>3. phase \in [Execs -> {"new", "running", "resolved", "rejected"}]
  BY DEF TypeOK
<1>4. phase[e] # "new" /\ phase[e] # "resolved"
  BY DEF PhaseKnown, Live
<1>5. \A f \in Execs \ {e} : phase'[f] = phase[f]
  BY <1>3 DEF LoopStep
<1>6. phase'[e] # "new" /\ phase'[e] # "resolved"
  BY <1>3, <1>4 DEF LoopStep
<1>7. \A f \in Execs : PhaseKnown(f)'
  BY <1>1, <1>2, <1>5, <1>6 DEF PhaseKnown
<1>8. \A f \in Execs : Covers(loops'[f], requests'[f].tests)
  <2>1. \A f \in Execs \ {e} : Covers(loops'[f], requests'[f].tests)
    BY <1>1, <1>2
  <2>2. l.pc # "none" /\ loops[e][w].pc # "none" /\ l.tests = loops[e][w].tests
    BY DEF LoopStep, Live
  <2>3. \A v \in Workers : /\ loops'[e][v].pc # "none" <=> loops[e][v].pc # "none"
                           /\ loops'[e][v].tests = loops[e][v].tests
    BY <1>1, <2>2
  <2>4. Covers(loops[e], requests[e].tests)
    OBVIOUS
  <2>5. Covers(loops'[e], requests'[e].tests)
    BY <1>2, <2>3, <2>4 DEF Covers
  <2> QED BY <2>1, <2>5
<1>9. \A f \in Execs, v \in Workers : LoopKnown(loops'[f][v], results'[f])
  <2>1. ASSUME NEW v \in Workers \ {w} PROVE LoopKnown(loops'[e][v], results'[e])
    <3>1. loops[e][v] \in Loop /\ LoopKnown(loops[e][v], results[e])
      BY DEF TypeOK
    <3>2. \A t \in Tests : results[e][t] # "none" => results'[e][t] # "none"
      BY DEF LoopStep
    <3>3. LoopKnown(loops[e][v], results'[e])
      BY <3>1, <3>2, KnownStays
    <3> QED BY <1>1, <3>3
  <2>2. \A f \in Execs \ {e}, v \in Workers : LoopKnown(loops'[f][v], results'[f])
    BY <1>1, <1>2
  <2> QED BY <1>1, <2>1, <2>2
<1>10. \A v \in Workers : pool'[v].exec \in Execs => phase'[pool'[v].exec] # "new"
  BY <1>5, <1>6 DEF LoopStep
<1>11. TypeOK' /\ OneLoopPerWorker' /\ WorkersComeBack'
  BY StepTyped, StepOneLoop, StepComesBack
<1> QED BY <1>7, <1>8, <1>9, <1>10, <1>11

-----------------------------------------------------------------------------
(* The actions of a loop.                                                  *)

\* What is known of a loop that is going on.
LEMMA LoopIs ==
  ASSUME EngInv, NEW e \in Execs, NEW w \in Workers, NEW l, l = loops[e][w]
  PROVE  /\ l \in Loop /\ LoopKnown(l, results[e])
         /\ l.tests \in Seq(Tests) /\ l.tests \in TestIds /\ l.at \in 0..MaxTests
         /\ l.at \in Nat /\ Len(l.tests) \in Nat /\ Len(l.tests) <= MaxTests /\ MaxTests \in Nat
<1>1. l \in Loop /\ LoopKnown(l, results[e])
  BY DEF EngInv, TypeOK
<1> QED BY <1>1, ListsAreSequences, EngineAssumption DEF Loop

LEMMA SameLoop ==
  ASSUME NEW l \in Loop, NEW pc \in {"test", "retry", "ended", "threw"}, NEW at \in 0..MaxTests
  PROVE  [l EXCEPT !.pc = pc, !.at = at] \in Loop
  BY DEF Loop

LEMMA SamePool ==
  ASSUME TypeOK, NEW w \in Workers, NEW st \in {"idle", "allocated", "busy"},
         pool' = [pool EXCEPT ![w] = [@ EXCEPT !.status = st]]
  PROVE  /\ pool' \in [Workers -> Allocation] /\ pool'[w].status = st
         /\ \A v \in Workers : pool'[v].exec = pool[v].exec
         /\ \A v \in Workers \ {w} : pool'[v] = pool[v]
<1>1. pool \in [Workers -> Allocation] /\ pool[w] \in Allocation
  BY DEF TypeOK
<1>2. PICK p : p = [pool[w] EXCEPT !.status = st]
  OBVIOUS
<1>3. p \in Allocation /\ p.status = st /\ p.exec = pool[w].exec
  BY <1>1, <1>2 DEF Allocation
<1>4. pool' = [pool EXCEPT ![w] = p]
  BY <1>2
<1> QED BY <1>1, <1>3, <1>4

\* A result is recorded for one test; no other is touched.
LEMMA Recorded ==
  ASSUME TypeOK, NEW e \in Execs, NEW t \in Tests, NEW ok \in BOOLEAN, Record(e, t, ok)
  PROVE  /\ results' \in [Execs -> [Tests -> {"none", "passed", "failed"}]]
         /\ status' \in [Execs -> {"queued", "pending", "passed", "failed"}]
         /\ \A f \in Execs \ {e} : results'[f] = results[f] /\ status'[f] = status[f]
         /\ results'[e][t] # "none"
         /\ \A u \in Tests : results[e][u] # "none" => results'[e][u] # "none"
<1>1. /\ results \in [Execs -> [Tests -> {"none", "passed", "failed"}]]
      /\ results[e] \in [Tests -> {"none", "passed", "failed"}]
      /\ status \in [Execs -> {"queued", "pending", "passed", "failed"}]
  BY DEF TypeOK
<1>2. PICK rs : rs = [results[e] EXCEPT ![t] = IF ok THEN "passed" ELSE "failed"]
  OBVIOUS
<1>3. /\ rs \in [Tests -> {"none", "passed", "failed"}] /\ rs[t] # "none"
      /\ \A u \in Tests : results[e][u] # "none" => rs[u] # "none"
  BY <1>1, <1>2
<1>4. results' = [results EXCEPT ![e] = rs] /\ status' = [status EXCEPT ![e] = StatusOf(rs)]
  BY <1>2 DEF Record
<1>5. StatusOf(rs) \in {"passed", "failed", "pending"}
  BY DEF StatusOf
<1>6. results' \in [Execs -> [Tests -> {"none", "passed", "failed"}]] /\ results'[e] = rs
  BY <1>1, <1>3, <1>4
<1>7. status' \in [Execs -> {"queued", "pending", "passed", "failed"}]
  BY <1>1, <1>4, <1>5
<1>8. \A f \in Execs \ {e} : results'[f] = results[f] /\ status'[f] = status[f]
  BY <1>1, <1>4
<1> QED BY <1>3, <1>6, <1>7, <1>8

LEMMA BeginKeeps ==
  ASSUME EngInv, NEW e \in Execs, NEW w \in Workers, Begin(e, w)
  PROVE  EngInv'
<1> DEFINE l0 == loops[e][w]
<1>1. PICK l : l = [l0 EXCEPT !.pc = "test", !.at = l0.at]
  OBVIOUS
<1>2. l0 \in Loop /\ LoopKnown(l0, results[e]) /\ l0.at \in 0..MaxTests
  BY LoopIs
<1>3. l \in Loop
  BY <1>1, <1>2, SameLoop
<1>4. l.pc = "test" /\ l.tests = l0.tests /\ l.at = l0.at
  BY <1>1, <1>2 DEF Loop
<1>5. [l0 EXCEPT !.pc = "test"] = l
  BY <1>1, <1>2 DEF Loop
<1>6. pool' = [pool EXCEPT ![w] = [@ EXCEPT !.status = "busy"]] /\ TypeOK
  BY DEF Begin, EngInv
<1>7. /\ pool' \in [Workers -> Allocation] /\ pool'[w].status = "busy"
      /\ \A v \in Workers : pool'[v].exec = pool[v].exec
      /\ \A v \in Workers \ {w} : pool'[v] = pool[v]
  BY <1>6, SamePool
<1>8. loops' = [loops EXCEPT ![e] = [@ EXCEPT ![w] = l]]
  BY <1>5 DEF Begin
<1>9. LoopStep(e, w, l)
  BY <1>4, <1>6, <1>7, <1>8 DEF LoopStep, Begin, TypeOK
<1>10. LoopKnown(l, results'[e])
  BY <1>2, <1>4 DEF LoopKnown, Begin
<1>11. Live(e, w)
  BY DEF Begin, Live
<1> QED BY <1>3, <1>9, <1>10, <1>11, StepKeeps

\* A result, and on to the next test.
LEMMA ContinueKeeps ==
  ASSUME EngInv, NEW e \in Execs, NEW w \in Workers, loops[e][w].pc \in {"test", "retry"},
         loops[e][w].at < Len(loops[e][w].tests), NEW ok \in BOOLEAN,
         Record(e, Current(e, w), ok), Continue(e, w),
         UNCHANGED <<requests, phase, pool, cancels>>
  PROVE  EngInv'
<1> DEFINE l0 == loops[e][w]
<1>1. /\ l0 \in Loop /\ LoopKnown(l0, results[e]) /\ l0.tests \in Seq(Tests) /\ l0.at \in Nat
      /\ l0.at + 1 \in 0..MaxTests /\ l0.at + 1 \in 1..Len(l0.tests)
  BY LoopIs
<1>2. PICK l : l = [l0 EXCEPT !.pc = "test", !.at = l0.at + 1]
  OBVIOUS
<1>3. l \in Loop
  BY <1>1, <1>2, SameLoop
<1>4. l.pc = "test" /\ l.tests = l0.tests /\ l.at = l0.at + 1
  BY <1>1, <1>2 DEF Loop
<1>5. Current(e, w) = l0.tests[l0.at + 1] /\ Current(e, w) \in Tests /\ TypeOK
  BY <1>1 DEF Current, EngInv
<1>6. /\ results' \in [Execs -> [Tests -> {"none", "passed", "failed"}]]
      /\ status' \in [Execs -> {"queued", "pending", "passed", "failed"}]
      /\ \A f \in Execs \ {e} : results'[f] = results[f] /\ status'[f] = status[f]
      /\ results'[e][Current(e, w)] # "none"
      /\ \A u \in Tests : results[e][u] # "none" => results'[e][u] # "none"
  BY <1>5, Recorded
<1>7. loops' = [loops EXCEPT ![e] = [@ EXCEPT ![w] = l]]
  BY <1>2 DEF Continue
<1>8. LoopStep(e, w, l)
  BY <1>4, <1>5, <1>6, <1>7 DEF LoopStep, TypeOK
<1>9. LoopKnown(l0, results'[e])
  <2>1. /\ l0 \in Loop /\ LoopKnown(l0, results[e])
        /\ \A u \in Tests : results[e][u] # "none" => results'[e][u] # "none"
    BY <1>1, <1>6
  <2> QED BY ONLY <2>1, KnownStays
<1>10. \A k \in 1..l.at : results'[e][l.tests[k]] # "none"
  BY <1>1, <1>4, <1>5, <1>6, <1>9 DEF LoopKnown
<1>11. LoopKnown(l, results'[e])
  BY <1>1, <1>4, <1>10 DEF LoopKnown
<1>12. Live(e, w)
  BY DEF Live
<1> QED BY <1>3, <1>8, <1>11, <1>12, StepKeeps

LEMMA RunTestKeeps ==
  ASSUME EngInv, NEW e \in Execs, NEW w \in Workers, RunTest(e, w)
  PROVE  EngInv'
<1> DEFINE l0 == loops[e][w]
<1>1. /\ l0 \in Loop /\ LoopKnown(l0, results[e]) /\ l0.tests \in Seq(Tests)
      /\ l0.at \in 0..MaxTests /\ l0.at \in Nat /\ l0.at + 1 \in 1..Len(l0.tests)
      /\ l0.pc = "test" /\ l0.at < Len(l0.tests)
  BY LoopIs DEF RunTest
<1>2. PICK ok \in BOOLEAN :
        /\ Record(e, Current(e, w), ok)
        /\ IF ok \/ requests[e].retries = "off"
           THEN Continue(e, w)
           ELSE loops' = [loops EXCEPT ![e][w].pc = "retry"]
  BY DEF RunTest
<1>3. UNCHANGED <<requests, phase, pool, cancels>>
  BY DEF RunTest
<1>4. CASE Continue(e, w)
  BY <1>1, <1>2, <1>3, <1>4, ContinueKeeps
<1>5. CASE ~Continue(e, w)
  <2>1. PICK l : l = [l0 EXCEPT !.pc = "retry", !.at = l0.at]
    OBVIOUS
  <2>2. l \in Loop
    BY <1>1, <2>1, SameLoop
  <2>3. l.pc = "retry" /\ l.tests = l0.tests /\ l.at = l0.at /\ l = [l0 EXCEPT !.pc = "retry"]
    BY <1>1, <2>1 DEF Loop
  <2>4. Current(e, w) \in Tests /\ TypeOK
    BY <1>1 DEF Current, EngInv
  <2>5. /\ results' \in [Execs -> [Tests -> {"none", "passed", "failed"}]]
        /\ status' \in [Execs -> {"queued", "pending", "passed", "failed"}]
        /\ \A f \in Execs \ {e} : results'[f] = results[f] /\ status'[f] = status[f]
        /\ \A u \in Tests : results[e][u] # "none" => results'[e][u] # "none"
    BY <1>2, <2>4, Recorded
  <2>6. loops' = [loops EXCEPT ![e] = [@ EXCEPT ![w] = l]]
    BY <1>2, <1>5, <2>3
  <2>7. LoopStep(e, w, l)
    BY <1>3, <2>3, <2>4, <2>5, <2>6 DEF LoopStep, TypeOK
  <2>8. LoopKnown(l0, results'[e])
    <3>1. /\ l0 \in Loop /\ LoopKnown(l0, results[e])
          /\ \A u \in Tests : results[e][u] # "none" => results'[e][u] # "none"
      BY <1>1, <2>5
    <3> QED BY ONLY <3>1, KnownStays
  <2>9. LoopKnown(l, results'[e])
    BY <1>1, <2>3, <2>8 DEF LoopKnown
  <2>10. Live(e, w)
    BY <1>1 DEF Live
  <2> QED BY <2>2, <2>7, <2>9, <2>10, StepKeeps
<1> QED BY <1>4, <1>5

LEMMA RetryKeeps ==
  ASSUME EngInv, NEW e \in Execs, NEW w \in Workers, Retry(e, w)
  PROVE  EngInv'
<1>1. loops[e][w].pc = "retry" /\ LoopKnown(loops[e][w], results[e])
  BY LoopIs DEF Retry
<1>2. loops[e][w].at < Len(loops[e][w].tests)
  BY <1>1 DEF LoopKnown
<1>3. PICK ok \in BOOLEAN : Record(e, Current(e, w), ok)
  BY DEF Retry
<1>4. Continue(e, w) /\ UNCHANGED <<requests, phase, pool, cancels>>
  BY DEF Retry
<1> QED BY <1>1, <1>2, <1>3, <1>4, ContinueKeeps

LEMMA RetryThrowsKeeps ==
  ASSUME EngInv, NEW e \in Execs, NEW w \in Workers, RetryThrows(e, w)
  PROVE  EngInv'
<1> DEFINE l0 == loops[e][w]
<1>1. PICK l : l = [l0 EXCEPT !.pc = "threw", !.at = l0.at]
  OBVIOUS
<1>2. l0 \in Loop /\ LoopKnown(l0, results[e]) /\ l0.at \in 0..MaxTests
  BY LoopIs
<1>3. l \in Loop
  BY <1>1, <1>2, SameLoop
<1>4. l.pc = "threw" /\ l.tests = l0.tests /\ l.at = l0.at /\ l = [l0 EXCEPT !.pc = "threw"]
  BY <1>1, <1>2 DEF Loop
<1>5. loops' = [loops EXCEPT ![e] = [@ EXCEPT ![w] = l]] /\ TypeOK
  BY <1>4 DEF RetryThrows, EngInv
<1>6. LoopStep(e, w, l)
  BY <1>4, <1>5 DEF LoopStep, RetryThrows, TypeOK
<1>7. LoopKnown(l, results'[e])
  BY <1>2, <1>4 DEF LoopKnown, RetryThrows
<1>8. Live(e, w)
  BY DEF RetryThrows, Live
<1> QED BY <1>3, <1>6, <1>7, <1>8, StepKeeps

LEMMA EndLoopKeeps ==
  ASSUME EngInv, NEW e \in Execs, NEW w \in Workers, EndLoop(e, w)
  PROVE  EngInv'
<1> DEFINE l0 == loops[e][w]
<1>1. PICK l : l = [l0 EXCEPT !.pc = "ended", !.at = l0.at]
  OBVIOUS
<1>2. l0 \in Loop /\ LoopKnown(l0, results[e]) /\ l0.at \in 0..MaxTests
  BY LoopIs
<1>3. l \in Loop
  BY <1>1, <1>2, SameLoop
<1>4. l.pc = "ended" /\ l.tests = l0.tests /\ l.at = l0.at /\ l = [l0 EXCEPT !.pc = "ended"]
  BY <1>1, <1>2 DEF Loop
<1>5. pool' = [pool EXCEPT ![w] = [@ EXCEPT !.status = "idle"]] /\ TypeOK
  BY DEF EndLoop, EngInv
<1>6. /\ pool' \in [Workers -> Allocation] /\ pool'[w].status = "idle"
      /\ \A v \in Workers : pool'[v].exec = pool[v].exec
      /\ \A v \in Workers \ {w} : pool'[v] = pool[v]
  BY <1>5, SamePool
<1>7. loops' = [loops EXCEPT ![e] = [@ EXCEPT ![w] = l]]
  BY <1>4 DEF EndLoop
<1>8. LoopStep(e, w, l)
  BY <1>4, <1>5, <1>6, <1>7 DEF LoopStep, EndLoop, TypeOK
<1>9. LoopKnown(l, results'[e])
  BY <1>2, <1>4 DEF LoopKnown, EndLoop
<1>10. Live(e, w)
  BY DEF EndLoop, Live
<1> QED BY <1>3, <1>8, <1>9, <1>10, StepKeeps

-----------------------------------------------------------------------------
(* startExecution, its answer, and cancelExecution.                        *)

LEMMA StatusTyped ==
  ASSUME NEW rs
  PROVE  StatusOf(rs) \in {"queued", "pending", "passed", "failed"}
  BY DEF StatusOf

\* The loops of a new execution are alone in the change.
LEMMA StartChanges ==
  ASSUME EngInv, NEW e \in Execs, NEW r \in Request, Start(e, r),
         NEW S, S = Assigned(r.width)
  PROVE  /\ S \in SUBSET Workers /\ \A w \in S : pool[w].status = "idle"
         /\ phase[e] = "new" /\ \A w \in Workers : loops[e][w].pc = "none"
         /\ requests'[e] = r /\ loops'[e] = LoopsOf(r, S) /\ phase'[e] # "new"
         /\ phase'[e] # "resolved"
         /\ \A w \in S : pool'[w].status = "allocated" /\ pool'[w].exec = e
         /\ \A w \in Workers \ S : pool'[w] = pool[w]
         /\ \A f \in Execs \ {e} : /\ requests'[f] = requests[f] /\ loops'[f] = loops[f]
                                   /\ phase'[f] = phase[f] /\ status'[f] = status[f]
         /\ results' = results /\ cancels' = cancels
         /\ TypeOK'
<1>1. S \in SUBSET Workers /\ \A w \in S : pool[w].status = "idle"
  BY DEF Assigned, Free
<1>2. phase[e] = "new" /\ \A w \in Workers : loops[e][w].pc = "none"
  BY DEF Start, EngInv, PhaseKnown
<1>3. LoopsOf(r, S) \in [Workers -> Loop]
  BY <1>1, LoopsBegin
<1>4. /\ requests' = [requests EXCEPT ![e] = r] /\ loops' = [loops EXCEPT ![e] = LoopsOf(r, S)]
      /\ status' = [status EXCEPT ![e] = "queued"] /\ results' = results /\ cancels' = cancels
      /\ pool' = [w \in Workers |->
                    IF w \in S THEN [status |-> "allocated", exec |-> e] ELSE pool[w]]
  BY DEF Start
<1>5. PICK p \in {"rejected", "running"} : phase' = [phase EXCEPT ![e] = p]
  BY DEF Start
<1>6. TypeOK
  BY DEF EngInv
<1>7. /\ requests'[e] = r /\ loops'[e] = LoopsOf(r, S) /\ phase'[e] = p
      /\ \A f \in Execs \ {e} : /\ requests'[f] = requests[f] /\ loops'[f] = loops[f]
                                /\ phase'[f] = phase[f] /\ status'[f] = status[f]
  BY <1>4, <1>5, <1>6 DEF TypeOK
<1>8. /\ \A w \in S : pool'[w].status = "allocated" /\ pool'[w].exec = e
      /\ \A w \in Workers \ S : pool'[w] = pool[w]
  BY <1>1, <1>4
<1>9. TypeOK'
  <2>1. [status |-> "allocated", exec |-> e] \in Allocation
    BY DEF Allocation
  <2>2. pool' \in [Workers -> Allocation]
    BY <1>4, <1>6, <2>1 DEF TypeOK
  <2>3. loops' \in [Execs -> [Workers -> Loop]]
    BY <1>3, <1>4, <1>6 DEF TypeOK
  <2>4. requests' \in [Execs -> Request \cup {NoRequest}]
    BY <1>4, <1>6 DEF TypeOK
  <2>5. /\ phase' \in [Execs -> {"new", "running", "resolved", "rejected"}]
        /\ status' \in [Execs -> {"queued", "pending", "passed", "failed"}]
    BY <1>4, <1>5, <1>6 DEF TypeOK
  <2> QED BY <1>4, <1>6, <2>2, <2>3, <2>4, <2>5 DEF TypeOK
<1> QED BY <1>1, <1>2, <1>4, <1>5, <1>7, <1>8, <1>9

LEMMA StartOneLoop ==
  ASSUME EngInv, NEW e \in Execs, NEW r \in Request, Start(e, r)
  PROVE  OneLoopPerWorker'
<1>1. PICK S : S = Assigned(r.width)
  OBVIOUS
<1>2. S \in SUBSET Workers /\ \A w \in S : pool[w].status = "idle"
  BY <1>1, StartChanges
<1>3. \A w \in S : pool'[w].status = "allocated"
  BY <1>1, StartChanges
<1>4. \A w \in Workers \ S : pool'[w] = pool[w]
  BY <1>1, StartChanges
<1>5. \A f \in Execs \ {e} : loops'[f] = loops[f]
  BY <1>1, StartChanges
<1>6. loops'[e] = LoopsOf(r, S) /\ \A w \in Workers : loops[e][w].pc = "none"
  BY <1>1, StartChanges
<1>7. cancels' = cancels /\ cancels \in Nat
  BY EngineAssumption DEF Start, EngInv, TypeOK
<1> SUFFICES ASSUME NEW w \in Workers
             PROVE  Cardinality(LoopsOn(w)') <=
                      cancels' + (IF pool'[w].status = "idle" THEN 0 ELSE 1)
  BY DEF OneLoopPerWorker
<1>8. /\ IsFiniteSet(LoopsOn(w)) /\ Cardinality(LoopsOn(w)) \in Nat
      /\ Cardinality(LoopsOn(w)) <= cancels + (IF pool[w].status = "idle" THEN 0 ELSE 1)
  BY SomeLoopsOn DEF EngInv, OneLoopPerWorker
<1>9. CASE w \notin S
  <2>1. loops'[e][w].pc = "none"
    BY <1>2, <1>6, <1>9, LoopsBegin
  <2>2. LoopsOn(w)' = LoopsOn(w)
    BY <1>5, <1>6, <2>1 DEF LoopsOn, Live
  <2> QED BY <1>4, <1>7, <1>8, <1>9, <2>2
<1>10. CASE w \in S
  <2>1. e \notin LoopsOn(w) /\ LoopsOn(w)' \in SUBSET (LoopsOn(w) \cup {e})
    BY <1>5, <1>6 DEF LoopsOn, Live
  <2>2. /\ IsFiniteSet(LoopsOn(w) \cup {e})
        /\ Cardinality(LoopsOn(w) \cup {e}) = Cardinality(LoopsOn(w)) + 1
    BY <1>8, <2>1, FS_AddElement
  <2>3. /\ Cardinality(LoopsOn(w)') <= Cardinality(LoopsOn(w) \cup {e})
        /\ Cardinality(LoopsOn(w)') \in Nat
    BY <2>1, <2>2, FS_Subset, FS_CardinalityType
  <2>4. pool[w].status = "idle" /\ pool'[w].status # "idle"
    BY <1>2, <1>3, <1>10
  <2> QED BY <1>7, <1>8, <2>2, <2>3, <2>4
<1> QED BY <1>9, <1>10

\* An assigned worker has a loop, unless the request is sequential and asked for more
\* than one: a request for one worker gets one, and that one has the loop.
LEMMA StartComesBack ==
  ASSUME EngInv, NEW e \in Execs, NEW r \in Request, Start(e, r)
  PROVE  WorkersComeBack'
<1>1. PICK S : S = Assigned(r.width)
  OBVIOUS
<1>2. /\ S \in SUBSET Workers /\ \A w \in S : pool'[w].exec = e
      /\ requests'[e] = r /\ loops'[e] = LoopsOf(r, S)
  BY <1>1, StartChanges
<1>3. /\ \A w \in Workers \ S : pool'[w] = pool[w]
      /\ phase[e] = "new" /\ \A w \in Workers : loops[e][w].pc = "none"
  BY <1>1, StartChanges
<1>4. \A f \in Execs \ {e} : requests'[f] = requests[f] /\ loops'[f] = loops[f]
  BY <1>1, StartChanges
<1> SUFFICES ASSUME NEW w \in Workers, pool'[w].status # "idle", LoopsOn(w)' = {}
             PROVE  \E f \in Execs :
                      \/ ~requests'[f].parallel /\ requests'[f].width > 1 /\ pool'[w].exec = f
                      \/ loops'[f][w].pc = "threw"
  BY DEF WorkersComeBack
<1>5. CASE w \in S
  <2>1. loops'[e][w].pc # "ready"
    BY DEF LoopsOn, Live
  <2>2. ~(r.parallel /\ r.width > 1) /\ Rank(w, S) # 1
    BY <1>2, <1>5, <2>1, LoopsBegin
  <2>3. r.width # 1
    BY <1>1, <1>5, <2>2, OnlyOne
  <2>4. r.width \in Nat \ {0}
    BY EngineAssumption DEF Request
  <2>5. r.width > 1 /\ ~r.parallel
    BY <2>2, <2>3, <2>4
  <2> QED BY <1>2, <1>5, <2>5
<1>6. CASE w \notin S
  <2>1. \A f \in Execs \ {e} : loops'[f][w] = loops[f][w]
    BY <1>4
  <2>2. LoopsOn(w) = {} /\ pool'[w] = pool[w]
    BY <1>3, <1>6, <2>1 DEF LoopsOn, Live
  <2>3. PICK f \in Execs :
          \/ ~requests[f].parallel /\ requests[f].width > 1 /\ pool[w].exec = f
          \/ loops[f][w].pc = "threw"
    BY <2>2 DEF EngInv, WorkersComeBack
  <2>4. f # e
    BY <1>3, <2>3 DEF EngInv
  <2> QED BY <1>4, <2>2, <2>3, <2>4
<1> QED BY <1>5, <1>6

LEMMA StartKeeps ==
  ASSUME EngInv, NEW e \in Execs, NEW r \in Request, Start(e, r)
  PROVE  EngInv'
<1>1. PICK S : S = Assigned(r.width)
  OBVIOUS
<1>2. /\ S \in SUBSET Workers /\ \A w \in S : pool'[w].exec = e
      /\ requests'[e] = r /\ loops'[e] = LoopsOf(r, S)
      /\ phase'[e] # "new" /\ phase'[e] # "resolved"
  BY <1>1, StartChanges
<1>3. /\ \A w \in Workers \ S : pool'[w] = pool[w]
      /\ results' = results /\ TypeOK'
  BY <1>1, StartChanges
<1>4. \A f \in Execs \ {e} : /\ requests'[f] = requests[f] /\ loops'[f] = loops[f]
                             /\ phase'[f] = phase[f] /\ status'[f] = status[f]
  BY <1>1, StartChanges
<1>5. \A f \in Execs : PhaseKnown(f)'
  BY <1>2, <1>3, <1>4 DEF EngInv, PhaseKnown
<1>6. \A f \in Execs : Covers(loops'[f], requests'[f].tests)
  BY <1>2, <1>4, LoopsCover DEF EngInv
<1>7. \A f \in Execs, w \in Workers : LoopKnown(loops'[f][w], results'[f])
  <2>1. ASSUME NEW w \in Workers PROVE LoopKnown(loops'[e][w], results'[e])
    <3>1. loops'[e][w] \in Loop /\ loops'[e][w].at = 0 /\ loops'[e][w].pc \in {"none", "ready"}
      BY <1>2, LoopsBegin
    <3>2. Len(loops'[e][w].tests) \in Nat
      BY <3>1, ListsAreSequences, EngineAssumption DEF Loop
    <3> QED BY <3>1, <3>2 DEF LoopKnown
  <2> QED BY <1>3, <1>4, <2>1 DEF EngInv
<1>8. \A w \in Workers : pool'[w].exec \in Execs => phase'[pool'[w].exec] # "new"
  BY <1>2, <1>3, <1>4 DEF EngInv
<1> QED BY <1>3, <1>5, <1>6, <1>7, <1>8, StartOneLoop, StartComesBack DEF EngInv

LEMMA FinishKeeps ==
  ASSUME EngInv, NEW e \in Execs, Finish(e)
  PROVE  EngInv'
<1>1. TypeOK /\ phase[e] = "running" /\ UNCHANGED <<requests, pool, loops, results, cancels>>
  BY DEF EngInv, Finish
<1>2. /\ status' = [status EXCEPT ![e] = StatusOf(results[e])]
      /\ phase' = [phase EXCEPT ![e] = "resolved"]
  BY DEF Finish
<1>3. TypeOK'
  BY <1>1, <1>2, StatusTyped DEF TypeOK
<1>4. /\ status'[e] = StatusOf(results[e]) /\ phase'[e] = "resolved"
      /\ \A f \in Execs \ {e} : status'[f] = status[f] /\ phase'[f] = phase[f]
  BY <1>1, <1>2 DEF TypeOK
<1>5. \A f \in Execs : PhaseKnown(f)'
  BY <1>1, <1>4 DEF EngInv, PhaseKnown, Finish
<1>6. \A w \in Workers : pool'[w].exec \in Execs => phase'[pool'[w].exec] # "new"
  BY <1>1, <1>4 DEF EngInv
<1>7. \A w \in Workers : LoopsOn(w)' = LoopsOn(w)
  BY <1>1 DEF LoopsOn, Live
<1>8. OneLoopPerWorker' /\ WorkersComeBack'
  BY <1>1, <1>7 DEF EngInv, OneLoopPerWorker, WorkersComeBack
<1> QED BY <1>1, <1>3, <1>5, <1>6, <1>8 DEF EngInv

LEMMA CancelKeeps ==
  ASSUME EngInv, NEW e \in Execs, Cancel(e)
  PROVE  EngInv'
<1>1. TypeOK /\ phase[e] # "new" /\ UNCHANGED <<requests, phase, loops, results>>
  BY DEF EngInv, Cancel
<1>2. /\ status' = [status EXCEPT ![e] = StatusOf(results[e])] /\ pool' = Released(e)
      /\ cancels \in Nat /\ cancels' = cancels + 1 /\ cancels' \in 0..MaxCancels
  BY EngineAssumption DEF Cancel, EngInv, TypeOK
<1>3. \A w \in Workers : \/ pool'[w] = pool[w]
                         \/ pool'[w].status = "idle" /\ pool'[w].exec \notin Execs
  BY <1>2, EngineAssumption DEF Released, Idle, None
<1>4. TypeOK'
  <2>1. Idle \in Allocation
    BY DEF Idle, Allocation
  <2>2. pool' \in [Workers -> Allocation]
    BY <1>1, <1>2, <2>1 DEF Released, TypeOK
  <2> QED BY <1>1, <1>2, <2>2, StatusTyped DEF TypeOK
<1>5. status'[e] = StatusOf(results[e]) /\ \A f \in Execs \ {e} : status'[f] = status[f]
  BY <1>1, <1>2 DEF TypeOK
<1>6. \A f \in Execs : PhaseKnown(f)'
  BY <1>1, <1>5 DEF EngInv, PhaseKnown
<1>7. \A w \in Workers : LoopsOn(w)' = LoopsOn(w)
  BY <1>1 DEF LoopsOn, Live
<1>8. ASSUME NEW w \in Workers
      PROVE  Cardinality(LoopsOn(w)') <= cancels' + (IF pool'[w].status = "idle" THEN 0 ELSE 1)
  <2>1. /\ Cardinality(LoopsOn(w)) \in Nat
        /\ Cardinality(LoopsOn(w)) <= cancels + (IF pool[w].status = "idle" THEN 0 ELSE 1)
    BY SomeLoopsOn DEF EngInv, OneLoopPerWorker
  <2> QED BY <1>2, <1>7, <2>1
<1>9. WorkersComeBack'
  BY <1>1, <1>3, <1>7 DEF EngInv, WorkersComeBack
<1>10. \A w \in Workers : pool'[w].exec \in Execs => phase'[pool'[w].exec] # "new"
  BY <1>1, <1>3 DEF EngInv
<1> QED BY <1>1, <1>4, <1>6, <1>8, <1>9, <1>10 DEF EngInv, OneLoopPerWorker

-----------------------------------------------------------------------------
(* The invariant holds, and what follows from it.                          *)

LEMMA EngInductive == EngInv /\ [Next]_vars => EngInv'
<1> SUFFICES ASSUME EngInv, [Next]_vars PROVE EngInv'
  OBVIOUS
<1>1. CASE Next
  <2>1. PICK e \in Execs : \/ \E r \in Request : Start(e, r)
                           \/ \E w \in Workers : Step(e, w)
                           \/ Finish(e) \/ Cancel(e)
    BY <1>1 DEF Next
  <2>2. CASE \E r \in Request : Start(e, r)
    BY <2>2, StartKeeps
  <2>3. ASSUME NEW w \in Workers, Step(e, w) PROVE EngInv'
    <3>1. CASE Begin(e, w)
      BY <3>1, BeginKeeps
    <3>2. CASE RunTest(e, w)
      BY <3>2, RunTestKeeps
    <3>3. CASE Retry(e, w)
      BY <3>3, RetryKeeps
    <3>4. CASE RetryThrows(e, w)
      BY <3>4, RetryThrowsKeeps
    <3>5. CASE EndLoop(e, w)
      BY <3>5, EndLoopKeeps
    <3> QED BY <2>3, <3>1, <3>2, <3>3, <3>4, <3>5 DEF Step
  <2>4. CASE Finish(e)
    BY <2>4, FinishKeeps
  <2>5. CASE Cancel(e)
    BY <2>5, CancelKeeps
  <2> QED BY <2>1, <2>2, <2>3, <2>4, <2>5
<1>2. CASE UNCHANGED vars
  <2>1. \A w \in Workers : LoopsOn(w)' = LoopsOn(w)
    BY <1>2 DEF vars, LoopsOn, Live
  <2>2. TypeOK'
    BY <1>2 DEF vars, EngInv, TypeOK
  <2>3. OneLoopPerWorker' /\ WorkersComeBack'
    BY <1>2, <2>1 DEF vars, EngInv, OneLoopPerWorker, WorkersComeBack
  <2>4. \A e \in Execs : PhaseKnown(e)'
    BY <1>2 DEF vars, EngInv, PhaseKnown
  <2> QED BY <1>2, <2>2, <2>3, <2>4 DEF vars, EngInv
<1> QED BY <1>1, <1>2

\* A loop that has ended has been through its list, and the lists hold all the tests.
LEMMA Complete == EngInv => ResolvedIsComplete
<1> SUFFICES ASSUME EngInv, NEW e \in Execs, phase[e] = "resolved",
                    NEW v \in Workers, loops[e][v].pc # "none",
                    NEW i \in DOMAIN requests[e].tests
             PROVE  results[e][requests[e].tests[i]] # "none"
  BY DEF ResolvedIsComplete, EngInv, PhaseKnown
<1>1. PICK w \in Workers :
        loops[e][w].pc # "none" /\ \E k \in DOMAIN loops[e][w].tests :
                                     loops[e][w].tests[k] = requests[e].tests[i]
  BY DEF EngInv, Covers
<1>2. loops[e][w].pc = "ended" /\ LoopKnown(loops[e][w], results[e])
  BY <1>1 DEF EngInv, PhaseKnown
<1>3. DOMAIN loops[e][w].tests = 1..Len(loops[e][w].tests)
  BY LoopIs
<1> QED BY <1>1, <1>2, <1>3 DEF LoopKnown

THEOREM EngineInvariant == Spec => []EngInv
  BY EngInitial, EngInductive, PTL DEF Spec

\* The statuses, phases and results of an execution are the ones the monitor reports.
THEOREM EngineTypeCorrect == Spec => []TypeOK
<1>1. EngInv => TypeOK
  BY DEF EngInv
<1> QED BY <1>1, EngineInvariant, PTL

\* However many executions share the pool, a worker runs one loop, and one more for
\* every cancel.
THEOREM WorkersNeverShared == Spec => []OneLoopPerWorker
<1>1. EngInv => OneLoopPerWorker
  BY DEF EngInv
<1> QED BY <1>1, EngineInvariant, PTL

\* A worker that is not idle runs a loop, or was taken by a sequential execution beyond
\* its first, or its loop threw.
THEOREM WorkersAlwaysComeBack == Spec => []WorkersComeBack
<1>1. EngInv => WorkersComeBack
  BY DEF EngInv
<1> QED BY <1>1, EngineInvariant, PTL

\* A promise that resolves leaves no test without a result, for every number of tests
\* and workers the chunks are cut for.
THEOREM ResolvedAlwaysComplete == Spec => []ResolvedIsComplete
  BY Complete, EngineInvariant, PTL

-----------------------------------------------------------------------------
(* A failure that is not retried stays.                                    *)

\* Where the tests of a chunk are in the request.
LEMMA ChunkAt ==
  ASSUME NEW tests \in Seq(Tests), NEW k \in Nat \ {0}, NEW i \in 1..k,
         NEW m \in DOMAIN Chunk(tests, i, k), NEW size, size = ChunkSize(Len(tests), k)
  PROVE  /\ size \in Nat /\ m \in Nat \ {0} /\ m <= size
         /\ (i - 1) * size + m \in 1..Len(tests)
         /\ Chunk(tests, i, k)[m] = tests[(i - 1) * size + m]
<1>1. PICK a, b : a = First(size, i) /\ b = Last(size, i, Len(tests))
  OBVIOUS
<1>2. /\ size \in Nat /\ a \in Nat \ {0} /\ b \in 0..Len(tests)
      /\ Chunk(tests, i, k) = SubSeq(tests, a, b)
  BY <1>1, ChunkIs
<1>3. /\ Chunk(tests, i, k) \in [1..(1 + b - a) -> Tests]
      /\ \A j \in 1..(1 + b - a) : Chunk(tests, i, k)[j] = tests[j + a - 1]
  BY <1>2, PartIs
<1>4. PICK p \in Nat : p = (i - 1) * size
  BY <1>2
<1>5. i * size = p + size
  BY <1>2, <1>4
<1>6. a = p + 1 /\ b = (IF p + size < Len(tests) THEN p + size ELSE Len(tests))
  BY <1>1, <1>4, <1>5 DEF First, Last
<1>7. m \in 1..(1 + b - a) /\ Len(tests) \in Nat
  BY <1>3
<1>8. m + a - 1 = p + m /\ p + m \in 1..Len(tests) /\ m \in Nat \ {0} /\ m <= size
  BY ONLY <1>2, <1>6, <1>7, p \in Nat
<1> QED BY <1>2, <1>3, <1>4, <1>7, <1>8

\* The chunks of a list without repetition have no test in common, nor one twice.
LEMMA ChunksApart ==
  ASSUME NEW tests \in Seq(Tests), Distinct(tests), NEW k \in Nat \ {0},
         NEW i \in 1..k, NEW j \in 1..k,
         NEW m \in DOMAIN Chunk(tests, i, k), NEW n \in DOMAIN Chunk(tests, j, k),
         Chunk(tests, i, k)[m] = Chunk(tests, j, k)[n]
  PROVE  i = j /\ m = n
<1>1. PICK size : size = ChunkSize(Len(tests), k)
  OBVIOUS
<1>2. /\ size \in Nat /\ m \in Nat \ {0} /\ m <= size /\ (i - 1) * size + m \in 1..Len(tests)
      /\ Chunk(tests, i, k)[m] = tests[(i - 1) * size + m]
  BY <1>1, ChunkAt
<1>3. /\ n \in Nat \ {0} /\ n <= size /\ (j - 1) * size + n \in 1..Len(tests)
      /\ Chunk(tests, j, k)[n] = tests[(j - 1) * size + n]
  BY <1>1, ChunkAt
<1>4. (i - 1) * size + m = (j - 1) * size + n
  <2>1. PICK x \in 1..Len(tests), y \in 1..Len(tests) :
          x = (i - 1) * size + m /\ y = (j - 1) * size + n
    BY <1>2, <1>3
  <2>2. tests[x] = tests[y]
    BY <1>2, <1>3, <2>1
  <2>3. x = y
    BY <2>2, DOMAIN tests = 1..Len(tests) DEF Distinct
  <2> QED BY <2>1, <2>3
<1>5. ASSUME NEW x \in 1..k, NEW y \in 1..k, x < y PROVE (x - 1) * size + size <= (y - 1) * size
  <2>1. x <= y - 1 /\ x \in Nat /\ y - 1 \in Nat
    BY <1>5
  <2>2. x * size <= (y - 1) * size
    BY <1>2, <2>1
  <2>3. (x - 1) * size + size = x * size
    BY <1>2, <2>1
  <2> QED BY <2>2, <2>3
<1>6. PICK p \in Nat, q \in Nat : p = (i - 1) * size /\ q = (j - 1) * size
  <2>1. i - 1 \in Nat /\ j - 1 \in Nat /\ size \in Nat
    BY <1>2
  <2>2. (i - 1) * size \in Nat
    BY <2>1
  <2>3. (j - 1) * size \in Nat
    BY <2>1
  <2> QED BY <2>2, <2>3
<1>7. /\ i < j => p + size <= q
      /\ j < i => q + size <= p
      /\ p + m = q + n
  BY <1>4, <1>5, <1>6
<1>8. ~(i < j) /\ ~(j < i)
  BY ONLY <1>2, <1>3, <1>6, <1>7
<1>9. i = j
  BY <1>8
<1> QED BY <1>6, <1>7, <1>9, <1>2, <1>3

\* No two of the loops, and no loop twice, have a test in common.
Apart(ls) ==
  \A v, w \in Workers :
    ls[v].pc # "none" /\ ls[w].pc # "none" =>
      \A i \in DOMAIN ls[v].tests, j \in DOMAIN ls[w].tests :
        ls[v].tests[i] = ls[w].tests[j] => v = w /\ i = j

LEMMA LoopsApart ==
  ASSUME NEW r \in Request, Distinct(r.tests), NEW S \in SUBSET Workers
  PROVE  Apart(LoopsOf(r, S))
<1> DEFINE ls == LoopsOf(r, S)
<1> SUFFICES ASSUME NEW v \in Workers, NEW w \in Workers, ls[v].pc # "none", ls[w].pc # "none",
                    NEW i \in DOMAIN ls[v].tests, NEW j \in DOMAIN ls[w].tests,
                    ls[v].tests[i] = ls[w].tests[j]
             PROVE  v = w /\ i = j
  BY DEF Apart
<1>1. S \in SUBSET Nat /\ IsFiniteSet(S) /\ v \in S /\ w \in S
  BY WorkersFinite, FS_Subset, LoopsBegin
<1>2. /\ Cardinality(S) \in Nat \ {0}
      /\ Rank(v, S) \in 1..Cardinality(S) /\ Rank(w, S) \in 1..Cardinality(S)
  BY <1>1, SomeRank, FS_CardinalityType
<1>3. r.tests \in Seq(Tests)
  BY ListsAreSequences DEF Request
<1>4. Rank(v, S) = Rank(w, S) => v = w
  <2>1. v \in Nat /\ w \in Nat /\ Rank(v, S) \in Nat /\ Rank(w, S) \in Nat
    BY <1>1, <1>2
  <2>2. /\ v < w => Rank(v, S) < Rank(w, S)
        /\ w < v => Rank(w, S) < Rank(v, S)
    BY <1>1, RankGrows
  <2> QED BY <2>1, <2>2
<1>5. CASE r.parallel /\ r.width > 1
  <2>1. /\ ls[v] = ReadyLoop(Chunk(r.tests, Rank(v, S), Cardinality(S)))
        /\ ls[w] = ReadyLoop(Chunk(r.tests, Rank(w, S), Cardinality(S)))
    BY <1>1, <1>5 DEF LoopsOf
  <2>2. /\ ls[v].tests = Chunk(r.tests, Rank(v, S), Cardinality(S))
        /\ ls[w].tests = Chunk(r.tests, Rank(w, S), Cardinality(S))
    BY <2>1 DEF ReadyLoop
  <2> HIDE DEF ls
  <2>3. Rank(v, S) = Rank(w, S) /\ i = j
    BY <1>2, <1>3, <2>2, ChunksApart
  <2> QED BY <1>4, <2>3
<1>6. CASE ~(r.parallel /\ r.width > 1)
  <2>1. /\ Rank(v, S) = 1 /\ Rank(w, S) = 1
        /\ ls[v] = ReadyLoop(r.tests) /\ ls[w] = ReadyLoop(r.tests)
    BY <1>1, <1>6, EmptyLoop DEF LoopsOf
  <2>2. ls[v].tests = r.tests /\ ls[w].tests = r.tests
    BY <2>1 DEF ReadyLoop
  <2> HIDE DEF ls
  <2> QED BY <1>4, <2>1, <2>2 DEF Distinct
<1> QED BY <1>5, <1>6

\* The tests a loop has still to run have no result.
Pending(l, rs) == l.pc # "none" => \A k \in DOMAIN l.tests : k > l.at => rs[l.tests[k]] = "none"

Single(e) == requests[e].retries = "off" /\ Distinct(requests[e].tests)

\* The status is "failed" for a result that is, and a request without retries and without
\* a test listed twice runs each of its tests once.
StickKnown(e) ==
  /\ phase[e] = "new" => status[e] # "failed" /\ \A t \in Tests : results[e][t] = "none"
  /\ phase[e] = "new" => requests[e].retries # "off"
  /\ status[e] = "failed" => \E t \in Tests : results[e][t] = "failed"
  /\ Single(e) => /\ Apart(loops[e])
                  /\ \A w \in Workers : /\ Pending(loops[e][w], results[e])
                                        /\ loops[e][w].pc # "retry"

StickInv == \A e \in Execs : StickKnown(e)

\* What a step does not touch stays known.
LEMMA StickStays ==
  ASSUME NEW e \in Execs, StickKnown(e),
         UNCHANGED <<requests[e], phase[e], loops[e], results[e], status[e]>>
  PROVE  StickKnown(e)'
BY DEF StickKnown, Single

LEMMA StatusFailed ==
  ASSUME NEW rs PROVE StatusOf(rs) = "failed" <=> \E t \in Tests : rs[t] = "failed"
BY DEF StatusOf

\* A loop without retries runs a test that has no result yet, and goes on to the next.
LEMMA RunsOnce ==
  ASSUME EngInv, StickInv, NEW e \in Execs, NEW w \in Workers, RunTest(e, w), Single(e)
  PROVE  /\ results[e][Current(e, w)] = "none" /\ Current(e, w) \in Tests
         /\ \E rs : /\ \A t \in Tests : t # Current(e, w) => rs[t] = results[e][t]
                    /\ results' = [results EXCEPT ![e] = rs]
                    /\ status' = [status EXCEPT ![e] = StatusOf(rs)]
         /\ Continue(e, w)
<1> DEFINE l == loops[e][w]
<1>1. /\ l \in Loop /\ l.tests \in Seq(Tests) /\ l.at \in Nat /\ l.at < Len(l.tests)
      /\ l.pc = "test"
  BY LoopIs DEF RunTest
<1>2. l.at + 1 \in DOMAIN l.tests /\ l.at + 1 > l.at
  BY <1>1
<1>3. results[e][Current(e, w)] = "none" /\ Current(e, w) \in Tests
  BY <1>1, <1>2 DEF Current, StickInv, StickKnown, Pending
<1>4. PICK ok \in BOOLEAN : Record(e, Current(e, w), ok)
  BY DEF RunTest
<1>5. results \in [Execs -> [Tests -> {"none", "passed", "failed"}]]
  BY DEF EngInv, TypeOK
<1>6. \E rs : /\ \A t \in Tests : t # Current(e, w) => rs[t] = results[e][t]
              /\ results' = [results EXCEPT ![e] = rs]
              /\ status' = [status EXCEPT ![e] = StatusOf(rs)]
  <2> DEFINE rs == [results[e] EXCEPT ![Current(e, w)] = IF ok THEN "passed" ELSE "failed"]
  <2>1. /\ results' = [results EXCEPT ![e] = rs]
        /\ status' = [status EXCEPT ![e] = StatusOf(rs)]
    BY <1>4 DEF Record
  <2>2. \A t \in Tests : t # Current(e, w) => rs[t] = results[e][t]
    BY <1>5
  <2> HIDE DEF rs
  <2> QED BY <2>1, <2>2
<1>7. Continue(e, w)
  BY DEF RunTest, Single
<1> QED BY <1>3, <1>6, <1>7

\* The other loops' tests, and the rest of its own, are still to be run.
LEMMA RunTestSticks ==
  ASSUME EngInv, StickInv, NEW e \in Execs, NEW w \in Workers, RunTest(e, w)
  PROVE  StickKnown(e)'
<1>t. /\ results \in [Execs -> [Tests -> {"none", "passed", "failed"}]]
      /\ status \in [Execs -> {"queued", "pending", "passed", "failed"}]
      /\ loops \in [Execs -> [Workers -> Loop]]
  BY DEF EngInv, TypeOK
<1>1. requests' = requests /\ phase' = phase
  BY DEF RunTest
<1>2. phase[e] # "new"
  BY DEF RunTest, EngInv, PhaseKnown
<1>3. status'[e] = StatusOf(results'[e])
  <2>1. PICK ok \in BOOLEAN : Record(e, Current(e, w), ok)
    BY DEF RunTest
  <2> QED BY <1>t, <2>1 DEF Record
<1>4. status'[e] = "failed" => \E t \in Tests : results'[e][t] = "failed"
  BY <1>3, StatusFailed
<1>5. ASSUME Single(e)
      PROVE  /\ Apart(loops'[e])
             /\ \A v \in Workers : Pending(loops'[e][v], results'[e]) /\ loops'[e][v].pc # "retry"
  <2> DEFINE l == loops[e][w]
             c == Current(e, w)
  <2>0. /\ l \in Loop /\ l.tests \in Seq(Tests) /\ l.at \in Nat /\ l.at < Len(l.tests)
        /\ l.pc = "test"
    BY LoopIs DEF RunTest
  <2>1. Continue(e, w) /\ \A t \in Tests : t # c => results'[e][t] = results[e][t]
    BY <1>5, <1>t, RunsOnce
  <2>2. PICK l2 : l2 = [l EXCEPT !.pc = "test", !.at = l.at + 1]
    OBVIOUS
  <2>3. l2.pc = "test" /\ l2.tests = l.tests /\ l2.at = l.at + 1
    BY <2>0, <2>2 DEF Loop
  <2>4. /\ loops'[e][w] = l2
        /\ \A v \in Workers \ {w} : loops'[e][v] = loops[e][v]
    BY <1>t, <2>1, <2>2 DEF Continue
  <2>5. Apart(loops[e]) /\ \A v \in Workers : Pending(loops[e][v], results[e])
                                              /\ loops[e][v].pc # "retry"
    BY <1>5 DEF StickInv, StickKnown
  <2>6. \A v \in Workers : /\ loops'[e][v].tests = loops[e][v].tests
                           /\ loops'[e][v].pc # "none" => loops[e][v].pc # "none"
                           /\ loops'[e][v].pc # "retry"
    BY <2>0, <2>3, <2>4, <2>5
  <2>7. Apart(loops'[e])
    BY <2>5, <2>6 DEF Apart
  <2>8. l.at + 1 \in DOMAIN l.tests /\ c = l.tests[l.at + 1]
    BY <2>0 DEF Current
  <2>9. ASSUME NEW v \in Workers, loops'[e][v].pc # "none", NEW k \in DOMAIN loops'[e][v].tests,
               k > loops'[e][v].at
        PROVE  results'[e][loops'[e][v].tests[k]] = "none"
    <3> DEFINE t == loops[e][v].tests[k]
    <3>1. loops'[e][v].tests[k] = t /\ k \in DOMAIN loops[e][v].tests
          /\ loops[e][v].pc # "none"
      BY <2>6, <2>9
    <3>2. t \in Tests /\ k \in Nat
      BY <3>1, LoopIs
    <3>3. k > loops[e][v].at /\ t # c
      <4>1. CASE v = w
        <5>1. k > l.at + 1
          BY <2>3, <2>4, <2>9, <4>1
        <5>2. k > l.at /\ k # l.at + 1
          BY <2>0, <3>2, <5>1
        <5> QED BY <2>0, <2>5, <2>8, <3>1, <4>1, <5>2 DEF Apart
      <4>2. CASE v # w
        <5>1. k > loops[e][v].at
          BY <2>4, <2>9, <4>2
        <5> QED BY <2>0, <2>5, <2>8, <3>1, <4>2, <5>1 DEF Apart
      <4> QED BY <4>1, <4>2
    <3>4. results[e][t] = "none"
      BY <2>5, <3>1, <3>3 DEF Pending
    <3> HIDE DEF t, c
    <3> QED BY <2>1, <3>1, <3>2, <3>3, <3>4
  <2>10. \A v \in Workers : Pending(loops'[e][v], results'[e])
    BY <2>9 DEF Pending
  <2> QED BY <2>6, <2>7, <2>10
<1>6. Single(e)' = Single(e)
  BY <1>1 DEF Single
<1> QED BY <1>1, <1>2, <1>4, <1>5, <1>6 DEF StickKnown

\* A loop that moves without running a test.
LEMMA MoveSticks ==
  ASSUME EngInv, StickInv, NEW e \in Execs, NEW w \in Workers,
         Begin(e, w) \/ EndLoop(e, w) \/ RetryThrows(e, w)
  PROVE  StickKnown(e)'
<1>1. PICK pc \in {"test", "ended", "threw"} : loops' = [loops EXCEPT ![e][w].pc = pc]
  BY DEF Begin, EndLoop, RetryThrows
<1>2. /\ UNCHANGED <<requests, results, status>> /\ loops[e][w].pc \in {"ready", "test", "retry"}
      /\ phase'[e] = phase[e] \/ phase'[e] = "rejected"
  BY DEF Begin, EndLoop, RetryThrows, EngInv, TypeOK
<1>3. loops \in [Execs -> [Workers -> Loop]]
  BY DEF EngInv, TypeOK
<1>4. \A v \in Workers : /\ loops'[e][v].tests = loops[e][v].tests
                         /\ loops'[e][v].at = loops[e][v].at
                         /\ loops'[e][v].pc # "none" => loops[e][v].pc # "none"
                         /\ loops'[e][v].pc = "retry" => loops[e][v].pc = "retry"
  <2>1. PICK l2 : l2 = [loops[e][w] EXCEPT !.pc = pc]
    OBVIOUS
  <2>2. l2.pc = pc /\ l2.tests = loops[e][w].tests /\ l2.at = loops[e][w].at
    BY <1>3, <2>1 DEF Loop
  <2>3. /\ loops'[e][w] = l2
        /\ \A v \in Workers \ {w} : loops'[e][v] = loops[e][v]
    BY <1>1, <1>3, <2>1
  <2> QED BY <1>2, <2>2, <2>3
<1>5. StickKnown(e)
  BY DEF StickInv
<1>6. Single(e)' = Single(e)
  BY <1>2 DEF Single
<1>7. Single(e) => /\ Apart(loops'[e])
                   /\ \A v \in Workers : /\ Pending(loops'[e][v], results'[e])
                                         /\ loops'[e][v].pc # "retry"
  BY <1>2, <1>4, <1>5 DEF StickKnown, Apart, Pending
<1> QED BY <1>2, <1>5, <1>6, <1>7 DEF StickKnown

\* A retry is none of an execution without retries.
LEMMA RetrySticks ==
  ASSUME EngInv, StickInv, NEW e \in Execs, NEW w \in Workers, Retry(e, w)
  PROVE  StickKnown(e)'
<1>t. /\ results \in [Execs -> [Tests -> {"none", "passed", "failed"}]]
      /\ status \in [Execs -> {"queued", "pending", "passed", "failed"}]
  BY DEF EngInv, TypeOK
<1>1. requests' = requests /\ phase' = phase /\ requests[e].retries = "on"
  BY DEF Retry
<1>2. phase[e] # "new" /\ ~Single(e)'
  BY <1>1 DEF Retry, EngInv, PhaseKnown, Single
<1>3. status'[e] = StatusOf(results'[e])
  <2>1. PICK ok \in BOOLEAN : Record(e, Current(e, w), ok)
    BY DEF Retry
  <2> QED BY <1>t, <2>1 DEF Record
<1> QED BY <1>1, <1>2, <1>3, StatusFailed DEF StickKnown

LEMMA StartSticks ==
  ASSUME EngInv, StickInv, NEW e \in Execs, NEW r \in Request, Start(e, r)
  PROVE  StickKnown(e)'
<1>1. PICK S : S = Assigned(r.width)
  OBVIOUS
<1>2. /\ S \in SUBSET Workers /\ phase[e] = "new" /\ requests'[e] = r
      /\ loops'[e] = LoopsOf(r, S) /\ phase'[e] # "new" /\ results' = results
  BY <1>1, StartChanges
<1>3. status'[e] = "queued"
  BY DEF Start, EngInv, TypeOK
<1>4. /\ \A t \in Tests : results[e][t] = "none"
  BY <1>2 DEF StickInv, StickKnown
<1>5. ASSUME NEW w \in Workers
      PROVE  Pending(loops'[e][w], results'[e]) /\ loops'[e][w].pc # "retry"
  <2>1. loops'[e][w] \in Loop /\ loops'[e][w].pc \in {"none", "ready"}
    BY <1>2, LoopsBegin
  <2>2. \A k \in DOMAIN loops'[e][w].tests : loops'[e][w].tests[k] \in Tests
    BY <2>1, ListsAreSequences DEF Loop
  <2> QED BY <1>2, <1>4, <2>1, <2>2 DEF Pending
<1>6. Single(e)' => Apart(loops'[e])
  BY <1>2, LoopsApart DEF Single
<1> QED BY <1>2, <1>3, <1>5, <1>6 DEF StickKnown

LEMMA EndSticks ==
  ASSUME EngInv, StickInv, NEW e \in Execs, Finish(e) \/ Cancel(e)
  PROVE  StickKnown(e)'
<1>1. /\ UNCHANGED <<requests, loops, results>> /\ phase[e] # "new" /\ phase'[e] # "new"
      /\ status'[e] = StatusOf(results[e])
  BY DEF Finish, Cancel, EngInv, TypeOK
<1>2. StickKnown(e)
  BY DEF StickInv
<1>3. Single(e)' = Single(e)
  BY <1>1 DEF Single
<1> QED BY <1>1, <1>2, <1>3, StatusFailed DEF StickKnown

\* A step is one of one execution, and touches no other.
LEMMA OneExecution ==
  ASSUME EngInv, Next
  PROVE  \E e \in Execs :
           /\ \/ \E r \in Request : Start(e, r)
              \/ \E w \in Workers : Step(e, w)
              \/ Finish(e) \/ Cancel(e)
           /\ \A f \in Execs \ {e} :
                UNCHANGED <<requests[f], phase[f], loops[f], results[f], status[f]>>
<1>1. PICK e \in Execs : \/ \E r \in Request : Start(e, r)
                         \/ \E w \in Workers : Step(e, w)
                         \/ Finish(e) \/ Cancel(e)
  BY DEF Next
<1>2. ASSUME NEW f \in Execs, f # e
      PROVE  UNCHANGED <<requests[f], phase[f], loops[f], results[f], status[f]>>
  <2> USE DEF EngInv, TypeOK
  <2>1. CASE \E r \in Request : Start(e, r)
    BY <1>2, <2>1 DEF Start
  <2>2. ASSUME NEW w \in Workers, Step(e, w)
        PROVE  UNCHANGED <<requests[f], phase[f], loops[f], results[f], status[f]>>
    BY <1>2, <2>2 DEF Step, Begin, RunTest, Retry, RetryThrows, EndLoop, Continue, Record
  <2>3. CASE Finish(e) \/ Cancel(e)
    BY <1>2, <2>3 DEF Finish, Cancel
  <2> QED BY <1>1, <2>1, <2>2, <2>3
<1> QED BY <1>1, <1>2

LEMMA StickStep == EngInv /\ StickInv /\ [Next]_vars => StickInv'
<1> SUFFICES ASSUME EngInv, StickInv, [Next]_vars, NEW f \in Execs PROVE StickKnown(f)'
  BY DEF StickInv
<1>0. StickKnown(f)
  BY DEF StickInv
<1>1. CASE UNCHANGED vars
  BY <1>0, <1>1, StickStays DEF vars
<1>2. CASE Next
  <2>1. PICK e \in Execs :
           /\ \/ \E r \in Request : Start(e, r)
              \/ \E w \in Workers : Step(e, w)
              \/ Finish(e) \/ Cancel(e)
           /\ \A g \in Execs \ {e} :
                UNCHANGED <<requests[g], phase[g], loops[g], results[g], status[g]>>
    BY <1>2, OneExecution
  <2>2. CASE f # e
    BY <1>0, <2>1, <2>2, StickStays
  <2>3. CASE f = e
    BY <2>1, <2>3, StartSticks, RunTestSticks, MoveSticks, RetrySticks, EndSticks DEF Step
  <2> QED BY <2>2, <2>3
<1> QED BY <1>1, <1>2

\* What fails stays failed.
LEMMA FailedStays ==
  ASSUME EngInv, StickInv, Next, NEW e \in Execs, status[e] = "failed", Single(e)
  PROVE  status'[e] = "failed"
<1>1. PICK t \in Tests : results[e][t] = "failed"
  BY DEF StickInv, StickKnown
<1>t. /\ results \in [Execs -> [Tests -> {"none", "passed", "failed"}]]
      /\ status \in [Execs -> {"queued", "pending", "passed", "failed"}]
  BY DEF EngInv, TypeOK
<1>2. PICK f \in Execs :
         /\ \/ \E r \in Request : Start(f, r)
            \/ \E w \in Workers : Step(f, w)
            \/ Finish(f) \/ Cancel(f)
         /\ \A g \in Execs \ {f} :
              UNCHANGED <<requests[g], phase[g], loops[g], results[g], status[g]>>
  BY OneExecution
<1>3. CASE f # e
  BY <1>2, <1>3
<1>4. ASSUME f = e, NEW r \in Request, Start(e, r) PROVE FALSE
  BY <1>4 DEF Start, StickInv, StickKnown
<1>5. ASSUME f = e, NEW w \in Workers, RunTest(e, w) PROVE status'[e] = "failed"
  <2>1. results[e][Current(e, w)] = "none"
    BY <1>5, RunsOnce
  <2>2. PICK rs : /\ \A u \in Tests : u # Current(e, w) => rs[u] = results[e][u]
                  /\ status' = [status EXCEPT ![e] = StatusOf(rs)]
    BY <1>5, RunsOnce
  <2>3. rs[t] = "failed"
    BY <1>1, <2>1, <2>2
  <2> QED BY <1>t, <2>2, <2>3, StatusFailed
<1>6. ASSUME f = e, NEW w \in Workers, Retry(e, w) PROVE FALSE
  BY <1>6 DEF Retry, Single
<1>7. ASSUME f = e, NEW w \in Workers, Begin(e, w) \/ EndLoop(e, w) \/ RetryThrows(e, w)
      PROVE  status'[e] = "failed"
  BY <1>7 DEF Begin, EndLoop, RetryThrows
<1>8. ASSUME f = e, Finish(e) \/ Cancel(e) PROVE status'[e] = "failed"
  BY <1>1, <1>8, <1>t, StatusFailed DEF Finish, Cancel
<1> QED BY <1>2, <1>3, <1>4, <1>5, <1>6, <1>7, <1>8 DEF Step

\* A failure that is not retried is the status of the execution to the end: no result of
\* another worker, no cancel and no other execution hides it.
THEOREM FailureAlwaysSticks == Spec => FailureSticks
<1> DEFINE Sticks ==
      \A e \in Execs :
        status[e] = "failed" /\ requests[e].retries = "off" /\ Distinct(requests[e].tests)
          => status'[e] = "failed"
<1>1. Init => StickInv
  <2> SUFFICES ASSUME Init, NEW e \in Execs PROVE StickKnown(e)
    BY DEF StickInv
  <2>1. requests[e].retries = "none" /\ status[e] = "pending"
    BY DEF Init, NoRequest, None
  <2> QED BY <2>1 DEF Init, StickKnown, Single
<1>2. EngInv /\ StickInv /\ [Next]_vars => [Sticks]_status
  BY FailedStays DEF Single, vars
<1> QED BY EngInitial, EngInductive, <1>1, <1>2, StickStep, PTL DEF Spec, FailureSticks
=============================================================================
