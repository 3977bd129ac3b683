---------------------------- MODULE TestLibrary ----------------------------
(***************************************************************************)
(* The test cases: TestsService of the backend, and the page of the        *)
(* frontend as its users' browsers have it open.  A file that is uploaded  *)
(* becomes a test for each of its cases, which the page hides, and a group *)
(* that lists them.  The page works on the list it fetched, and sends one  *)
(* request after the other, or several at once; the service keeps the      *)
(* history of a test's code and configuration, with an await between       *)
(* looking for the last version and adding the next.                       *)
(***************************************************************************)
EXTENDS Naturals, FiniteSets

CONSTANTS
  LibUsers,      \* browsers with the page open
  MaxLibTests,   \* bound: tests ever created
  MaxCases,      \* bound: cases of a file (they are sent in batches of 20)
  MaxLibSteps,   \* bound: clicks
  MaxLibFaults   \* bound: requests and calls to the database that fail

ASSUME LibAssumption == {MaxLibTests, MaxCases, MaxLibSteps, MaxLibFaults} \subseteq Nat

VARIABLES
  libRows,      \* table tests
  libVersions,  \* table test_versions
  libLists,     \* testCases of each browser
  libCalls,     \* what each browser is waiting for
  libCrossed,   \* tests two updates of which have overlapped
  libReleased,  \* cases of groups that were edited
  libSteps,
  libFaults

libVars == <<libRows, libVersions, libLists, libCalls, libCrossed, libReleased, libSteps,
             libFaults>>

-----------------------------------------------------------------------------
LibIds == 1..MaxLibTests

\* What a test is, by _isGroup, _childTestIds and _sourceFileName in its config.
Config == [kind : {"none", "child", "group", "plain", "deleted"}, kids : SUBSET LibIds]
NoConfig == [kind |-> "none", kids |-> {}]

\* rev stands for code and config: the click that made them, or 0 without code.
LibRow  == [config : Config, rev : 0..MaxLibSteps]
Version == [test : LibIds, number : Nat, rev : 0..MaxLibSteps]

\* left: requests to make; todo: requests to delete; last: the last version's number.
LibCall ==
  [pc : {"idle", "children", "failed", "kids", "self", "bulk", "read", "write", "max", "version"},
   test : LibIds \cup {0}, kids : SUBSET LibIds, todo : SUBSET LibIds, left : 0..MaxCases,
   op : {"none", "edit", "save", "generate", "upload"}, rev : 0..MaxLibSteps, last : Nat]
NoLibCall == [pc |-> "idle", test |-> 0, kids |-> {}, todo |-> {}, left |-> 0, op |-> "none",
              rev |-> 0, last |-> 0]

LibInit ==
  /\ libRows = [t \in LibIds |-> [config |-> NoConfig, rev |-> 0]]
  /\ libVersions = {}
  /\ libLists = [u \in LibUsers |-> [t \in LibIds |-> NoConfig]]
  /\ libCalls = [u \in LibUsers |-> NoLibCall]
  /\ libCrossed = {} /\ libReleased = {} /\ libSteps = 0 /\ libFaults = 0

Exists(t) == libRows[t].config.kind \notin {"none", "deleted"}

\* displayedTestCases: the cases of a file are hidden.
Displayed(u) == {t \in LibIds : libLists[u][t].kind \in {"group", "plain"}}

\* The id of the next test (a uuid).
NextTest == CHOOSE t \in LibIds \cup {MaxLibTests + 1} :
              \A s \in LibIds : libRows[s].config.kind = "none" <=> s >= t

Click(u) ==
  /\ libCalls[u].pc = "idle"
  /\ libSteps < MaxLibSteps /\ libSteps' = libSteps + 1
LibFault == libFaults < MaxLibFaults /\ libFaults' = libFaults + 1
LibEnds(u) == libCalls' = [libCalls EXCEPT ![u] = NoLibCall]
LibGoto(u, pc) == libCalls' = [libCalls EXCEPT ![u].pc = pc]

\* fetchTestCases, on mounting the page and after each operation.
Refetch(u) ==
  /\ libCalls[u].pc = "idle"
  /\ libLists' = [libLists EXCEPT ![u] = [t \in LibIds |->
       IF Exists(t) THEN libRows[t].config ELSE NoConfig]]
  /\ UNCHANGED <<libRows, libVersions, libCalls, libCrossed, libReleased, libSteps, libFaults>>

-----------------------------------------------------------------------------
(* handleNext: the upload.                                                 *)

\* A request for each case, all at once.
Upload(u, n) ==
  /\ Click(u)
  /\ libCalls' = [libCalls EXCEPT ![u] =
       [NoLibCall EXCEPT !.pc = "children", !.left = n, !.op = "upload", !.rev = libSteps + 1]]
  /\ UNCHANGED <<libRows, libVersions, libLists, libCrossed, libReleased, libFaults>>

\* A case has its test; after a failure nobody waits for it any more.
CreateChild(u) ==
  LET c == libCalls[u] IN
  /\ c.pc \in {"children", "failed"} /\ c.left > 0 /\ NextTest \in LibIds
  /\ libRows' = [libRows EXCEPT ![NextTest].config.kind = "child"]
  /\ libCalls' = [libCalls EXCEPT ![u] =
       IF c.pc = "failed" /\ c.left = 1 THEN NoLibCall
       ELSE [c EXCEPT !.left = c.left - 1, !.kids = c.kids \cup {NextTest}]]
  /\ UNCHANGED <<libVersions, libLists, libCrossed, libReleased, libSteps, libFaults>>

CreateChildFails(u) ==
  LET c == libCalls[u] IN
  /\ c.pc \in {"children", "failed"} /\ c.left > 0 /\ LibFault
  /\ libCalls' = [libCalls EXCEPT ![u] =
       IF c.left = 1 THEN NoLibCall ELSE [c EXCEPT !.left = c.left - 1, !.pc = "failed"]]
  /\ UNCHANGED <<libRows, libVersions, libLists, libCrossed, libReleased, libSteps>>

\* The group, with the file as its code if that is a script.
CreateParent(u) ==
  LET c == libCalls[u] IN
  /\ c.pc = "children" /\ c.left = 0 /\ NextTest \in LibIds
  /\ \E code \in BOOLEAN :
       /\ libRows' = [libRows EXCEPT ![NextTest] =
            [config |-> [kind |-> "group", kids |-> c.kids], rev |-> IF code THEN c.rev ELSE 0]]
       /\ libCalls' = [libCalls EXCEPT ![u] =
            IF code THEN [c EXCEPT !.pc = "max", !.test = NextTest] ELSE NoLibCall]
  /\ UNCHANGED <<libVersions, libLists, libCrossed, libReleased, libSteps, libFaults>>

-----------------------------------------------------------------------------
(* Deleting.                                                               *)

\* Mutant: the cases stay.
DeleteTestOnly(u, t) ==
  /\ Click(u) /\ t \in Displayed(u)
  /\ libCalls' = [libCalls EXCEPT ![u] = [NoLibCall EXCEPT !.pc = "self", !.test = t]]
  /\ UNCHANGED <<libRows, libVersions, libLists, libCrossed, libReleased, libFaults>>

\* handleDeleteTestCase: a request for each case of the group as the list has it, then one
\* for the test.
DeleteTest(u, t) ==
  /\ Click(u) /\ t \in Displayed(u)
  /\ libCalls' = [libCalls EXCEPT ![u] =
       [NoLibCall EXCEPT !.pc = IF libLists[u][t].kids = {} THEN "self" ELSE "kids",
                         !.test = t, !.todo = libLists[u][t].kids]]
  /\ UNCHANGED <<libRows, libVersions, libLists, libCrossed, libReleased, libFaults>>

\* handleBulkDelete: the selected tests and all their cases at once.
BulkDelete(u, S) ==
  /\ Click(u) /\ S \subseteq Displayed(u) /\ Cardinality(S) > 1
  /\ libCalls' = [libCalls EXCEPT ![u] =
       [NoLibCall EXCEPT !.pc = "bulk", !.todo = S \cup UNION {libLists[u][t].kids : t \in S}]]
  /\ UNCHANGED <<libRows, libVersions, libLists, libCrossed, libReleased, libFaults>>

\* One of the requests, or the one for the test itself.  A failure is swallowed, and so is
\* the 404 of a test that is gone; the versions go with the test.
DeleteOne(u, t) ==
  LET c == libCalls[u] IN
  /\ \/ c.pc \in {"kids", "bulk"} /\ t \in c.todo
     \/ c.pc = "self" /\ t = c.test
  /\ libCalls' = [libCalls EXCEPT ![u] =
       IF c.pc = "self" \/ (c.pc = "bulk" /\ c.todo = {t}) THEN NoLibCall
       ELSE [c EXCEPT !.pc = IF c.todo = {t} THEN "self" ELSE c.pc, !.todo = c.todo \ {t}]]
  /\ \/ /\ libRows' = [libRows EXCEPT ![t] =
             [config |-> [kind |-> "deleted", kids |-> {}], rev |-> 0]]
        /\ libVersions' = {v \in libVersions : v.test # t}
        /\ UNCHANGED libFaults
     \/ LibFault /\ UNCHANGED <<libRows, libVersions>>
  /\ UNCHANGED <<libLists, libCrossed, libReleased, libSteps>>

-----------------------------------------------------------------------------
(* update, saveCode, create with code, and the versions.                   *)

\* handleSaveEdit: the dialog keeps url and steps of the config.
Edit(u, t) ==
  /\ Click(u) /\ t \in Displayed(u)
  /\ libCalls' = [libCalls EXCEPT ![u] =
       [NoLibCall EXCEPT !.pc = "read", !.test = t, !.op = "edit", !.rev = libSteps + 1]]
  /\ UNCHANGED <<libRows, libVersions, libLists, libCrossed, libReleased, libFaults>>

\* generateFromText: a test with the code the AI engine wrote, which is then saved again.
Generate(u) ==
  /\ Click(u) /\ NextTest \in LibIds
  /\ libRows' = [libRows EXCEPT ![NextTest] =
       [config |-> [kind |-> "plain", kids |-> {}], rev |-> libSteps + 1]]
  /\ libCalls' = [libCalls EXCEPT ![u] =
       [NoLibCall EXCEPT !.pc = "max", !.test = NextTest, !.op = "generate", !.rev = libSteps + 1]]
  /\ UNCHANGED <<libVersions, libLists, libCrossed, libReleased, libFaults>>

\* Whether another request is between reading the test and adding its version.
Updating(u, t) ==
  \E v \in LibUsers \ {u} : libCalls[v].test = t /\ libCalls[v].pc \in {"write", "max", "version"}

\* findUnique: 404 if there is no such test.
ReadTest(u) ==
  LET c == libCalls[u] IN
  /\ c.pc = "read"
  /\ IF Exists(c.test) THEN LibGoto(u, "write") ELSE LibEnds(u)
  /\ libCrossed' = IF Updating(u, c.test) THEN libCrossed \cup {c.test} ELSE libCrossed
  /\ UNCHANGED <<libRows, libVersions, libLists, libReleased, libSteps, libFaults>>

\* A group that is edited is a group no longer.  (The row may be gone: P2025.)
WriteTest(u) ==
  LET c == libCalls[u] IN
  /\ c.pc = "write"
  /\ IF Exists(c.test) THEN
       /\ libRows' = [libRows EXCEPT ![c.test] =
            [config |-> IF c.op = "edit" THEN [kind |-> "plain", kids |-> {}]
                        ELSE libRows[c.test].config,
             rev |-> c.rev]]
       /\ libReleased' = IF c.op = "edit" THEN libReleased \cup libRows[c.test].config.kids
                         ELSE libReleased
       /\ LibGoto(u, "max")
     ELSE LibEnds(u) /\ UNCHANGED <<libRows, libReleased>>
  /\ UNCHANGED <<libVersions, libLists, libCrossed, libSteps, libFaults>>

NumbersOf(t) == {v.number : v \in {w \in libVersions : w.test = t}}
LastNumber(t) == CHOOSE n \in NumbersOf(t) \cup {0} : \A m \in NumbersOf(t) : m <= n

\* createVersion: the last version there is, 0 without one.
ReadMax(u) ==
  /\ libCalls[u].pc = "max"
  /\ libCalls' = [libCalls EXCEPT ![u] =
       [@ EXCEPT !.pc = "version", !.last = LastNumber(libCalls[u].test)]]
  /\ UNCHANGED <<libRows, libVersions, libLists, libCrossed, libReleased, libSteps, libFaults>>

\* The next one, unless its number is taken or the test is gone: the request then fails with
\* the test written.  Generated code is saved once more.
CreateVersion(u) ==
  LET c == libCalls[u]
      stored == Exists(c.test) /\ c.last + 1 \notin NumbersOf(c.test)
  IN
  /\ c.pc = "version"
  /\ libVersions' = IF stored
       THEN libVersions \cup {[test |-> c.test, number |-> c.last + 1, rev |-> c.rev]}
       ELSE libVersions
  /\ libCalls' = [libCalls EXCEPT ![u] =
       IF stored /\ c.op = "generate" THEN [c EXCEPT !.pc = "read", !.op = "save"] ELSE NoLibCall]
  /\ UNCHANGED <<libRows, libLists, libCrossed, libReleased, libSteps, libFaults>>

\* The creation of a group, or a call to the database, fails, and with it the request.
LibFails(u) ==
  LET c == libCalls[u] IN
  /\ c.pc \in {"read", "write", "max", "version"} \/ (c.pc = "children" /\ c.left = 0)
  /\ LibFault /\ LibEnds(u)
  /\ UNCHANGED <<libRows, libVersions, libLists, libCrossed, libReleased, libSteps>>

-----------------------------------------------------------------------------
LibNext ==
  \E u \in LibUsers :
    \/ Refetch(u)
    \/ \E n \in 1..MaxCases : Upload(u, n)
    \/ CreateChild(u) \/ CreateChildFails(u) \/ CreateParent(u)
    \/ \E t \in LibIds : DeleteTest(u, t) \/ DeleteOne(u, t) \/ Edit(u, t)
    \/ \E S \in SUBSET LibIds : BulkDelete(u, S)
    \/ Generate(u) \/ ReadTest(u) \/ WriteTest(u) \/ ReadMax(u) \/ CreateVersion(u)
    \/ LibFails(u)

LibSpec == LibInit /\ [][LibNext]_libVars

-----------------------------------------------------------------------------
(* Properties.                                                             *)

LibTypeOK ==
  /\ libRows \in [LibIds -> LibRow]
  /\ libVersions \subseteq Version
  /\ libLists \in [LibUsers -> [LibIds -> Config]]
  /\ libCalls \in [LibUsers -> LibCall]
  /\ libCrossed \subseteq LibIds /\ libReleased \subseteq LibIds
  /\ libSteps \in 0..MaxLibSteps /\ libFaults \in 0..MaxLibFaults

\* A test the page hides can be reached through a group, from whatever lists users delete
\* and edit: it is listed by one, or its upload or deletion is not done, or a call failed, or its
\* group was edited, which forgets its cases (page.tsx:837).
HiddenHaveGroup ==
  \A t \in LibIds : libRows[t].config.kind = "child" =>
    \/ \E g \in LibIds : t \in libRows[g].config.kids
    \/ \E u \in LibUsers : t \in libCalls[u].kids \cup libCalls[u].todo
    \/ libFaults > 0 \/ t \in libReleased

\* The cases of a group exist ("Run All" runs them), unless the group is about to go.
CasesExist ==
  \A g \in LibIds : \A t \in libRows[g].config.kids :
    \/ Exists(t)
    \/ \E u \in LibUsers : g = libCalls[u].test \/ g \in libCalls[u].todo
    \/ libFaults > 0

\* The history of a test has no gap, and its last version is what the test has, once its
\* updates are through, unless two of them overlapped (then one of them may fail for the
\* unique number, or the older come last) or a call failed.
VersionsTell ==
  \A t \in LibIds : Exists(t) =>
    /\ NumbersOf(t) = 1..Cardinality(NumbersOf(t))
    /\ \/ libFaults > 0 \/ t \in libCrossed
       \/ \E u \in LibUsers : libCalls[u].test = t
       \/ \E v \in libVersions : v.test = t /\ v.number = LastNumber(t) /\ v.rev = libRows[t].rev
       \/ NumbersOf(t) = {} /\ libRows[t].rev = 0

\* What the page shows and what the service remembers is all there is.
LibrarySound == HiddenHaveGroup /\ CasesExist /\ VersionsTell
=============================================================================
