------------------------------ MODULE MCRecords ------------------------------
(***************************************************************************)
(* Instances of BugTracking, TestLibrary, BrowserSession and Schedules for *)
(* TLC, as a sum (see MCScans): they share no state, and their properties  *)
(* are all of safety.                                                      *)
(***************************************************************************)
EXTENDS MCBugTracking, TestLibrary, BrowserSession, Schedules

VARIABLE service   \* the part of the system whose behaviour this is

recordsVars == <<service, vars, libVars, sessVars, schedVars>>

RecordsInit ==
  /\ service \in {"bugs", "tests", "browser", "scheduler"}
  /\ Init /\ LibInit /\ SessInit /\ SchedInit

RecordsNext ==
  /\ UNCHANGED service
  /\ \/ service = "bugs" /\ Next /\ UNCHANGED <<libVars, sessVars, schedVars>>
     \/ service = "tests" /\ LibNext /\ UNCHANGED <<vars, sessVars, schedVars>>
     \/ service = "browser" /\ SessNext /\ UNCHANGED <<vars, libVars, schedVars>>
     \/ service = "scheduler" /\ SchedNext /\ UNCHANGED <<vars, libVars, sessVars>>

RecordsSpec == RecordsInit /\ [][RecordsNext]_recordsVars

\* Users, tabs, requests of a browser, rows, calls and patterns are interchangeable too.
RecordsSymmetry ==
  Symmetry \cup Permutations(LibUsers)
    \cup {f @@ g @@ h : f \in Permutations(SessUsers), g \in Permutations(SessRequests),
                        h \in Permutations(Tabs)}
    \cup {f @@ g : f \in Permutations(SchedRows), g \in Permutations(SchedCalls)}

-----------------------------------------------------------------------------
\* Every variable of the four modules keeps its type.
RecordsTypeOK == TypeOK /\ LibTypeOK /\ SessTypeOK /\ SchedTypeOK
=============================================================================
