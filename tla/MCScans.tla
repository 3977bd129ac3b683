------------------------------- MODULE MCScans -------------------------------
(***************************************************************************)
(* Instances of LoadTests, SecurityScans, AxeScans and QueueAdmin for TLC, *)
(* as a sum: these parts of the backend write different tables and queues  *)
(* and call each other nowhere, so that a behaviour of them together is    *)
(* one of each of them, and interleaving them shows nothing more.          *)
(***************************************************************************)
EXTENDS LoadTests, SecurityScans, AxeScans, QueueAdmin

VARIABLE service   \* the module of the backend whose behaviour this is

vars == <<service, loadVars, scanVars, axeVars, queueVars>>

Init ==
  /\ service \in {"performance", "security", "accessibility", "queue"}
  /\ LoadInit /\ ScanInit /\ AxeInit /\ QueueInit
  /\ service # "security" => scanProvided
  /\ service # "queue" => queueAttempts = 3

Next ==
  /\ UNCHANGED service
  /\ \/ service = "performance" /\ LoadNext /\ UNCHANGED <<scanVars, axeVars, queueVars>>
     \/ service = "security" /\ ScanNext /\ UNCHANGED <<loadVars, axeVars, queueVars>>
     \/ service = "accessibility" /\ AxeNext /\ UNCHANGED <<loadVars, scanVars, queueVars>>
     \/ service = "queue" /\ QueueNext /\ UNCHANGED <<loadVars, scanVars, axeVars>>

Spec == Init /\ [][Next]_vars

\* (No fair step of the others is enabled in the state they stay in.)
FairSpec == Spec /\ LoadFair /\ ScanFair /\ QueueFair

-----------------------------------------------------------------------------
\* Every variable of the four modules keeps its type.
ScansTypeOK == LoadTypeOK /\ ScanTypeOK /\ AxeTypeOK /\ QueueTypeOK

\* When nothing is at work on a load test, a scan or an accessibility test any more, its
\* row says that it has ended (under the conditions of each module).
ScansSettle == SettledWhenQuiet /\ ScanSettled /\ AxeSettled

\* Nothing of a load test outlives it, and its counts and alerts are those of its own run.
LoadSound == LoadLeavesNothing /\ LoadAccounts

\* The rows that belong to a result, the vulnerabilities of a scan and the score of an
\* accessibility test, are those of one try.
ResultsOfOneTry == RowsMatchCount /\ ScoreIsOfOneScan

\* A load test that was started, a scan that was queued and a job that was added come to an
\* end.
ScansEnd == LoadEnds /\ ScanEnds /\ QueueEnds
=============================================================================
