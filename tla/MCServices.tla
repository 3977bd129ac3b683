----------------------------- MODULE MCServices -----------------------------
(***************************************************************************)
(* Instances of MobileFarm, FileImport, Sessions and ExecutionsPage for    *)
(* TLC, as a sum (see MCScans): they share no state.                       *)
(***************************************************************************)
EXTENDS MobileFarm, FileImport, Sessions, ExecutionsPage

VARIABLE service   \* the part of the system whose behaviour this is

vars == <<service, farmVars, impVars, authVars, pageVars>>

Init ==
  /\ service \in {"mobile", "import", "auth", "page"}
  /\ FarmInit /\ ImportInit /\ AuthInit /\ PageInit
  /\ service # "page" => pageRequests = {} /\ pageServer = [e \in PageExecs |-> "none"]

Next ==
  /\ UNCHANGED service
  /\ \/ service = "mobile" /\ FarmNext /\ UNCHANGED <<impVars, authVars, pageVars>>
     \/ service = "import" /\ ImportNext /\ UNCHANGED <<farmVars, authVars, pageVars>>
     \/ service = "auth" /\ AuthNext /\ UNCHANGED <<farmVars, impVars, pageVars>>
     \/ service = "page" /\ PageNext /\ UNCHANGED <<farmVars, impVars, authVars>>

Spec == Init /\ [][Next]_vars

\* (No fair step of the others is enabled in the state they stay in.)
FairSpec == Spec /\ FarmFair /\ ImportFair /\ PageFair

-----------------------------------------------------------------------------
\* Every variable of the four modules keeps its type.
ServicesTypeOK == FarmTypeOK /\ ImportTypeOK /\ AuthTypeOK /\ PageTypeOK

\* An import's row, tests and mappings agree.
ImportSound == ImportCounted /\ EveryFieldMapped

\* The dialog of the page shows the row that was clicked, and how its execution ends.
DialogSound == DialogShowsClicked /\ DialogFollowed

\* An execution on the farm and an import that is being processed come to an end, and the
\* page gets to know of the end of an execution.
ServicesEnd == FarmEnds /\ ImportEnds /\ RunningIsFollowed
=============================================================================
