-------------------------- MODULE ExecutionLifecycle --------------------------
(***************************************************************************)
(* What a client of the API may rely on about an execution's status: it    *)
(* changes by the client's own requests, by the sweep of a restarting      *)
(* backend, and otherwise only while work on the execution is owed; work   *)
(* that is owed is discharged in the end.                                  *)
(***************************************************************************)
CONSTANT Execs

VARIABLES
  status,  \* the status of each execution row
  owed     \* the executions with a start in progress, a live job or a worker

vars == <<status, owed>>

Exists(e) == status[e] \notin {"none", "deleted"}
To(e, s) == status' = [status EXCEPT ![e] = s]

Init == status = [e \in Execs |-> "none"] /\ owed = {}

Create(e) == status[e] = "none" /\ To(e, "PENDING") /\ owed' \in {owed, owed \cup {e}}
Submit(e) == Exists(e) /\ To(e, "PENDING") /\ owed' = owed \cup {e}
Cancel(e) == Exists(e) /\ To(e, "CANCELLED") /\ UNCHANGED owed
Delete(e) == Exists(e) /\ To(e, "deleted") /\ UNCHANGED owed

\* Whoever works on e sets it RUNNING, and PASSED or FAILED.
Advance(e) ==
  /\ e \in owed /\ Exists(e)
  /\ \E s \in {"RUNNING", "PASSED", "FAILED"} : To(e, s)
  /\ UNCHANGED owed

\* A restarting backend fails executions that are RUNNING.
Sweep ==
  /\ \E S \in SUBSET {e \in Execs : status[e] = "RUNNING"} :
       status' = [e \in Execs |-> IF e \in S THEN "FAILED" ELSE status[e]]
  /\ UNCHANGED owed

Discharge(D) == D # {} /\ owed' = owed \ D /\ UNCHANGED status

Next ==
  \/ \E e \in Execs : Create(e) \/ Submit(e) \/ Cancel(e) \/ Delete(e) \/ Advance(e)
  \/ Sweep
  \/ \E D \in SUBSET owed : Discharge(D)

Spec == Init /\ [][Next]_vars

\* Work on an execution is never owed for ever.
Served == \A e \in Execs : []<>(e \notin owed)
=============================================================================
