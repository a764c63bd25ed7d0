-------------------------- MODULE MCMachineStatus --------------------------
(***************************************************************************)
(* Values for the constants of MachineStatus.                              *)
(***************************************************************************)
EXTENDS MachineStatus

\* Not targeted, targeted with the pre-flight check, and without it.
SomeSpecs == {[targeted |-> FALSE, allowUnhealthy |-> FALSE]}
             \cup {[targeted |-> TRUE, allowUnhealthy |-> a] : a \in BOOLEAN}

\* Each severity, alone and mixed, and what no rule recognises.
SomeAlerts == {<<>>,
               <<{"warning"}>>,
               <<{"other"}>>,
               <<{"warning"}, {"critical", "warning", "remediating"}>>}

\* Runs that ended in the order listed and in the other one, and a run under
\* way listed before and after one that ended.
Ended(t, good) == [end |-> t, good |-> good]
UnderWay == [end |-> 0, good |-> FALSE]
SomeRuns == {<<>>,
             <<UnderWay, Ended(1, TRUE)>>,
             <<Ended(1, TRUE), Ended(2, FALSE)>>,
             <<Ended(2, TRUE), Ended(1, FALSE), UnderWay>>}

============================================================================
