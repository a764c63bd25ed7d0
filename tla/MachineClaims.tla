--------------------------- MODULE MachineClaims ---------------------------
(***************************************************************************)
(* What comments and tests of the repository say of the machine controller *)
(* and the code does not keep.  Each is checked by a run of its own, which *)
(* finds a behaviour of MachineController that breaks it.                  *)
(***************************************************************************)
EXTENDS MCMachineController

InstancesOf(m) == {i \in Instances : Alive(i) /\ inst[i].owner = m}

\* "Delete deprovisions the instance" (actuator.go:696): when the finalizer
\* has let the Machine go, no instance made for it is still running.
NoInstanceOutlivesMachine ==
    \A m \in Machines : obj[m].life = "gone" => InstancesOf(m) = {}

\* "Verifying provider ID is set" (live_test.go:171) on a Machine whose status
\* has an instance id, and "DPU Extension Services to deploy after instance
\* creation" (types.go:100): what Create does after the status update is done
\* in the end, for a Machine and an instance that stay.
CreateEventuallyCompletes ==
    \A m \in Machines : LET i == obj[m].iid IN
        obj[m].life = "live" /\ i # None
            ~> \/ obj[m].life # "live" \/ i = None \/ ~Alive(i)
               \/ obj[m].pid = i /\ (m \in WithDpu => inst[i].dpu)

\* "Number of machines currently managed by this provider" (metrics.go:43):
\* the gauge is never below zero.
ManagedIsACount == \A w \in Managers : managed[w] >= 0

\* "cleans up any k8s-mhc health report we previously created" when a machine
\* recovers (actuator.go:1713): the report of a host that has nothing else
\* wrong with it and that serves another Machine goes away.
ReportEventuallyCleared ==
    \A h \in Hosts :
        (<>[](fault[h] = "none" /\ \E m \in Machines :
                /\ obj[m].life = "live"
                /\ obj[m].iid # None /\ inst[obj[m].iid].host = h))
            => []<>(h \notin mhc)

\* "Nothing to delete" (actuator.go:716): a Machine without an instance id is
\* let go when it is deleted.
NothingToDeleteGoes ==
    \A m \in Machines :
        obj[m].life = "deleting" /\ obj[m].iid = None ~> obj[m].life = "gone"

============================================================================
