-------------------------- MODULE ClaimsRefinement --------------------------
(***************************************************************************)
(* MachineController implements InstanceClaims: the record is the id in    *)
(* the status the API server holds, whatever copies are under way.         *)
(***************************************************************************)
EXTENDS MachineController

Phase(i) ==
    CASE inst[i].state = "free"        -> "free"
      [] inst[i].state = "Terminating" -> "releasing"
      [] inst[i].state = "Gone"        -> "gone"
      [] OTHER                         -> "running"

Claims == INSTANCE InstanceClaims WITH
    life   <- [m \in Machines |-> obj[m].life],
    record <- [m \in Machines |-> obj[m].iid],
    owner  <- [i \in Instances |-> inst[i].owner],
    phase  <- [i \in Instances |-> Phase(i)]

\* Reconciles of several managers from stale copies, with crashes and refused
\* writes, look from outside like claims, records and releases that each
\* happen at once (actuator.go, Create, Exists and Delete; controller.go).
ImplementsClaims == Claims!Spec

============================================================================
