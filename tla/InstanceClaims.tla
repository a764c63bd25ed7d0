--------------------------- MODULE InstanceClaims ---------------------------
(***************************************************************************)
(* What the provider promises about instances, without its reconciles,     *)
(* copies and calls: an instance is made for one Machine, a Machine        *)
(* records at most one of those made for it, changes the record only after *)
(* the instance is gone, has a running instance released only while it is  *)
(* being deleted, and leaves only when what it records is on its way out.  *)
(* An instance nobody records may run on: the promise is about recorded    *)
(* instances.  ClaimsRefinement shows that MachineController keeps it.     *)
(***************************************************************************)
CONSTANTS Machines, Instances, None

VARIABLES
    life,    \* of a Machine: "absent", "live", "deleting" or "gone"
    record,  \* the instance a Machine records, or None
    owner,   \* the Machine an instance was made for, or None
    phase    \* of an instance: "free", "running", "releasing" or "gone"

claims == <<life, record, owner, phase>>

Init ==
    /\ life = [m \in Machines |-> "absent"]
    /\ record = [m \in Machines |-> None]
    /\ owner = [i \in Instances |-> None]
    /\ phase = [i \in Instances |-> "free"]

Appear(m) ==
    /\ life[m] = "absent"
    /\ life' = [life EXCEPT ![m] = "live"]
    /\ UNCHANGED <<record, owner, phase>>

\* A Machine comes with the instance it had under an older release.
Adopt(m, i) ==
    /\ life[m] = "absent"
    /\ phase[i] = "free"
    /\ life' = [life EXCEPT ![m] = "live"]
    /\ record' = [record EXCEPT ![m] = i]
    /\ owner' = [owner EXCEPT ![i] = m]
    /\ phase' = [phase EXCEPT ![i] = "running"]

\* Also for a Machine that has left by the time the request gets through.
Claim(m, i) ==
    /\ life[m] # "absent"
    /\ phase[i] = "free"
    /\ owner' = [owner EXCEPT ![i] = m]
    /\ phase' = [phase EXCEPT ![i] = "running"]
    /\ UNCHANGED <<life, record>>

Record(m, i) ==
    /\ life[m] = "live"
    /\ owner[i] = m
    /\ record[m] # None => phase[record[m]] = "gone"
    /\ record' = [record EXCEPT ![m] = i]
    /\ UNCHANGED <<life, owner, phase>>

RequestDeletion(m) ==
    /\ life[m] = "live"
    /\ life' = [life EXCEPT ![m] = "deleting"]
    /\ UNCHANGED <<record, owner, phase>>

Release(m) ==
    /\ life[m] = "deleting"
    /\ record[m] # None
    /\ phase[record[m]] = "running"
    /\ phase' = [phase EXCEPT ![record[m]] = "releasing"]
    /\ UNCHANGED <<life, record, owner>>

\* NICo completes a release, or loses the instance.
Depart(i) ==
    /\ phase[i] \in {"running", "releasing"}
    /\ phase' = [phase EXCEPT ![i] = "gone"]
    /\ UNCHANGED <<life, record, owner>>

Leave(m) ==
    /\ life[m] \in {"live", "deleting"}
    /\ record[m] # None => phase[record[m]] \in {"releasing", "gone"}
    /\ life' = [life EXCEPT ![m] = "gone"]
    /\ record' = [record EXCEPT ![m] = None]
    /\ UNCHANGED <<owner, phase>>

Next ==
    \/ \E m \in Machines :
        \/ Appear(m) \/ RequestDeletion(m) \/ Release(m) \/ Leave(m)
        \/ \E i \in Instances : Adopt(m, i) \/ Claim(m, i) \/ Record(m, i)
    \/ \E i \in Instances : Depart(i)

Spec == Init /\ [][Next]_claims

============================================================================
