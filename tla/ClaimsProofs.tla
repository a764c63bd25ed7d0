---------------------------- MODULE ClaimsProofs ----------------------------
(***************************************************************************)
(* Proof that MachineController implements InstanceClaims: every step maps *)
(* to one of its actions, or to none, whatever copies the reconciles work  *)
(* from.  The invariant is that of MachineControllerProofs.                *)
(***************************************************************************)
EXTENDS ClaimsRefinement, MachineControllerProofs

----------------------------------------------------------------------------
(* The actions of InstanceClaims, read from objects and instances.         *)

\* What InstanceClaims sees of the Machines, and of the instances, is as before.
SameMachine(m) == obj'[m].life = obj[m].life /\ obj'[m].iid = obj[m].iid
SameInstance(i) == inst'[i].owner = inst[i].owner /\ Phase(i)' = Phase(i)

LEMMA MapsToStutter ==
    ASSUME \A m \in Machines : SameMachine(m),
           \A i \in Instances : SameInstance(i)
    PROVE  UNCHANGED Claims!claims
  BY DEF SameMachine, SameInstance, Claims!claims

LEMMA MapsToAppear ==
    ASSUME NEW m \in Machines, obj[m].life = "absent", obj'[m].life = "live",
           obj'[m].iid = obj[m].iid,
           \A n \in Machines \ {m} : SameMachine(n),
           \A i \in Instances : SameInstance(i)
    PROVE  Claims!Appear(m)
  BY DEF SameMachine, SameInstance, Claims!Appear

LEMMA MapsToAdopt ==
    ASSUME NEW m \in Machines, NEW i \in Instances,
           obj[m].life = "absent", obj'[m].life = "live", obj'[m].iid = i,
           Phase(i) = "free", Phase(i)' = "running", inst'[i].owner = m,
           \A n \in Machines \ {m} : SameMachine(n),
           \A j \in Instances \ {i} : SameInstance(j)
    PROVE  Claims!Adopt(m, i)
  BY DEF SameMachine, SameInstance, Claims!Adopt

LEMMA MapsToClaim ==
    ASSUME NEW m \in Machines, NEW i \in Instances, obj[m].life # "absent",
           Phase(i) = "free", Phase(i)' = "running", inst'[i].owner = m,
           \A n \in Machines : SameMachine(n),
           \A j \in Instances \ {i} : SameInstance(j)
    PROVE  Claims!Claim(m, i)
  BY DEF SameMachine, SameInstance, Claims!Claim

LEMMA MapsToRecord ==
    ASSUME NEW m \in Machines, NEW i \in Instances,
           obj[m].life = "live", inst[i].owner = m,
           obj[m].iid \in Ids, obj[m].iid # None => Phase(obj[m].iid) = "gone",
           obj'[m].life = "live", obj'[m].iid = i,
           \A n \in Machines \ {m} : SameMachine(n),
           \A j \in Instances : SameInstance(j)
    PROVE  Claims!Record(m, i)
  BY DEF SameMachine, SameInstance, Claims!Record, Ids

LEMMA MapsToRequestDeletion ==
    ASSUME NEW m \in Machines, obj[m].life = "live", obj'[m].life = "deleting",
           obj'[m].iid = obj[m].iid,
           \A n \in Machines \ {m} : SameMachine(n),
           \A j \in Instances : SameInstance(j)
    PROVE  Claims!RequestDeletion(m)
  BY DEF SameMachine, SameInstance, Claims!RequestDeletion

LEMMA MapsToRelease ==
    ASSUME NEW m \in Machines, obj[m].life = "deleting",
           obj[m].iid \in Instances, obj[m].iid # None,
           Phase(obj[m].iid) = "running", Phase(obj[m].iid)' = "releasing",
           inst'[obj[m].iid].owner = inst[obj[m].iid].owner,
           \A n \in Machines : SameMachine(n),
           \A j \in Instances \ {obj[m].iid} : SameInstance(j)
    PROVE  Claims!Release(m)
  BY DEF SameMachine, SameInstance, Claims!Release

LEMMA MapsToDepart ==
    ASSUME NEW i \in Instances,
           Phase(i) \in {"running", "releasing"}, Phase(i)' = "gone",
           inst'[i].owner = inst[i].owner,
           \A n \in Machines : SameMachine(n),
           \A j \in Instances \ {i} : SameInstance(j)
    PROVE  Claims!Depart(i)
  BY DEF SameMachine, SameInstance, Claims!Depart

LEMMA MapsToLeave ==
    ASSUME NEW m \in Machines, obj[m].life \in {"live", "deleting"},
           obj[m].iid \in Ids,
           obj[m].iid # None => Phase(obj[m].iid) \in {"releasing", "gone"},
           obj'[m].life = "gone", obj'[m].iid = None,
           \A n \in Machines \ {m} : SameMachine(n),
           \A j \in Instances : SameInstance(j)
    PROVE  Claims!Leave(m)
  BY DEF SameMachine, SameInstance, Claims!Leave, Ids

----------------------------------------------------------------------------
(* What the steps of MachineController map to.                             *)

Maps == Claims!Next \/ UNCHANGED Claims!claims

\* How the state of an instance decides its phase.
LEMMA PhaseOf ==
    ASSUME NEW i, TRUE
    PROVE  /\ inst[i].state = "free" => Phase(i) = "free"
           /\ inst[i].state = "Terminating" => Phase(i) = "releasing"
           /\ inst[i].state = "Gone" => Phase(i) = "gone"
           /\ inst[i].state \notin {"free", "Terminating", "Gone"} => Phase(i) = "running"
  BY DEF Phase

LEMMA SameState ==
    ASSUME NEW i, inst'[i].state = inst[i].state, inst'[i].owner = inst[i].owner
    PROVE  SameInstance(i)
  BY DEF SameInstance, Phase

\* A step that touches neither objects nor instances, or of an object none of
\* the fields that count.
LEMMA NothingSeen ==
    ASSUME inst' = inst, obj' = obj
    PROVE  Maps
  <1>1. \A m \in Machines : SameMachine(m)
    BY DEF SameMachine
  <1>2. \A i \in Instances : SameInstance(i)
    BY SameState
  <1> QED
    BY <1>1, <1>2, MapsToStutter DEF Maps

LEMMA OneObject ==
    ASSUME TypeOK, NEW m \in Machines, NEW new, Commit(m, new)
    PROVE  obj'[m] = new /\ \A n \in Machines \ {m} : SameMachine(n)
  BY DEF Commit, TypeOK, SameMachine

LEMMA UnseenWrite ==
    ASSUME TypeOK, NEW m \in Machines, NEW new, Commit(m, new), inst' = inst,
           new.life = obj[m].life, new.iid = obj[m].iid
    PROVE  Maps
  <1>1. \A n \in Machines : SameMachine(n)
    BY OneObject DEF SameMachine
  <1>2. \A i \in Instances : SameInstance(i)
    BY SameState
  <1> QED
    BY <1>1, <1>2, MapsToStutter DEF Maps

LEMMA ReconcileMaps ==
    ASSUME IInv, NEW w \in Managers, NEW m \in Machines,
           Reconcile(w, m) \/ CacheSync(w, m)
    PROVE  Maps
  <1> USE DEF machineVars, nicoVars
  <1>1. CASE AddFinalizer(w, m)
    <2>1. cache[w][m] = obj[m] /\ obj[m] \in MachineType /\ TypeOK
      BY <1>1 DEF AddFinalizer, IInv, CurrentOK, TypeOK
    <2> DEFINE new == [cache[w][m] EXCEPT !.fin = @ \cup {"nico"}]
    <2>2. new.iid = obj[m].iid /\ new.life = obj[m].life
      BY <2>1 DEF MachineType
    <2>3. Commit(m, new) /\ inst' = inst
      BY <1>1 DEF AddFinalizer
    <2> HIDE DEF new
    <2> QED
      BY <2>1, <2>2, <2>3, UnseenWrite
  <1>2. CASE Exists(w, m) \/ ReconcileDelete(w, m) \/ CacheSync(w, m)
    BY <1>2, NothingSeen DEF Exists, ReconcileDelete, CacheSync
  <1> QED
    BY <1>1, <1>2 DEF Reconcile

\* The steps of a reconcile that only read, return, or fail.
LEMMA QuietMaps ==
    ASSUME NEW w \in Managers,
           \/ CreateInvalid(w) \/ PreFlight(w) \/ CreateRefused(w)
           \/ UpdateGetInstance(w) \/ UpdateHealthFromReports(w)
           \/ ClearReport(w) \/ ReportMHC(w) \/ Conflict(w) \/ Failure(w)
    PROVE  Maps
  <1>1. inst' = inst /\ obj' = obj
    BY DEF machineVars, nicoVars, Failure, CreateInvalid, PreFlight, PreFlightBlind,
       CreateRefused, CreateRejected, UpdateGetInstance, UpdateHealthFromReports,
       UpdateHealthFromJSONB, ClearReport, ClearReportFails, ReportMHC,
       ReportMHCFails, Conflict, CallFails, Crash
  <1> QED
    BY <1>1, NothingSeen

\* The writes that leave the recorded instance and the deletion alone.
LEMMA StatusMaps ==
    ASSUME IInv, NEW w \in Managers,
           \/ PersistBlocked(w) \/ CreateSetProviderID(w)
           \/ UpdateLabels(w) \/ UpdateSetStatus(w)
    PROVE  Maps
  <1> DEFINE o == wk[w].o
             m == wk[w].m
  <1>0. TypeOK /\ wk[w].pc # "idle" /\ w \in base /\ inst' = inst
    BY DEF IInv, PersistBlocked, CreateSetProviderID, UpdateLabels, UpdateSetStatus,
       WriteAndReturn, WriteAndContinue, nicoVars
  <1>1. m \in Machines /\ o \in MachineType /\ o = obj[m]
    BY <1>0, Knows
  <1>2. ASSUME NEW new, Commit(m, new), new.life = o.life, new.iid = o.iid
        PROVE  Maps
    BY <1>0, <1>1, <1>2, UnseenWrite
  <1>3. CASE PersistBlocked(w)
    <2>1. BlockedStatus(o).life = o.life /\ BlockedStatus(o).iid = o.iid
      BY <1>1 DEF BlockedStatus, MachineType
    <2> QED
      BY <1>2, <1>3, <2>1 DEF PersistBlocked, WriteAndReturn
  <1>4. CASE CreateSetProviderID(w)
    <2>1. /\ WithProviderID(o, wk[w].i).life = o.life
          /\ WithProviderID(o, wk[w].i).iid = o.iid
      BY <1>1 DEF WithProviderID, MachineType
    <2> QED
      BY <1>2, <1>4, <2>1 DEF CreateSetProviderID, WriteAndReturn, WriteAndContinue
  <1>5. CASE UpdateLabels(w)
    <2>1. /\ [o EXCEPT !.lab = LabelAfter(o, wk[w].h)].life = o.life
          /\ [o EXCEPT !.lab = LabelAfter(o, wk[w].h)].iid = o.iid
      BY <1>1 DEF MachineType
    <2> QED
      BY <1>2, <1>5, <2>1 DEF UpdateLabels, WriteAndContinue
  <1>6. CASE UpdateSetStatus(w)
    <2>1. PICK reason : WriteAndReturn(w, UpdatedStatus(o, wk[w].st, wk[w].h,
                                                         wk[w].hl, reason))
      BY <1>6 DEF UpdateSetStatus
    <2>2. /\ UpdatedStatus(o, wk[w].st, wk[w].h, wk[w].hl, reason).life = o.life
          /\ UpdatedStatus(o, wk[w].st, wk[w].h, wk[w].hl, reason).iid = o.iid
      BY <1>1 DEF UpdatedStatus, MachineType
    <2> QED
      BY <1>2, <2>1, <2>2 DEF WriteAndReturn
  <1> QED
    BY <1>3, <1>4, <1>5, <1>6

\* CreateInstance claims, for a Machine that may have left by now.
LEMMA CreateInstanceMaps ==
    ASSUME IInv, NEW w \in Managers, CreateInstance(w)
    PROVE  Maps
  <1>1. PICK i \in Instances :
          /\ inst[i].state = "free"
          /\ inst' = [inst EXCEPT ![i] = RequestedInstance(wk[w].m)]
    BY DEF CreateInstance
  <1>2. wk[w].pc # "idle" /\ obj' = obj /\ TypeOK
    BY DEF CreateInstance, machineVars, IInv
  <1>3. wk[w].m \in Machines /\ wk[w].o.life \in {"live", "deleting"}
    BY <1>2, Knows
  <1>4. obj[wk[w].m].life # "absent"
    BY <1>2, <1>3 DEF IInv, VersionsOK, CopyOK
  <1>5. inst'[i].state = "Starting" /\ inst'[i].owner = wk[w].m
    BY <1>1, <1>2 DEF RequestedInstance, Unborn, TypeOK
  <1>6. Phase(i) = "free" /\ Phase(i)' = "running"
    BY <1>1, <1>5 DEF Phase
  <1>7. \A j \in Instances \ {i} : SameInstance(j)
    BY <1>1, <1>2, SameState DEF TypeOK
  <1>8. \A n \in Machines : SameMachine(n)
    BY <1>2 DEF SameMachine
  <1> QED
    BY <1>3, <1>4, <1>5, <1>6, <1>7, <1>8, MapsToClaim DEF Maps, Claims!Next

\* The status update of Create records, in place of nothing or of an instance
\* that is gone.
LEMMA CreateSetStatusMaps ==
    ASSUME IInv, NEW w \in Managers, CreateSetStatus(w)
    PROVE  Maps
  <1>1. /\ wk[w].pc = "createStatus" /\ w \in base
        /\ Commit(wk[w].m, CreatedStatus(wk[w].o, wk[w].i, wk[w].h))
        /\ inst' = inst /\ TypeOK
    BY DEF CreateSetStatus, WriteAndContinue, nicoVars, IInv
  <1>2. /\ wk[w].m \in Machines /\ wk[w].o \in MachineType
        /\ wk[w].o = obj[wk[w].m] /\ wk[w].o.iid \in Ids
        /\ StepOK(wk[w], inst)
    BY <1>1, Knows
  <1>3. /\ wk[w].o.iid = None \/ inst[wk[w].o.iid].state = "Gone"
        /\ wk[w].o.life = "live"
        /\ wk[w].i \in Instances /\ inst[wk[w].i].owner = wk[w].m
    BY <1>1, <1>2 DEF StepOK, BeforeCreate, AfterCall
  <1>4. PICK m \in Machines, i \in Instances : m = wk[w].m /\ i = wk[w].i
    BY <1>2, <1>3
  <1> DEFINE new == CreatedStatus(wk[w].o, wk[w].i, wk[w].h)
  <1>5. new.life = "live" /\ new.iid = i
    BY <1>2, <1>3, <1>4 DEF CreatedStatus, MachineType
  <1> HIDE DEF new
  <1>6. obj'[m] = new /\ \A n \in Machines \ {m} : SameMachine(n)
    BY <1>1, <1>4, OneObject DEF new
  <1>7. \A j \in Instances : SameInstance(j)
    BY <1>1, SameState
  <1>8. obj[m].iid # None => Phase(obj[m].iid) = "gone"
    BY <1>2, <1>3, <1>4 DEF Phase
  <1>9. Claims!Record(m, i)
    BY <1>2, <1>3, <1>4, <1>5, <1>6, <1>7, <1>8, MapsToRecord
  <1> QED
    BY <1>9 DEF Maps, Claims!Next

LEMMA DeployDpuMaps ==
    ASSUME IInv, NEW w \in Managers, DeployDpu(w)
    PROVE  Maps
  <1>1. /\ obj' = obj /\ TypeOK
        /\ inst' = inst \/ inst' = [inst EXCEPT ![wk[w].i].dpu = TRUE]
    BY DEF DeployDpu, machineVars, IInv
  <1>2. ASSUME NEW i \in Instances
        PROVE  inst'[i].state = inst[i].state /\ inst'[i].owner = inst[i].owner
    <2>1. inst[i] \in InstanceType
      BY <1>1 DEF TypeOK
    <2>2. inst'[i] = inst[i] \/ inst'[i] = [inst[i] EXCEPT !.dpu = TRUE]
      BY <1>1 DEF TypeOK
    <2> QED
      BY <2>1, <2>2 DEF InstanceType
  <1>3. \A i \in Instances : SameInstance(i)
    BY <1>2, SameState
  <1>4. \A m \in Machines : SameMachine(m)
    BY <1>1 DEF SameMachine
  <1> QED
    BY <1>3, <1>4, MapsToStutter DEF Maps

\* DeleteInstance from any copy that shows the deletion releases what the
\* object records, unless that is released already.
LEMMA DeleteInstanceMaps ==
    ASSUME IInv, NEW w \in Managers, DeleteInstance(w)
    PROVE  Maps
  <1>1. /\ wk[w].pc = "delete" /\ obj' = obj /\ TypeOK
        /\ \/ inst' = inst
           \/ /\ inst' = [inst EXCEPT ![wk[w].o.iid].state = "Terminating"]
              /\ inst[wk[w].o.iid].state # "Gone"
    BY DEF DeleteInstance, NotFound, machineVars, IInv
  <1>2. /\ wk[w].m \in Machines /\ wk[w].o.iid \in Ids
        /\ VersionOK(wk[w].o, wk[w].m, inst) /\ StepOK(wk[w], inst)
        /\ DeletionSeen(wk[w].o, obj[wk[w].m], inst)
    BY <1>1, Knows DEF IInv, VersionsOK, CopyOK
  <1>3. /\ wk[w].o.iid \in Instances /\ inst[wk[w].o.iid].state # "free"
        /\ wk[w].o.life = "deleting"
    BY <1>1, <1>2 DEF StepOK, InDelete, VersionOK, Ids
  <1>4. PICK m \in Machines, i \in Instances : m = wk[w].m /\ i = wk[w].o.iid
    BY <1>2, <1>3
  <1>5. \A n \in Machines : SameMachine(n)
    BY <1>1 DEF SameMachine
  <1>6. CASE inst' = inst
    BY <1>1, <1>6, NothingSeen
  <1>7. CASE inst' # inst
    <2>1. /\ inst' = [inst EXCEPT ![i].state = "Terminating"]
          /\ inst[i].state # "Gone"
      BY <1>1, <1>4, <1>7
    <2>2. inst'[i].state = "Terminating" /\ inst'[i].owner = inst[i].owner
      BY <1>1, <2>1 DEF TypeOK, InstanceType
    <2>3. \A j \in Instances \ {i} : SameInstance(j)
      BY <1>1, <2>1, SameState DEF TypeOK
    <2>4. CASE inst[i].state = "Terminating"
      <3>1. SameInstance(i)
        BY <2>2, <2>4, SameState
      <3> QED
        BY <1>5, <2>3, <3>1, MapsToStutter DEF Maps
    <2>5. CASE inst[i].state # "Terminating"
      <3>1. obj[m].life = "deleting" /\ obj[m].iid = i /\ obj'[m].iid = i
        BY <1>1, <1>2, <1>3, <1>4, <2>1, <2>5, NoneAssumption DEF DeletionSeen
      <3>2. Phase(obj[m].iid) = "running" /\ Phase(obj[m].iid)' = "releasing"
        BY <1>3, <1>4, <2>1, <2>2, <2>5, <3>1 DEF Phase
      <3>3. Claims!Release(m)
        BY <1>5, <2>2, <2>3, <3>1, <3>2, NoneAssumption, MapsToRelease
      <3> QED
        BY <3>3 DEF Maps, Claims!Next
    <2> QED
      BY <2>4, <2>5
  <1> QED
    BY <1>6, <1>7

\* The object goes with its last finalizer, after its instance.
LEMMA RemoveFinalizerMaps ==
    ASSUME IInv, NEW w \in Managers, RemoveFinalizer(w)
    PROVE  Maps
  <1>1. /\ wk[w].pc = "unfinalize" /\ w \in base
        /\ Commit(wk[w].m, Unfinalized(wk[w].o))
        /\ inst' = inst /\ TypeOK
    BY DEF RemoveFinalizer, WriteAndReturn, nicoVars, IInv
  <1>2. /\ wk[w].m \in Machines /\ wk[w].o \in MachineType
        /\ wk[w].o = obj[wk[w].m] /\ wk[w].o.iid \in Ids
        /\ StepOK(wk[w], inst)
    BY <1>1, Knows
  <1>3. /\ wk[w].o.life = "deleting"
        /\ \/ wk[w].o.iid = None
           \/ inst[wk[w].o.iid].state \in {"Terminating", "Gone"}
    BY <1>1, <1>2 DEF StepOK, InDelete
  <1>4. PICK m \in Machines : m = wk[w].m
    BY <1>2
  <1>5. Unfinalized(wk[w].o) = Removed
    BY <1>2 DEF Unfinalized, OwnFinalizers, MachineType
  <1>6. obj'[m] = Removed /\ \A n \in Machines \ {m} : SameMachine(n)
    BY <1>1, <1>4, <1>5, OneObject
  <1>7. obj'[m].life = "gone" /\ obj'[m].iid = None
    BY <1>6 DEF Removed, NoMachine
  <1>8. \A j \in Instances : SameInstance(j)
    BY <1>1, SameState
  <1>9. obj[m].iid # None => Phase(obj[m].iid) \in {"releasing", "gone"}
    BY <1>2, <1>3, <1>4 DEF Phase
  <1>10. Claims!Leave(m)
    BY <1>2, <1>3, <1>4, <1>6, <1>7, <1>8, <1>9, MapsToLeave
  <1> QED
    BY <1>10 DEF Maps, Claims!Next

LEMMA StepMaps ==
    ASSUME IInv, NEW w \in Managers, Step(w) \/ Failure(w)
    PROVE  Maps
  BY QuietMaps, StatusMaps, CreateInstanceMaps, CreateSetStatusMaps, DeployDpuMaps,
     DeleteInstanceMaps, RemoveFinalizerMaps
  DEF Step

\* Other writers: Machines appear, are adopted, asked to go, or just go.
LEMMA UserMaps ==
    ASSUME IInv, NEW m \in Machines, User(m)
    PROVE  Maps
  <1> USE DEF nicoVars
  <1>0. /\ TypeOK /\ obj[m] \in MachineType /\ VersionOK(obj[m], m, inst)
        /\ obj[m].iid \in Ids
    BY DEF IInv, TypeOK, VersionsOK, MachineType
  <1>1. CASE CreateMachine(m)
    <2> DEFINE new == [NoMachine EXCEPT !.life = "live"]
    <2>1. obj[m].life = "absent" /\ Commit(m, new) /\ inst' = inst
      BY <1>1 DEF CreateMachine, ForeignWrite
    <2>2. new.life = "live" /\ new.iid = None /\ obj[m].iid = None
      BY <1>0, <2>1 DEF NoMachine, VersionOK
    <2> HIDE DEF new
    <2>3. obj'[m] = new /\ \A n \in Machines \ {m} : SameMachine(n)
      BY <1>0, <2>1, OneObject
    <2>4. \A i \in Instances : SameInstance(i)
      BY <2>1, SameState
    <2>5. Claims!Appear(m)
      BY <2>1, <2>2, <2>3, <2>4, MapsToAppear
    <2> QED
      BY <2>5 DEF Maps, Claims!Next
  <1>2. CASE AdoptMachine(m)
    <2>1. PICK i \in Instances, h \in Hosts :
            /\ inst[i].state = "free"
            /\ inst' = [inst EXCEPT ![i] = [Unborn EXCEPT
                            !.state = "Ready", !.owner = m, !.host = h]]
            /\ Commit(m, [NoMachine EXCEPT !.life = "live", !.fin = {"legacy"},
                              !.iid = i, !.pid = i, !.mid = h, !.state = "Ready"])
      BY <1>2 DEF AdoptMachine, ForeignWrite
    <2> DEFINE new == [NoMachine EXCEPT !.life = "live", !.fin = {"legacy"},
                              !.iid = i, !.pid = i, !.mid = h, !.state = "Ready"]
    <2>a. new.life = "live" /\ new.iid = i
      BY DEF NoMachine
    <2>b. Commit(m, new)
      BY <2>1
    <2> HIDE DEF new
    <2>2. obj'[m] = new /\ \A n \in Machines \ {m} : SameMachine(n)
      BY <1>0, <2>b, OneObject
    <2>3. obj[m].life = "absent" /\ obj'[m].life = "live" /\ obj'[m].iid = i
      BY <1>2, <2>a, <2>2 DEF AdoptMachine
    <2>4. inst'[i].state = "Ready" /\ inst'[i].owner = m
      BY <1>0, <2>1 DEF TypeOK, Unborn
    <2>5. Phase(i) = "free" /\ Phase(i)' = "running"
      BY <2>1, <2>4 DEF Phase
    <2>6. \A j \in Instances \ {i} : SameInstance(j)
      BY <1>0, <2>1, SameState DEF TypeOK
    <2>7. Claims!Adopt(m, i)
      BY <2>2, <2>3, <2>4, <2>5, <2>6, MapsToAdopt
    <2> QED
      BY <2>7 DEF Maps, Claims!Next
  <1>3. CASE DeleteMachine(m)
    <2>1. obj[m].life = "live" /\ inst' = inst
      BY <1>3 DEF DeleteMachine
    <2>2. \A i \in Instances : SameInstance(i)
      BY <2>1, SameState
    <2>3. CASE obj[m].fin = {}
      <3>1. obj[m].iid = None /\ Commit(m, Removed)
        BY <1>0, <1>3, <2>3 DEF VersionOK, DeleteMachine, ForeignWrite
      <3>2. /\ obj'[m].life = "gone" /\ obj'[m].iid = None
            /\ \A n \in Machines \ {m} : SameMachine(n)
        BY <1>0, <3>1, OneObject DEF Removed, NoMachine
      <3>3. Claims!Leave(m)
        BY <1>0, <2>1, <2>2, <3>1, <3>2, MapsToLeave
      <3> QED
        BY <3>3 DEF Maps, Claims!Next
    <2>4. CASE obj[m].fin # {}
      <3>1. Commit(m, [obj[m] EXCEPT !.life = "deleting"])
        BY <1>3, <2>4 DEF DeleteMachine, ForeignWrite
      <3>2. /\ obj'[m] = [obj[m] EXCEPT !.life = "deleting"]
            /\ \A n \in Machines \ {m} : SameMachine(n)
        BY <1>0, <3>1, OneObject
      <3>3. obj'[m].life = "deleting" /\ obj'[m].iid = obj[m].iid
        BY <1>0, <3>2 DEF MachineType
      <3>4. Claims!RequestDeletion(m)
        BY <2>1, <2>2, <3>2, <3>3, MapsToRequestDeletion
      <3> QED
        BY <3>4 DEF Maps, Claims!Next
    <2> QED
      BY <2>3, <2>4
  <1>4. CASE MarkUnhealthy(m)
    <2>1. Commit(m, [obj[m] EXCEPT !.marked = TRUE]) /\ inst' = inst
      BY <1>4 DEF MarkUnhealthy, ForeignWrite
    <2>2. /\ [obj[m] EXCEPT !.marked = TRUE].life = obj[m].life
          /\ [obj[m] EXCEPT !.marked = TRUE].iid = obj[m].iid
      BY <1>0 DEF MachineType
    <2> QED
      BY <1>0, <2>1, <2>2, UnseenWrite
  <1>5. CASE Touch(m)
    BY <1>0, <1>5, UnseenWrite DEF Touch, ForeignWrite
  <1> QED
    BY <1>1, <1>2, <1>3, <1>4, <1>5 DEF User

\* NICo's own steps: an instance departs, or something changes that no claim
\* is about.
LEMMA NicoMaps ==
    ASSUME IInv, NEW i \in Instances, Nico(i)
    PROVE  Maps
  <1>1. inst[i] \in InstanceType /\ TypeOK /\ obj' = obj
    BY DEF IInv, TypeOK, Nico, Allocate, BecomeReady, ProvisioningFails, Terminated,
       RemovedOutOfBand, OnlyInstance
  <1>2. \A m \in Machines : SameMachine(m)
    BY <1>1 DEF SameMachine
  <1>a. ASSUME NEW new, inst' = [inst EXCEPT ![i] = new]
        PROVE  inst'[i] = new /\ \A j \in Instances \ {i} : SameInstance(j)
    BY <1>1, <1>a, SameState DEF TypeOK
  <1>3. ASSUME NEW new, inst' = [inst EXCEPT ![i] = new], new.owner = inst[i].owner,
               inst[i].state = "Starting", new.state \in {"Starting", "Ready", "Error"}
        PROVE  Maps
    <2>1. Phase(i) = "running" /\ Phase(i)' = "running"
      BY <1>3, <1>a DEF Phase
    <2>2. \A j \in Instances : SameInstance(j)
      BY <1>3, <1>a, <2>1 DEF SameInstance
    <2> QED
      BY <1>2, <2>2, MapsToStutter DEF Maps
  <1>4. CASE Allocate(i)
    <2>1. PICK h \in Hosts : inst' = [inst EXCEPT ![i] = [inst[i] EXCEPT !.host = h]]
      BY <1>4 DEF Allocate, OnlyInstance
    <2>2. /\ [inst[i] EXCEPT !.host = h].state = "Starting"
          /\ [inst[i] EXCEPT !.host = h].owner = inst[i].owner
      BY <1>1, <1>4 DEF Allocate, InstanceType
    <2> QED
      BY <1>3, <1>4, <2>1, <2>2 DEF Allocate
  <1>5. CASE BecomeReady(i)
    <2>1. /\ [inst[i] EXCEPT !.state = "Ready"].state = "Ready"
          /\ [inst[i] EXCEPT !.state = "Ready"].owner = inst[i].owner
      BY <1>1 DEF InstanceType
    <2> QED
      BY <1>3, <1>5, <2>1 DEF BecomeReady, OnlyInstance
  <1>6. CASE ProvisioningFails(i)
    <2>1. /\ [inst[i] EXCEPT !.state = "Error"].state = "Error"
          /\ [inst[i] EXCEPT !.state = "Error"].owner = inst[i].owner
      BY <1>1 DEF InstanceType
    <2> QED
      BY <1>3, <1>6, <2>1 DEF ProvisioningFails, OnlyInstance
  <1>7. CASE Terminated(i) \/ RemovedOutOfBand(i)
    <2>1. /\ inst' = [inst EXCEPT ![i] = Departed(i)]
          /\ inst[i].state \notin {"free", "Gone"}
      BY <1>7 DEF Terminated, RemovedOutOfBand, OnlyInstance, Alive
    <2>2. Departed(i).state = "Gone" /\ Departed(i).owner = inst[i].owner
      BY DEF Departed, Unborn
    <2>3. /\ inst'[i].state = "Gone" /\ inst'[i].owner = inst[i].owner
          /\ \A j \in Instances \ {i} : SameInstance(j)
      BY <1>a, <2>1, <2>2
    <2>4. Phase(i) \in {"running", "releasing"} /\ Phase(i)' = "gone"
      BY <2>1, <2>3 DEF Phase
    <2>5. Claims!Depart(i)
      BY <1>2, <2>3, <2>4, MapsToDepart
    <2> QED
      BY <2>5 DEF Maps, Claims!Next
  <1> QED
    BY <1>4, <1>5, <1>6, <1>7 DEF Nico

----------------------------------------------------------------------------
LEMMA InitMaps == Init => Claims!Init
  <1> SUFFICES ASSUME Init PROVE Claims!Init
    OBVIOUS
  <1>1. \A m \in Machines : obj[m].life = "absent" /\ obj[m].iid = None
    BY DEF Init, NoMachine
  <1>2. \A i \in Instances : inst[i].state = "free" /\ inst[i].owner = None
    BY DEF Init, Unborn
  <1>3. \A i \in Instances : Phase(i) = "free"
    BY <1>2, PhaseOf
  <1> QED
    BY <1>1, <1>2, <1>3 DEF Claims!Init

LEMMA NextMaps == IInv /\ [Next]_vars => [Claims!Next]_(Claims!claims)
  <1> SUFFICES ASSUME IInv, [Next]_vars PROVE Maps
    BY DEF Maps
  <1>1. CASE UNCHANGED vars
    BY <1>1, NothingSeen DEF vars
  <1>2. ASSUME NEW h \in Hosts, HostFault(h) \/ HostRepaired(h)
        PROVE  Maps
    BY <1>2, NothingSeen DEF HostFault, HostRepaired
  <1> QED
    BY <1>1, <1>2, ReconcileMaps, StepMaps, UserMaps, NicoMaps DEF Next

\* Reconciles of any number of managers, from copies of any age and through
\* crashes, conflicts and failed calls, look from outside like claims, records
\* and releases that each happen at once.
THEOREM Refinement == Spec => ImplementsClaims
  <1>1. Spec => Claims!Init /\ [][Claims!Next]_(Claims!claims)
    BY InitMaps, NextMaps, Invariance, PTL DEF Spec
  <1> QED
    BY <1>1 DEF ImplementsClaims, Claims!Spec

============================================================================
