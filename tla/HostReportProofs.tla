-------------------------- MODULE HostReportProofs --------------------------
(***************************************************************************)
(* Proof that a remediation reports on the host its Machine runs on:       *)
(* every version of a Machine, however old, names the host of the instance *)
(* it records, or that instance is gone.                                   *)
(***************************************************************************)
EXTENDS MachineControllerProofs

\* Whoever knows host h of instance i still knows it, or i is gone.
HostKnown(i, h, S) ==
    i # None /\ h # None => S[i].host = h \/ S[i].state = "Gone"

\* What a reconcile k knows of hosts: from its copy, and from NICo's answer.
WorkHostOK(k, S) ==
    /\ k.pc # "idle" => HostKnown(k.o.iid, k.o.mid, S)
    /\ k.pc = "createStatus" => HostKnown(k.i, k.h, S)
    /\ k.pc \in InUpdate \ {"update"} => HostKnown(k.o.iid, k.h, S)

HostsOK ==
    /\ \A m \in Machines : HostKnown(obj[m].iid, obj[m].mid, inst)
    /\ \A w \in Managers, m \in Machines :
        HostKnown(cache[w][m].iid, cache[w][m].mid, inst)
    /\ \A w \in Managers : WorkHostOK(wk[w], inst)

HInv == IInv /\ HostsOK

----------------------------------------------------------------------------
\* An instance that has a host keeps it until it is gone, for good.
KeepsHosts(S, T) ==
    \A i \in Instances : S[i].state # "free" =>
        /\ S[i].host # None => T[i].host = S[i].host \/ T[i].state = "Gone"
        /\ S[i].state = "Gone" => T[i].state = "Gone"

LEMMA HostKnownStays ==
    ASSUME NEW S, NEW T, KeepsHosts(S, T), NEW i \in Ids, NEW h,
           i # None => S[i].state # "free", HostKnown(i, h, S)
    PROVE  HostKnown(i, h, T)
  BY DEF KeepsHosts, HostKnown, Ids

\* Instances that are recorded, by an object, a copy or a reconcile, are born.
LEMMA Born ==
    ASSUME IInv
    PROVE  /\ \A m \in Machines :
                /\ obj[m].iid \in Ids
                /\ obj[m].iid # None => inst[obj[m].iid].state # "free"
           /\ \A w \in Managers, m \in Machines :
                /\ cache[w][m].iid \in Ids
                /\ cache[w][m].iid # None => inst[cache[w][m].iid].state # "free"
           /\ \A w \in Managers : wk[w].pc # "idle" =>
                /\ wk[w].o.iid \in Ids /\ wk[w].i \in Ids
                /\ wk[w].o.iid # None => inst[wk[w].o.iid].state # "free"
                /\ wk[w].pc = "createStatus" => inst[wk[w].i].state # "free"
  <1>1. ASSUME NEW m \in Machines
        PROVE  /\ obj[m].iid \in Ids
               /\ obj[m].iid # None => inst[obj[m].iid].state # "free"
    BY DEF IInv, TypeOK, VersionsOK, VersionOK, MachineType
  <1>2. ASSUME NEW w \in Managers, NEW m \in Machines
        PROVE  /\ cache[w][m].iid \in Ids
               /\ cache[w][m].iid # None => inst[cache[w][m].iid].state # "free"
    <2>1. cache[w][m] \in MachineType /\ VersionOK(cache[w][m], m, inst)
      BY DEF IInv, TypeOK, VersionsOK, CopyOK
    <2> QED
      BY <2>1 DEF VersionOK, MachineType
  <1>3. ASSUME NEW w \in Managers, wk[w].pc # "idle"
        PROVE  /\ wk[w].o.iid \in Ids /\ wk[w].i \in Ids
               /\ wk[w].o.iid # None => inst[wk[w].o.iid].state # "free"
               /\ wk[w].pc = "createStatus" => inst[wk[w].i].state # "free"
    <2>1. /\ wk[w] \in WorkType /\ VersionOK(wk[w].o, wk[w].m, inst)
          /\ StepOK(wk[w], inst)
      BY <1>3, Knows
    <2> QED
      BY <2>1, WorkFields DEF VersionOK, StepOK, AfterCall
  <1> QED
    BY <1>1, <1>2, <1>3

LEMMA IdleKnowsNothing ==
    ASSUME NEW S PROVE WorkHostOK(Idle, S)
  BY DEF WorkHostOK, HostKnown, Idle, NoMachine, InUpdate

\* A reconcile that stands still goes on knowing.
LEMMA WorkHostStays ==
    ASSUME IInv, HostsOK, KeepsHosts(inst, inst'), NEW w \in Managers
    PROVE  WorkHostOK(wk[w], inst')
  <1>1. CASE wk[w].pc # "idle"
    <2>1. WorkHostOK(wk[w], inst)
      BY DEF HostsOK
    <2>2. /\ wk[w].o.iid \in Ids /\ wk[w].i \in Ids
          /\ wk[w].o.iid # None => inst[wk[w].o.iid].state # "free"
          /\ wk[w].pc = "createStatus" => inst[wk[w].i].state # "free"
      BY <1>1, Born
    <2>3. HostKnown(wk[w].o.iid, wk[w].o.mid, inst')
      BY <1>1, <2>1, <2>2, HostKnownStays DEF WorkHostOK
    <2>4. wk[w].pc = "createStatus" => HostKnown(wk[w].i, wk[w].h, inst')
      BY <2>1, <2>2, HostKnownStays DEF WorkHostOK
    <2>5. wk[w].pc \in InUpdate \ {"update"} => HostKnown(wk[w].o.iid, wk[w].h, inst')
      BY <2>1, <2>2, HostKnownStays DEF WorkHostOK
    <2> QED
      BY <2>3, <2>4, <2>5 DEF WorkHostOK
  <1>2. CASE wk[w].pc = "idle"
    BY <1>2 DEF WorkHostOK, InUpdate
  <1> QED
    BY <1>1, <1>2

\* The invariant follows from what happens to each object, copy and reconcile.
LEMMA HostsStay ==
    ASSUME IInv, HostsOK, KeepsHosts(inst, inst'),
           \A m \in Machines :
              obj'[m] = obj[m] \/ HostKnown(obj'[m].iid, obj'[m].mid, inst'),
           \A w \in Managers, m \in Machines :
              cache'[w][m] = cache[w][m] \/ cache'[w][m] = obj'[m],
           \A w \in Managers :
              wk'[w] = wk[w] \/ wk'[w] = Idle \/ WorkHostOK(wk'[w], inst')
    PROVE  HostsOK'
  <1>1. ASSUME NEW m \in Machines
        PROVE  HostKnown(obj'[m].iid, obj'[m].mid, inst')
    <2>1. HostKnown(obj[m].iid, obj[m].mid, inst')
      BY Born, HostKnownStays DEF HostsOK
    <2> QED
      BY <2>1
  <1>2. ASSUME NEW w \in Managers, NEW m \in Machines
        PROVE  HostKnown(cache'[w][m].iid, cache'[w][m].mid, inst')
    <2>1. HostKnown(cache[w][m].iid, cache[w][m].mid, inst')
      BY Born, HostKnownStays DEF HostsOK
    <2> QED
      BY <1>1, <2>1
  <1>3. ASSUME NEW w \in Managers PROVE WorkHostOK(wk'[w], inst')
    BY WorkHostStays, IdleKnowsNothing
  <1> QED
    BY <1>1, <1>2, <1>3 DEF HostsOK

LEMMA HostsUntouched ==
    inst' = inst => KeepsHosts(inst, inst')
  BY DEF KeepsHosts

\* A write of a reconcile, which ends with it or goes on.
LEMMA WriteKeepsHosts ==
    ASSUME IInv, HostsOK, NEW w \in Managers, NEW new, NEW pc,
           wk[w].m \in Machines, UNCHANGED <<cache, inst>>,
           HostKnown(new.iid, new.mid, inst),
           \/ WriteAndReturn(w, new)
           \/ WriteAndContinue(w, new, pc) /\ WorkHostOK(wk'[w], inst)
    PROVE  HostsOK'
  <1>1. Commit(wk[w].m, new)
    BY DEF WriteAndReturn, WriteAndContinue
  <1>2. \A m \in Machines : obj'[m] = obj[m] \/ obj'[m] = new
    BY <1>1 DEF Commit, IInv, TypeOK
  <1>3. \A v \in Managers : wk'[v] = wk[v] \/ wk'[v] = Idle \/ WorkHostOK(wk'[v], inst')
    BY DEF WriteAndReturn, WriteAndContinue, IInv, TypeOK
  <1> QED
    BY <1>2, <1>3, HostsUntouched, HostsStay

\* A write between reconciles.
LEMMA OutsideKeepsHosts ==
    ASSUME IInv, HostsOK, NEW m \in Machines, NEW new, Commit(m, new),
           UNCHANGED <<cache, wk>>, KeepsHosts(inst, inst'),
           HostKnown(new.iid, new.mid, inst')
    PROVE  HostsOK'
  <1>1. \A n \in Machines : obj'[n] = obj[n] \/ obj'[n] = new
    BY DEF Commit, IInv, TypeOK
  <1> QED
    BY <1>1, HostsStay

\* A reconcile that moves, ends or begins without a write.
LEMMA MoveKeepsHosts ==
    ASSUME IInv, HostsOK, NEW w \in Managers, KeepsHosts(inst, inst'),
           UNCHANGED <<obj, cache>>,
           \A v \in Managers \ {w} : wk'[v] = wk[v],
           wk'[w] = Idle \/ WorkHostOK(wk'[w], inst')
    PROVE  HostsOK'
  <1>1. \A v \in Managers : wk'[v] = wk[v] \/ wk'[v] = Idle \/ WorkHostOK(wk'[v], inst')
    OBVIOUS
  <1> QED
    BY <1>1, HostsStay

----------------------------------------------------------------------------
(* Every action keeps the invariant.                                       *)

LEMMA ReconcileHosts ==
    ASSUME IInv, HostsOK, NEW w \in Managers, NEW m \in Machines,
           Reconcile(w, m) \/ CacheSync(w, m)
    PROVE  HostsOK'
  <1> USE DEF machineVars, nicoVars
  <1>0. /\ TypeOK /\ cache[w][m] \in MachineType
        /\ HostKnown(cache[w][m].iid, cache[w][m].mid, inst)
    BY DEF IInv, TypeOK, HostsOK
  <1>1. CASE AddFinalizer(w, m)
    <2> DEFINE new == [cache[w][m] EXCEPT !.fin = @ \cup {"nico"}]
    <2>1. new.iid = cache[w][m].iid /\ new.mid = cache[w][m].mid
      BY <1>0 DEF MachineType
    <2>2. Commit(m, new) /\ UNCHANGED <<cache, wk, inst>>
      BY <1>1 DEF AddFinalizer
    <2> HIDE DEF new
    <2> QED
      BY <1>0, <2>1, <2>2, HostsUntouched, OutsideKeepsHosts
  <1>2. CASE Exists(w, m) \/ ReconcileDelete(w, m)
    <2>1. PICK pc \in {"update", "create", "report", "delete", "unfinalize"} :
            Start(w, m, pc)
      BY <1>2 DEF Exists, ReconcileDelete, DeleteStep
    <2>2. /\ wk'[w].pc = pc /\ wk'[w].o = cache[w][m]
          /\ \A v \in Managers \ {w} : wk'[v] = wk[v]
      BY <1>0, <2>1 DEF Start, TypeOK, Idle
    <2>3. WorkHostOK(wk'[w], inst)
      BY <1>0, <2>2 DEF WorkHostOK, InUpdate
    <2>4. UNCHANGED <<obj, cache, inst>>
      BY <1>2 DEF Exists, ReconcileDelete
    <2> QED
      BY <2>2, <2>3, <2>4, HostsUntouched, MoveKeepsHosts
  <1>3. CASE CacheSync(w, m)
    <2>1. \A v \in Managers, n \in Machines :
            cache'[v][n] = cache[v][n] \/ cache'[v][n] = obj'[n]
      BY <1>0, <1>3 DEF CacheSync, TypeOK
    <2> QED
      BY <1>3, <2>1, HostsUntouched, HostsStay DEF CacheSync
  <1> QED
    BY <1>1, <1>2, <1>3 DEF Reconcile

\* The steps after which the reconcile is over without a write.
LEMMA ReturningHosts ==
    ASSUME IInv, HostsOK, NEW w \in Managers,
           \/ CreateInvalid(w) \/ CreateRefused(w) \/ CreateRejected(w)
           \/ Conflict(w) \/ CallFails(w) \/ Crash(w) \/ DeployDpu(w)
           \/ UpdateGetInstance(w) /\ UpdateFails(wk[w].o.iid)
    PROVE  HostsOK'
  <1> USE DEF machineVars, nicoVars
  <1>0. TypeOK /\ Return(w) /\ obj' = obj
    BY DEF IInv, CreateInvalid, CreateRefused, CreateRejected, Conflict,
       CallFails, Crash, DeployDpu, UpdateGetInstance
  <1>1. wk'[w] = Idle /\ \A v \in Managers \ {w} : wk'[v] = wk[v]
    BY <1>0 DEF Return, TypeOK
  <1>2. KeepsHosts(inst, inst')
    <2>1. CASE DeployDpu(w)
      <3>1. inst' = inst \/ inst' = [inst EXCEPT ![wk[w].i].dpu = TRUE]
        BY <2>1 DEF DeployDpu
      <3>2. ASSUME NEW i \in Instances
            PROVE  inst'[i].host = inst[i].host /\ inst'[i].state = inst[i].state
        <4>1. inst[i] \in InstanceType
          BY <1>0 DEF TypeOK
        <4>2. inst'[i] = inst[i] \/ inst'[i] = [inst[i] EXCEPT !.dpu = TRUE]
          BY <1>0, <3>1 DEF TypeOK
        <4> QED
          BY <4>1, <4>2 DEF InstanceType
      <3> QED
        BY <3>2 DEF KeepsHosts
    <2>2. CASE ~DeployDpu(w)
      <3>1. inst' = inst
        BY <2>2 DEF CreateInvalid, CreateRefused, CreateRejected, Conflict,
           CallFails, Crash, UpdateGetInstance
      <3> QED
        BY <3>1, HostsUntouched
    <2> QED
      BY <2>1, <2>2
  <1>3. \A v \in Managers, m \in Machines :
          cache'[v][m] = cache[v][m] \/ cache'[v][m] = obj'[m]
    <2>1. CASE Crash(w)
      BY <1>0, <2>1 DEF Crash, TypeOK
    <2>2. CASE ~Crash(w)
      <3>1. cache' = cache
        BY <2>2 DEF CreateInvalid, CreateRefused, CreateRejected, Conflict,
           CallFails, DeployDpu, UpdateGetInstance
      <3> QED
        BY <3>1
    <2> QED
      BY <2>1, <2>2
  <1>4. \A v \in Managers : wk'[v] = wk[v] \/ wk'[v] = Idle
    BY <1>1
  <1> QED
    BY <1>0, <1>2, <1>3, <1>4, HostsStay

\* The steps that only call NICo and go on.
LEMMA CallingHosts ==
    ASSUME IInv, HostsOK, NEW w \in Managers,
           \/ PreFlight(w) \/ PreFlightBlind(w) \/ ReportMHC(w)
           \/ ReportMHCFails(w) \/ ClearReport(w) \/ ClearReportFails(w)
           \/ DeleteInstance(w)
    PROVE  HostsOK'
  <1> USE DEF machineVars, nicoVars
  <1>0. /\ TypeOK /\ wk[w].pc # "idle" /\ UNCHANGED <<obj, cache>>
        /\ WorkHostOK(wk[w], inst)
    BY DEF IInv, PreFlight, PreFlightBlind, ReportMHC, ReportMHCFails,
       ClearReport, ClearReportFails, DeleteInstance, HostsOK
  <1>1. PICK pc \in {"block", "createCall", "delete", "unfinalize", "status"} :
          Goto(w, pc) /\ (pc = "status" => wk[w].pc = "clear")
    BY DEF PreFlight, PreFlightBlind, ReportMHC, ReportMHCFails,
       ClearReport, ClearReportFails, DeleteInstance
  <1>2. /\ wk'[w].pc = pc /\ wk'[w].o = wk[w].o /\ wk'[w].h = wk[w].h
        /\ \A v \in Managers \ {w} : wk'[v] = wk[v]
    BY <1>0, <1>1 DEF Goto, TypeOK, WorkType
  <1>3. KeepsHosts(inst, inst') /\ \A i \in Instances : inst'[i].host = inst[i].host
    <2>1. CASE DeleteInstance(w)
      <3>1. \/ inst' = inst
            \/ /\ inst' = [inst EXCEPT ![wk[w].o.iid].state = "Terminating"]
               /\ inst[wk[w].o.iid].state # "Gone"
        BY <2>1 DEF DeleteInstance, NotFound
      <3>2. ASSUME NEW i \in Instances
            PROVE  /\ inst'[i].host = inst[i].host
                   /\ inst[i].state = "Gone" => inst'[i].state = "Gone"
        <4>1. inst[i] \in InstanceType
          BY <1>0 DEF TypeOK
        <4>2. \/ inst'[i] = inst[i]
              \/ /\ inst'[i] = [inst[i] EXCEPT !.state = "Terminating"]
                 /\ inst[i].state # "Gone"
          BY <1>0, <3>1 DEF TypeOK
        <4> QED
          BY <4>1, <4>2 DEF InstanceType
      <3> QED
        BY <3>2 DEF KeepsHosts
    <2>2. CASE ~DeleteInstance(w)
      <3>1. inst' = inst
        BY <2>2 DEF PreFlight, PreFlightBlind, ReportMHC, ReportMHCFails,
           ClearReport, ClearReportFails
      <3> QED
        BY <3>1, HostsUntouched
    <2> QED
      BY <2>1, <2>2
  <1>4. WorkHostOK(wk[w], inst')
    BY <1>3, WorkHostStays
  <1>5. WorkHostOK(wk'[w], inst')
    BY <1>0, <1>1, <1>2, <1>4 DEF WorkHostOK, InUpdate
  <1> QED
    BY <1>0, <1>2, <1>3, <1>5, MoveKeepsHosts

\* The steps whose answer from NICo the reconcile keeps.
LEMMA AnsweredHosts ==
    ASSUME IInv, HostsOK, NEW w \in Managers,
           \/ CreateInstance(w)
           \/ UpdateGetInstance(w) /\ ~UpdateFails(wk[w].o.iid)
           \/ UpdateHealthFromReports(w) \/ UpdateHealthFromJSONB(w)
    PROVE  HostsOK'
  <1> USE DEF machineVars, nicoVars
  <1>0. /\ TypeOK /\ wk[w].pc # "idle" /\ UNCHANGED <<obj, cache>>
        /\ WorkHostOK(wk[w], inst) /\ HostKnown(wk[w].o.iid, wk[w].o.mid, inst)
    BY DEF IInv, CreateInstance, UpdateGetInstance, UpdateHealthFromReports,
       UpdateHealthFromJSONB, HostsOK, WorkHostOK
  <1>1. CASE CreateInstance(w)
    <2>1. PICK i \in Instances :
            /\ inst[i].state = "free"
            /\ inst' = [inst EXCEPT ![i] = RequestedInstance(wk[w].m)]
            /\ wk' = [wk EXCEPT ![w].pc = "createStatus", ![w].i = i,
                                ![w].h = Target[wk[w].m]]
      BY <1>1 DEF CreateInstance
    <2>2. /\ wk'[w].pc = "createStatus" /\ wk'[w].i = i
          /\ wk'[w].h = Target[wk[w].m] /\ wk'[w].o = wk[w].o
          /\ \A v \in Managers \ {w} : wk'[v] = wk[v]
      BY <1>0, <2>1 DEF TypeOK, WorkType
    <2>3. inst'[i].host = Target[wk[w].m]
      BY <1>0, <2>1 DEF TypeOK, RequestedInstance, Unborn
    <2>4. KeepsHosts(inst, inst')
      BY <1>0, <2>1 DEF TypeOK, KeepsHosts
    <2>5. HostKnown(wk[w].o.iid, wk[w].o.mid, inst')
      BY <1>0, <2>4, WorkHostStays DEF WorkHostOK
    <2>6. WorkHostOK(wk'[w], inst')
      BY <2>2, <2>3, <2>5 DEF WorkHostOK, HostKnown, InUpdate
    <2> QED
      BY <1>0, <2>2, <2>4, <2>6, MoveKeepsHosts
  <1>2. CASE UpdateGetInstance(w) /\ ~UpdateFails(wk[w].o.iid)
    <2>1. PICK pc \in {"labels", "health", "status"} :
            wk' = [wk EXCEPT ![w].st = inst[wk[w].o.iid].state,
                             ![w].h = inst[wk[w].o.iid].host,
                             ![w].hl = wk[w].o.healthy, ![w].pc = pc]
      BY <1>2 DEF UpdateGetInstance, AfterLabels
    <2>2. /\ wk'[w].pc = pc /\ wk'[w].h = inst[wk[w].o.iid].host
          /\ wk'[w].o = wk[w].o
          /\ \A v \in Managers \ {w} : wk'[v] = wk[v]
      BY <1>0, <2>1 DEF TypeOK, WorkType
    <2>3. inst' = inst
      BY <1>2 DEF UpdateGetInstance
    <2>4. WorkHostOK(wk'[w], inst')
      BY <1>0, <2>2, <2>3 DEF WorkHostOK, HostKnown
    <2> QED
      BY <1>0, <2>2, <2>3, <2>4, HostsUntouched, MoveKeepsHosts
  <1>3. CASE UpdateHealthFromReports(w) \/ UpdateHealthFromJSONB(w)
    <2>0. PICK is, pc : HealthFound(w, is, pc) /\ pc \in {"clear", "status"}
      BY <1>3 DEF UpdateHealthFromReports, UpdateHealthFromJSONB, AfterHealth
    <2>1. wk' = [wk EXCEPT ![w].hl = is, ![w].pc = pc] /\ pc \in {"clear", "status"}
      BY <2>0 DEF HealthFound
    <2>2. /\ wk'[w].pc = pc /\ wk'[w].h = wk[w].h /\ wk'[w].o = wk[w].o
          /\ \A v \in Managers \ {w} : wk'[v] = wk[v]
      BY <1>0, <2>1 DEF TypeOK, WorkType
    <2>3. inst' = inst /\ wk[w].pc = "health"
      BY <1>3 DEF UpdateHealthFromReports, UpdateHealthFromJSONB
    <2>4. WorkHostOK(wk'[w], inst')
      BY <1>0, <2>0, <2>2, <2>3 DEF WorkHostOK, InUpdate
    <2> QED
      BY <1>0, <2>2, <2>3, <2>4, HostsUntouched, MoveKeepsHosts
  <1> QED
    BY <1>1, <1>2, <1>3

\* The steps that write the Machine.
LEMMA WritingHosts ==
    ASSUME IInv, HostsOK, NEW w \in Managers,
           \/ PersistBlocked(w) \/ CreateSetStatus(w) \/ CreateSetProviderID(w)
           \/ UpdateLabels(w) \/ UpdateSetStatus(w) \/ RemoveFinalizer(w)
    PROVE  HostsOK'
  <1> USE DEF machineVars, nicoVars
  <1>a. wk[w].pc # "idle" /\ UNCHANGED <<cache, inst>>
    BY DEF PersistBlocked, CreateSetStatus, CreateSetProviderID, UpdateLabels,
       UpdateSetStatus, RemoveFinalizer
  <1>0. /\ TypeOK /\ wk[w].m \in Machines /\ wk[w].o \in MachineType
        /\ WorkHostOK(wk[w], inst) /\ HostKnown(wk[w].o.iid, wk[w].o.mid, inst)
    BY <1>a, Knows DEF IInv, HostsOK, WorkHostOK, TypeOK, WorkType
  <1>b. ASSUME NEW new, NEW pc, WriteAndContinue(w, new, pc)
        PROVE  wk'[w].o = new /\ wk'[w].pc = pc /\ wk'[w].h = wk[w].h
    BY <1>0, <1>b DEF WriteAndContinue, TypeOK, WorkType
  <1>1. CASE PersistBlocked(w)
    <2> DEFINE new == BlockedStatus(wk[w].o)
    <2>1. new.iid = wk[w].o.iid /\ new.mid = wk[w].o.mid
      BY <1>0 DEF BlockedStatus, MachineType
    <2>2. WriteAndReturn(w, new)
      BY <1>1 DEF PersistBlocked
    <2> HIDE DEF new
    <2> QED
      BY <1>a, <1>0, <2>1, <2>2, WriteKeepsHosts
  <1>2. CASE CreateSetStatus(w)
    <2> DEFINE new == CreatedStatus(wk[w].o, wk[w].i, wk[w].h)
    <2>1. new.iid = wk[w].i /\ new.mid = wk[w].h
      BY <1>0 DEF CreatedStatus, MachineType
    <2>2. WriteAndContinue(w, new, "createPid") /\ wk[w].pc = "createStatus"
      BY <1>2 DEF CreateSetStatus
    <2> HIDE DEF new
    <2>3. HostKnown(new.iid, new.mid, inst)
      BY <1>0, <2>1, <2>2 DEF WorkHostOK
    <2>4. WorkHostOK(wk'[w], inst)
      BY <1>b, <2>2, <2>3 DEF WorkHostOK, InUpdate
    <2> QED
      BY <1>a, <1>0, <2>2, <2>3, <2>4, WriteKeepsHosts
  <1>3. CASE CreateSetProviderID(w)
    <2> DEFINE new == WithProviderID(wk[w].o, wk[w].i)
    <2>1. new.iid = wk[w].o.iid /\ new.mid = wk[w].o.mid
      BY <1>0 DEF WithProviderID, MachineType
    <2>2. WriteAndContinue(w, new, "dpu") \/ WriteAndReturn(w, new)
      BY <1>3 DEF CreateSetProviderID
    <2> HIDE DEF new
    <2>3. HostKnown(new.iid, new.mid, inst)
      BY <1>0, <2>1
    <2>4. WriteAndContinue(w, new, "dpu") => WorkHostOK(wk'[w], inst)
      BY <1>b, <2>3 DEF WorkHostOK, InUpdate
    <2> QED
      BY <1>a, <1>0, <2>2, <2>3, <2>4, WriteKeepsHosts
  <1>4. CASE UpdateLabels(w)
    <2> DEFINE new == [wk[w].o EXCEPT !.lab = LabelAfter(wk[w].o, wk[w].h)]
    <2>1. new.iid = wk[w].o.iid /\ new.mid = wk[w].o.mid
      BY <1>0 DEF MachineType
    <2>2. PICK pc \in {"status", "health"} :
            WriteAndContinue(w, new, pc) /\ wk[w].pc = "labels"
      BY <1>4 DEF UpdateLabels, AfterLabels
    <2> HIDE DEF new
    <2>3. HostKnown(new.iid, new.mid, inst) /\ HostKnown(new.iid, wk[w].h, inst)
      BY <1>0, <2>1, <2>2 DEF WorkHostOK, InUpdate
    <2>4. WorkHostOK(wk'[w], inst)
      BY <1>b, <2>2, <2>3 DEF WorkHostOK
    <2> QED
      BY <1>a, <1>0, <2>2, <2>3, <2>4, WriteKeepsHosts
  <1>5. CASE UpdateSetStatus(w)
    <2>1. PICK reason :
            WriteAndReturn(w, UpdatedStatus(wk[w].o, wk[w].st, wk[w].h, wk[w].hl, reason))
      BY <1>5 DEF UpdateSetStatus
    <2> DEFINE new == UpdatedStatus(wk[w].o, wk[w].st, wk[w].h, wk[w].hl, reason)
    <2>2. new.iid = wk[w].o.iid /\ (new.mid = wk[w].o.mid \/ new.mid = wk[w].h)
      BY <1>0 DEF UpdatedStatus, MachineType
    <2>3. WriteAndReturn(w, new) /\ wk[w].pc = "status"
      BY <1>5, <2>1 DEF UpdateSetStatus
    <2> HIDE DEF new
    <2>4. HostKnown(new.iid, new.mid, inst)
      BY <1>0, <2>2, <2>3 DEF WorkHostOK, InUpdate
    <2> QED
      BY <1>a, <1>0, <2>3, <2>4, WriteKeepsHosts
  <1>6. CASE RemoveFinalizer(w)
    <2> DEFINE new == Unfinalized(wk[w].o)
    <2>1. \/ new.iid = None
          \/ new.iid = wk[w].o.iid /\ new.mid = wk[w].o.mid
      BY <1>0 DEF Unfinalized, Removed, NoMachine, MachineType
    <2>2. WriteAndReturn(w, new)
      BY <1>6 DEF RemoveFinalizer
    <2> HIDE DEF new
    <2>3. HostKnown(new.iid, new.mid, inst)
      BY <1>0, <2>1 DEF HostKnown
    <2> QED
      BY <1>a, <1>0, <2>2, <2>3, WriteKeepsHosts
  <1> QED
    BY <1>1, <1>2, <1>3, <1>4, <1>5, <1>6

LEMMA UserHosts ==
    ASSUME IInv, HostsOK, NEW m \in Machines, User(m)
    PROVE  HostsOK'
  <1> USE DEF machineVars, nicoVars
  <1>0. TypeOK /\ obj[m] \in MachineType /\ HostKnown(obj[m].iid, obj[m].mid, inst)
    BY DEF IInv, TypeOK, HostsOK
  <1>1. CASE AdoptMachine(m)
    <2>1. PICK i \in Instances, h \in Hosts :
            /\ inst[i].state = "free"
            /\ inst' = [inst EXCEPT ![i] = [Unborn EXCEPT
                            !.state = "Ready", !.owner = m, !.host = h]]
            /\ ForeignWrite(m, [NoMachine EXCEPT !.life = "live", !.fin = {"legacy"},
                                   !.iid = i, !.pid = i, !.mid = h, !.state = "Ready"])
      BY <1>1 DEF AdoptMachine
    <2> DEFINE new == [NoMachine EXCEPT !.life = "live", !.fin = {"legacy"},
                          !.iid = i, !.pid = i, !.mid = h, !.state = "Ready"]
    <2>2. new.iid = i /\ new.mid = h
      BY DEF NoMachine
    <2>3. inst'[i].host = h
      BY <1>0, <2>1 DEF TypeOK, Unborn
    <2>4. KeepsHosts(inst, inst')
      BY <1>0, <2>1 DEF TypeOK, KeepsHosts
    <2>5. Commit(m, new) /\ UNCHANGED <<cache, wk>>
      BY <2>1 DEF ForeignWrite
    <2> HIDE DEF new
    <2>6. HostKnown(new.iid, new.mid, inst')
      BY <2>2, <2>3 DEF HostKnown
    <2> QED
      BY <2>4, <2>5, <2>6, OutsideKeepsHosts
  <1>2. CASE ~AdoptMachine(m)
    <2>1. PICK new \in {[NoMachine EXCEPT !.life = "live"], Removed, obj[m],
                        [obj[m] EXCEPT !.life = "deleting"],
                        [obj[m] EXCEPT !.marked = TRUE]} : ForeignWrite(m, new)
      BY <1>2 DEF User, CreateMachine, DeleteMachine, MarkUnhealthy, Touch
    <2>2. \/ new.iid = None
          \/ new.iid = obj[m].iid /\ new.mid = obj[m].mid
      BY <1>0 DEF NoMachine, Removed, MachineType
    <2>3. inst' = inst
      BY <1>2 DEF User, CreateMachine, DeleteMachine, MarkUnhealthy, Touch
    <2>4. Commit(m, new) /\ UNCHANGED <<cache, wk>>
      BY <2>1 DEF ForeignWrite
    <2>5. HostKnown(new.iid, new.mid, inst')
      BY <1>0, <2>2, <2>3 DEF HostKnown
    <2> QED
      BY <2>3, <2>4, <2>5, HostsUntouched, OutsideKeepsHosts
  <1> QED
    BY <1>1, <1>2

LEMMA NicoHosts ==
    ASSUME IInv, HostsOK,
           \/ \E i \in Instances : Nico(i)
           \/ \E h \in Hosts : HostFault(h) \/ HostRepaired(h)
    PROVE  HostsOK'
  <1>0. TypeOK /\ UNCHANGED <<obj, cache, wk>>
    BY DEF IInv, Nico, Allocate, BecomeReady, ProvisioningFails, Terminated,
       RemovedOutOfBand, OnlyInstance, HostFault, HostRepaired
  <1>1. KeepsHosts(inst, inst')
    <2>1. ASSUME NEW i \in Instances, Nico(i) PROVE KeepsHosts(inst, inst')
      <3>0. inst[i] \in InstanceType
        BY <1>0 DEF TypeOK
      <3>1. PICK new : /\ inst' = [inst EXCEPT ![i] = new]
                       /\ inst[i].state # "Gone"
                       /\ \/ inst[i].host = None \/ new.host = inst[i].host
                          \/ new.state = "Gone"
        <4>1. CASE Allocate(i)
          <5>1. PICK h \in Hosts : OnlyInstance(i, [inst[i] EXCEPT !.host = h])
            BY <4>1 DEF Allocate
          <5> QED
            BY <4>1, <5>1 DEF Allocate, OnlyInstance
        <4>2. CASE BecomeReady(i) \/ ProvisioningFails(i)
          <5>1. /\ [inst[i] EXCEPT !.state = "Ready"].host = inst[i].host
                /\ [inst[i] EXCEPT !.state = "Error"].host = inst[i].host
            BY <3>0 DEF InstanceType
          <5> QED
            BY <4>2, <5>1 DEF BecomeReady, ProvisioningFails, OnlyInstance
        <4>3. CASE Terminated(i) \/ RemovedOutOfBand(i)
          <5>1. Departed(i).state = "Gone"
            BY DEF Departed, Unborn
          <5> QED
            BY <4>3, <5>1 DEF Terminated, RemovedOutOfBand, Alive, OnlyInstance
        <4> QED
          BY <2>1, <4>1, <4>2, <4>3 DEF Nico
      <3> QED
        BY <1>0, <3>1 DEF TypeOK, KeepsHosts
    <2>2. ASSUME NEW h \in Hosts, HostFault(h) \/ HostRepaired(h)
          PROVE  KeepsHosts(inst, inst')
      BY <2>2, HostsUntouched DEF HostFault, HostRepaired
    <2> QED
      BY <2>1, <2>2
  <1> QED
    BY <1>0, <1>1, HostsStay

LEMMA StepHosts ==
    ASSUME IInv, HostsOK, NEW w \in Managers, Step(w) \/ Failure(w)
    PROVE  HostsOK'
  <1>1. CASE \/ CreateInvalid(w) \/ CreateRefused(w) \/ CreateRejected(w)
             \/ Conflict(w) \/ CallFails(w) \/ Crash(w) \/ DeployDpu(w)
             \/ UpdateGetInstance(w) /\ UpdateFails(wk[w].o.iid)
    BY <1>1, ReturningHosts
  <1>2. CASE \/ PreFlight(w) \/ PreFlightBlind(w) \/ ReportMHC(w)
             \/ ReportMHCFails(w) \/ ClearReport(w) \/ ClearReportFails(w)
             \/ DeleteInstance(w)
    BY <1>2, CallingHosts
  <1>3. CASE \/ CreateInstance(w)
             \/ UpdateGetInstance(w) /\ ~UpdateFails(wk[w].o.iid)
             \/ UpdateHealthFromReports(w) \/ UpdateHealthFromJSONB(w)
    BY <1>3, AnsweredHosts
  <1>4. CASE \/ PersistBlocked(w) \/ CreateSetStatus(w) \/ CreateSetProviderID(w)
             \/ UpdateLabels(w) \/ UpdateSetStatus(w) \/ RemoveFinalizer(w)
    BY <1>4, WritingHosts
  <1> QED
    BY <1>1, <1>2, <1>3, <1>4 DEF Step, Failure

LEMMA NextHosts == HInv /\ [Next]_vars => HInv'
  <1> SUFFICES ASSUME HInv, [Next]_vars PROVE HInv'
    OBVIOUS
  <1>0. IInv /\ HostsOK /\ IInv'
    BY NextInvariant DEF HInv
  <1>1. CASE Next
    BY <1>0, <1>1, ReconcileHosts, StepHosts, UserHosts, NicoHosts DEF Next, HInv
  <1>2. CASE UNCHANGED vars
    BY <1>0, <1>2 DEF vars, HInv, HostsOK
  <1> QED
    BY <1>1, <1>2

LEMMA InitHosts == Init => HInv
  <1> SUFFICES ASSUME Init PROVE HostsOK
    BY InitInvariant DEF HInv
  <1>1. ASSUME NEW w \in Managers PROVE wk[w] = Idle
    BY DEF Init
  <1> QED
    BY <1>1, IdleKnowsNothing DEF Init, HostsOK, HostKnown, NoMachine

\* Every version of a Machine that is about, in the API server, in a cache or
\* in the hands of a reconcile, names the host of the instance it records, or
\* that instance is gone.
THEOREM HostsInvariance == Spec => []HInv
  BY InitHosts, NextHosts, PTL DEF Spec

----------------------------------------------------------------------------
(* Remediation.                                                            *)

LEMMA StepReports ==
    ASSUME HInv, Next, NEW h \in Hosts, h \in mhc' \ mhc
    PROVE  \E w \in Managers :
             /\ wk[w].pc = "report"
             /\ inst[wk[w].o.iid].host = h \/ NotFound(wk[w].o.iid)
  <1> USE DEF machineVars, nicoVars
  <1>1. PICK w \in Managers : ReportMHC(w)
    <2>1. ~\E w \in Managers, m \in Machines : Reconcile(w, m) \/ CacheSync(w, m)
      BY DEF Reconcile, AddFinalizer, Exists, ReconcileDelete, CacheSync
    <2>2. ~\E m \in Machines : User(m)
      BY DEF User, CreateMachine, AdoptMachine, DeleteMachine, MarkUnhealthy, Touch
    <2>3. ~\E i \in Instances : Nico(i)
      BY DEF Nico, Allocate, BecomeReady, ProvisioningFails, Terminated,
         RemovedOutOfBand, OnlyInstance
    <2>4. ~\E k \in Hosts : HostFault(k) \/ HostRepaired(k)
      BY DEF HostFault, HostRepaired
    <2>5. ASSUME NEW w \in Managers, Step(w) \/ Failure(w), ~ReportMHC(w)
          PROVE  FALSE
      BY <2>5 DEF Step, Failure, CreateInvalid, PreFlight, PreFlightBlind,
         PersistBlocked, CreateInstance, CreateRefused, CreateRejected,
         CreateSetStatus, CreateSetProviderID, DeployDpu, UpdateGetInstance,
         UpdateLabels, UpdateHealthFromReports, UpdateHealthFromJSONB,
         ClearReport, ClearReportFails, UpdateSetStatus, ReportMHCFails,
         DeleteInstance, RemoveFinalizer, Conflict, CallFails, Crash
    <2> QED
      BY <2>1, <2>2, <2>3, <2>4, <2>5 DEF Next
  <1>2. wk[w].pc = "report" /\ h = wk[w].o.mid
    BY <1>1 DEF ReportMHC
  <1>3. wk[w].o.iid # None /\ wk[w].o.mid # None
    BY <1>2, Knows DEF HInv, StepOK
  <1>4. HostKnown(wk[w].o.iid, wk[w].o.mid, inst)
    BY <1>2 DEF HInv, HostsOK, WorkHostOK
  <1> QED
    BY <1>2, <1>3, <1>4 DEF HostKnown, NotFound

\* A remediation reports on the host its Machine runs on, or on one it ran on
\* if the instance has since gone, for any number of managers, crashes and
\* stale reads (actuator.go, Delete and reportMHCHealthIssue).
THEOREM RemediationReports == Spec => ReportsOwnHost
  <1>1. HInv /\ [Next]_vars =>
          [\A h \in Hosts : h \in mhc' \ mhc =>
             \E w \in Managers :
                /\ wk[w].pc = "report"
                /\ inst[wk[w].o.iid].host = h \/ NotFound(wk[w].o.iid)]_vars
    BY StepReports
  <1> QED
    BY <1>1, HostsInvariance, PTL DEF Spec, ReportsOwnHost

============================================================================
