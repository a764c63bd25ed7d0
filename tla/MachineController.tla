------------------------- MODULE MachineController -------------------------
(***************************************************************************)
(* The machine controller: MachineReconciler (pkg/controllers/machine) and *)
(* the Actuator it drives (pkg/actuators/machine), working on Machine      *)
(* objects kept by the Kubernetes API server and on instances kept by the  *)
(* NICo service.                                                           *)
(*                                                                         *)
(* A manager process runs one reconcile at a time (the controller keeps    *)
(* the default of one worker).  A reconcile copies a Machine from the      *)
(* process's informer cache, which lags the API server, and then makes     *)
(* remote calls one after another; each call is a step, because anything   *)
(* may happen between two of them.  Writes to the API server carry the     *)
(* resourceVersion of the copy and are refused when it is not current.     *)
(* Several managers run at once when deployments overlap: leader election  *)
(* is off unless asked for.                                                *)
(*                                                                         *)
(* A reply that is lost after the call took effect is the successful call  *)
(* followed by CallFails or Crash at the next step.                        *)
(***************************************************************************)
EXTENDS Integers, FiniteSets

CONSTANTS
    Machines,       \* names of Machine objects, each used once
    Managers,       \* manager processes that may be running
    Instances,      \* the ids NICo can hand out; bounds the creations
    Hosts,          \* the bare-metal hosts of the site
    None,           \* absence of an id
    Target,         \* spec.machineId: the host asked for, or None
    ProviderSpec,   \* "missing", "invalid" when Create always refuses it
                    \* (validation, tenant capability), or "valid"
    AllowUnhealthy, \* machines with spec.allowUnhealthyMachine
    WithDpu,        \* machines with spec.dpuExtensionServices
    Legacy,         \* machines an older release left, with its finalizer
    Remediable,     \* machines a MachineHealthCheck may mark unhealthy
    FaultKinds,     \* what may befall a host
    MaxFaultBlockedAttempts,
    MaxFaults,      \* bound on failures, crashes and foreign writes
    StaleReads,     \* may a reconcile start from a cache that lags?
    GaugeBound      \* bound on the gauges, which saturate; 0 drops them

ASSUME NoneAssumption == None \notin Instances \cup Hosts \cup Machines

ASSUME SpecAssumption ==
    /\ Target \in [Machines -> Hosts \cup {None}]
    /\ ProviderSpec \in [Machines -> {"valid", "invalid", "missing"}]
    /\ AllowUnhealthy \subseteq Machines
    /\ WithDpu \subseteq Machines
    /\ Legacy \subseteq Machines
    /\ Remediable \subseteq Machines
    /\ FaultKinds \subseteq {"warning", "critical", "invalid"}
    /\ StaleReads \in BOOLEAN

ASSUME BoundAssumption ==
    /\ MaxFaultBlockedAttempts \in Nat \ {0}
    /\ MaxFaults \in Nat
    /\ GaugeBound \in Nat

VARIABLES
    obj,        \* the Machine objects, as the API server holds them
    cache,      \* cache[w][m]: the copy in the informer cache of manager w
    synced,     \* <<w, m>> such that cache[w][m] is the current version
    wk,         \* the reconcile manager w is in the middle of
    base,       \* managers whose working copy is the current version
    parked,     \* <<w, m>> that w dropped from its queue, terminal error
    inst,       \* the instances, as NICo holds them
    fault,      \* what NICo knows to be wrong with a host
    mhc,        \* hosts that carry a health report of source k8s-mhc
    managed,    \* gauge nico_mapi_machines_managed of each process
    unhealthy,  \* gauge nico_mapi_machines_unhealthy of each process
    faults      \* failures used up so far

vars == <<obj, cache, synced, wk, base, parked, inst, fault, mhc,
          managed, unhealthy, faults>>

machineVars == <<obj, synced>>
nicoVars    == <<inst, fault, mhc>>
gauges      == <<managed, unhealthy>>

----------------------------------------------------------------------------
(* State.                                                                  *)

Ids   == Instances \cup {None}
Names == Hosts \cup {None}

\* The topology labels: none yet, those of the site, or with those the host.
Labels == Names \cup {"unlabelled"}

States  == {"none", "Starting", "Ready", "Error", "Terminating"}
Healths == {"Unknown", "True", "False"}
Attempts == 0..MaxFaultBlockedAttempts
Reasons == {"none", "PreFlightHealthCheckFailed", "ProvisioningTimeout"}

\* A Machine: deletion timestamp and finalizers, the MHC annotation, the
\* provider ID, the topology labels, and of its status the instance, host and
\* state recorded, the condition MachineHealthy, the counter kept in the
\* condition FaultBlockedCreation, and errorReason.
MachineType == [life: {"absent", "live", "deleting", "gone"},
                fin: SUBSET {"nico", "legacy"}, marked: BOOLEAN,
                iid: Ids, pid: Ids, mid: Names, lab: Labels, state: States,
                healthy: Healths, attempts: Attempts,
                failed: Reasons]

NoMachine == [life |-> "absent", fin |-> {}, marked |-> FALSE,
              iid |-> None, pid |-> None, mid |-> None, lab |-> "unlabelled",
              state |-> "none", healthy |-> "Unknown", attempts |-> 0,
              failed |-> "none"]

Removed == [NoMachine EXCEPT !.life = "gone"]

\* "Starting" stands for Pending, Provisioning and Configuring.
InstanceType == [state: {"free", "Gone"} \cup (States \ {"none"}),
                 owner: Machines \cup {None}, host: Names, dpu: BOOLEAN]

Unborn == [state |-> "free", owner |-> None, host |-> None, dpu |-> FALSE]

Steps == {"create", "block", "createCall", "createStatus", "createPid", "dpu",
          "update", "labels", "health", "clear", "status",
          "report", "delete", "unfinalize"}

\* The local variables of a reconcile: the machine and its copy of it, the
\* instance created, the state and host NICo answered with, the health found.
WorkType == [pc: Steps \cup {"idle"}, m: Machines \cup {None}, o: MachineType,
             i: Ids, st: States, h: Names, hl: Healths]

Idle == [pc |-> "idle", m |-> None, o |-> NoMachine, i |-> None,
         st |-> "none", h |-> None, hl |-> "Unknown"]

\* Every variable keeps its type: whatever NICo answers, what a reconcile
\* copies from it into its status is a state an instance can be in, and the
\* counter of blocked attempts stays within its maximum (actuator.go, Update
\* and checkPreFlightHealth).
TypeOK ==
    /\ obj \in [Machines -> MachineType]
    /\ cache \in [Managers -> [Machines -> MachineType]]
    /\ synced \subseteq Managers \X Machines
    /\ wk \in [Managers -> WorkType]
    /\ base \subseteq Managers
    /\ parked \subseteq Managers \X Machines
    /\ inst \in [Instances -> InstanceType]
    /\ fault \in [Hosts -> {"none", "warning", "critical", "invalid"}]
    /\ mhc \subseteq Hosts
    /\ managed \in [Managers -> Int]
    /\ unhealthy \in [Managers -> Int]
    /\ faults \in 0..MaxFaults

Init ==
    /\ obj = [m \in Machines |-> NoMachine]
    /\ cache = [w \in Managers |-> [m \in Machines |-> NoMachine]]
    /\ synced = Managers \X Machines
    /\ wk = [w \in Managers |-> Idle]
    /\ base = {}
    /\ parked = {}
    /\ inst = [i \in Instances |-> Unborn]
    /\ fault = [h \in Hosts |-> "none"]
    /\ mhc = {}
    /\ managed = [w \in Managers |-> 0]
    /\ unhealthy = [w \in Managers |-> 0]
    /\ faults = 0

----------------------------------------------------------------------------
(* The API server: writes are conditional on the resourceVersion.          *)

WorkersOn(m) == {v \in Managers : wk[v].m = m}

\* The object of m becomes new; whoever holds or caches it is out of date.
Commit(m, new) ==
    /\ obj' = [obj EXCEPT ![m] = new]
    /\ synced' = {p \in synced : p[2] # m}

\* Update or Status().Update of the working copy of w, accepted; the answer
\* replaces the copy and the reconcile goes on at step pc.
WriteAndContinue(w, new, pc) ==
    /\ w \in base
    /\ Commit(wk[w].m, new)
    /\ base' = (base \ WorkersOn(wk[w].m)) \cup {w}
    /\ wk' = [wk EXCEPT ![w].o = new, ![w].pc = pc]

\* The same, as the last thing the reconcile does.
WriteAndReturn(w, new) ==
    /\ w \in base
    /\ Commit(wk[w].m, new)
    /\ base' = base \ WorkersOn(wk[w].m)
    /\ wk' = [wk EXCEPT ![w] = Idle]

\* The reconcile of w ends without writing.
Return(w) ==
    /\ wk' = [wk EXCEPT ![w] = Idle]
    /\ base' = base \ {w}

Goto(w, pc) == wk' = [wk EXCEPT ![w].pc = pc]

\* One more failure of the environment, if the bound allows it.
Spend ==
    /\ faults < MaxFaults
    /\ faults' = faults + 1

Saturate(n) == IF n > GaugeBound THEN GaugeBound
               ELSE IF n < -GaugeBound THEN -GaugeBound ELSE n

Bump(gauge, w, d) == [gauge EXCEPT ![w] = Saturate(@ + d)]

----------------------------------------------------------------------------
(* NICo, as the actuator's calls see it.                                   *)

Alive(i) == inst[i].state \in {"Starting", "Ready", "Error"}

\* GetInstance and DeleteInstance answer 404.
NotFound(i) == inst[i].state = "Gone"

InUse(h) == \E i \in Instances : inst[i].host = h

\* Some alert of h is classified critical; the k8s-mhc report holds one.
Critical(h) == fault[h] = "critical" \/ h \in mhc

----------------------------------------------------------------------------
(* Reconcile: take a Machine off the queue.                                *)

Reads(w, m) ==
    /\ wk[w].pc = "idle"
    /\ <<w, m>> \notin parked
    /\ StaleReads \/ <<w, m>> \in synced

Start(w, m, pc) ==
    /\ wk' = [wk EXCEPT ![w] = [Idle EXCEPT !.pc = pc, !.m = m,
                                            !.o = cache[w][m]]]
    /\ base' = IF <<w, m>> \in synced THEN base \cup {w} ELSE base

\* reconcileNormal without the finalizer: Update, then requeue.  From a copy
\* that is not current the Update is refused and nothing happens.
AddFinalizer(w, m) ==
    /\ Reads(w, m)
    /\ <<w, m>> \in synced
    /\ cache[w][m].life = "live"
    /\ "nico" \notin cache[w][m].fin
    /\ Commit(m, [cache[w][m] EXCEPT !.fin = @ \cup {"nico"}])
    /\ base' = base \ WorkersOn(m)
    /\ UNCHANGED <<cache, wk, parked, nicoVars, gauges, faults>>

\* Mutant: only an instance that is Ready counts as existing.
ExistsAnswer_ReadyOnly(o) == o.iid # None /\ inst[o.iid].state = "Ready"

\* Exists answers false without an instance id and on 404.
ExistsAnswer(o) == o.iid # None /\ ~NotFound(o.iid)

\* reconcileNormal with the finalizer: Exists, then Create or Update.
\* A providerSpec that is missing only matters once there is an id to ask for.
Exists(w, m) ==
    /\ Reads(w, m)
    /\ cache[w][m].life = "live"
    /\ "nico" \in cache[w][m].fin
    /\ cache[w][m].iid = None \/ ProviderSpec[m] # "missing"
    /\ Start(w, m, IF ExistsAnswer(cache[w][m]) THEN "update" ELSE "create")
    /\ UNCHANGED <<machineVars, cache, parked, nicoVars, gauges, faults>>

\* Mutant: instances that never became Ready are not deprovisioned.
DeleteStep_ReadyOnly(o) == IF o.state # "Ready" THEN "unfinalize"
                           ELSE IF o.marked /\ o.mid # None THEN "report"
                           ELSE "delete"

\* Delete without an id has nothing to do; a remediation reports first.
DeleteStep(o) == IF o.iid = None THEN "unfinalize"
                 ELSE IF o.marked /\ o.mid # None THEN "report" ELSE "delete"

\* Mutant: a Machine that failed is torn down as if it had been deleted.
DeletionRequested_OrFailed(o) == o.life = "deleting" \/ o.failed # "none"

DeletionRequested(o) == o.life = "deleting"

\* reconcileDelete up to its first call; Delete reads the providerSpec before
\* anything else, and returns an error without it.
ReconcileDelete(w, m) ==
    /\ Reads(w, m)
    /\ DeletionRequested(cache[w][m])
    /\ ProviderSpec[m] # "missing"
    /\ Start(w, m, DeleteStep(cache[w][m]))
    /\ UNCHANGED <<machineVars, cache, parked, nicoVars, gauges, faults>>

----------------------------------------------------------------------------
(* Actuator.Create                                                         *)

\* checkPreFlightHealth applies to targeted hosts only.
PreFlightBlocks(m) ==
    /\ Target[m] # None
    /\ m \notin AllowUnhealthy
    /\ Critical(Target[m]) \/ fault[Target[m]] = "invalid"

CreateInvalid(w) ==
    /\ wk[w].pc = "create"
    /\ ProviderSpec[wk[w].m] # "valid"
    /\ Return(w)
    /\ UNCHANGED <<machineVars, cache, parked, nicoVars, gauges, faults>>

PreFlight(w) ==
    /\ wk[w].pc = "create"
    /\ ProviderSpec[wk[w].m] = "valid"
    /\ Goto(w, IF PreFlightBlocks(wk[w].m) THEN "block" ELSE "createCall")
    /\ UNCHANGED <<machineVars, cache, base, parked, nicoVars, gauges, faults>>

\* Neither health API nor the validation runs can be read: not blocked.
PreFlightBlind(w) ==
    /\ wk[w].pc = "create"
    /\ ProviderSpec[wk[w].m] = "valid"
    /\ PreFlightBlocks(wk[w].m)
    /\ Spend
    /\ Goto(w, "createCall")
    /\ UNCHANGED <<machineVars, cache, base, parked, nicoVars, gauges>>

\* Mutant: the earlier attempts are not found again.
NextAttempt_Forgets(o) == 1

\* One more than the attempt recorded; beyond the maximum nothing changes.
NextAttempt(o) == IF o.attempts < MaxFaultBlockedAttempts
                  THEN o.attempts + 1 ELSE o.attempts

BlockedStatus(o) ==
    [o EXCEPT !.attempts = NextAttempt(o),
              !.healthy = "False",
              !.failed = IF NextAttempt(o) >= MaxFaultBlockedAttempts
                         THEN "PreFlightHealthCheckFailed" ELSE @]

PersistBlocked(w) ==
    /\ wk[w].pc = "block"
    /\ WriteAndReturn(w, BlockedStatus(wk[w].o))
    /\ UNCHANGED <<cache, parked, nicoVars, gauges, faults>>

\* buildInstanceRequest: what the instance takes from the Machine is whose it
\* is and, for targeted provisioning, its host.
RequestedInstance(m) ==
    [Unborn EXCEPT !.state = "Starting", !.owner = m, !.host = Target[m]]

\* NICo accepts the request: a new instance.
CreateInstance(w) ==
    /\ wk[w].pc = "createCall"
    /\ Target[wk[w].m] # None => ~InUse(Target[wk[w].m])
    /\ \E i \in Instances :
        /\ inst[i].state = "free"
        /\ inst' = [inst EXCEPT ![i] = RequestedInstance(wk[w].m)]
        /\ wk' = [wk EXCEPT ![w].pc = "createStatus", ![w].i = i,
                            ![w].h = Target[wk[w].m]]
    /\ UNCHANGED <<machineVars, cache, base, parked, fault, mhc, gauges, faults>>

\* NICo refuses for now: the host is taken, or the site has nothing left.
CreateRefused(w) ==
    /\ wk[w].pc = "createCall"
    /\ \/ Target[wk[w].m] # None /\ InUse(Target[wk[w].m])
       \/ \A i \in Instances : inst[i].state # "free"
    /\ Return(w)
    /\ UNCHANGED <<machineVars, cache, parked, nicoVars, gauges, faults>>

\* NICo answers 400, a terminal error: handleActuatorError does not requeue.
\* An event that reached the cache during the reconcile has requeued it.
CreateRejected(w) ==
    /\ wk[w].pc = "createCall"
    /\ Spend
    /\ parked' = IF w \notin base /\ <<w, wk[w].m>> \in synced
                 THEN parked ELSE parked \cup {<<w, wk[w].m>>}
    /\ Return(w)
    /\ UNCHANGED <<machineVars, cache, nicoVars, gauges>>

\* Mutant: the instance id does not reach the status.
CreatedStatus_NoId(o, i, h) ==
    [o EXCEPT !.mid = h, !.state = "Starting",
              !.healthy = "Unknown", !.attempts = 0]

\* Mutant: the host of the instance before stays until Update finds another.
CreatedStatus_KeepsHost(o, i, h) ==
    [o EXCEPT !.iid = i, !.mid = IF h = None THEN @ ELSE h, !.state = "Starting",
              !.healthy = "Unknown", !.attempts = 0]

\* The status Create writes is built afresh: earlier conditions are dropped.
CreatedStatus(o, i, h) ==
    [o EXCEPT !.iid = i, !.mid = h, !.state = "Starting",
              !.healthy = "Unknown", !.attempts = 0]

CreateSetStatus(w) ==
    /\ wk[w].pc = "createStatus"
    /\ WriteAndContinue(w, CreatedStatus(wk[w].o, wk[w].i, wk[w].h), "createPid")
    /\ UNCHANGED <<cache, parked, nicoVars, gauges, faults>>

WithProviderID(o, i) == [o EXCEPT !.pid = i]

CreateSetProviderID(w) ==
    /\ wk[w].pc = "createPid"
    /\ IF wk[w].m \in WithDpu
       THEN /\ WriteAndContinue(w, WithProviderID(wk[w].o, wk[w].i), "dpu")
            /\ UNCHANGED managed
       ELSE /\ WriteAndReturn(w, WithProviderID(wk[w].o, wk[w].i))
            /\ managed' = Bump(managed, w, 1)
    /\ UNCHANGED <<cache, parked, nicoVars, unhealthy, faults>>

\* UpdateInstance on an instance that is gone fails.
DeployDpu(w) ==
    /\ wk[w].pc = "dpu"
    /\ IF NotFound(wk[w].i)
       THEN UNCHANGED <<inst, managed>>
       ELSE /\ inst' = [inst EXCEPT ![wk[w].i].dpu = TRUE]
            /\ managed' = Bump(managed, w, 1)
    /\ Return(w)
    /\ UNCHANGED <<machineVars, cache, parked, fault, mhc, unhealthy, faults>>

----------------------------------------------------------------------------
(* Actuator.Update                                                         *)

\* Mutant: the error of GetInstance is not looked at.
UpdateFails_Never(i) == FALSE

UpdateFails(i) == NotFound(i)

\* setTopologyLabels: a label is set or replaced, never taken away.
LabelAfter(o, h) == IF h = None /\ o.lab # "unlabelled" THEN o.lab ELSE h

\* Health is looked up only when a host is assigned.
AfterLabels(h) == IF h = None THEN "status" ELSE "health"

\* GetInstance again; a 404 is an error here.  Labels are written only when
\* they change.
UpdateGetInstance(w) ==
    LET i == wk[w].o.iid IN
    /\ wk[w].pc = "update"
    /\ IF UpdateFails(i)
       THEN Return(w)
       ELSE /\ wk' = [wk EXCEPT ![w].st = inst[i].state,
                                ![w].h = inst[i].host,
                                ![w].hl = wk[w].o.healthy,
                                ![w].pc =
                            IF LabelAfter(wk[w].o, inst[i].host) = wk[w].o.lab
                            THEN AfterLabels(inst[i].host) ELSE "labels"]
            /\ base' = base
    /\ UNCHANGED <<machineVars, cache, parked, nicoVars, gauges, faults>>

UpdateLabels(w) ==
    /\ wk[w].pc = "labels"
    /\ WriteAndContinue(w, [wk[w].o EXCEPT !.lab = LabelAfter(wk[w].o, wk[w].h)],
                        AfterLabels(wk[w].h))
    /\ UNCHANGED <<cache, parked, nicoVars, gauges, faults>>

\* trackUnhealthyGauge
GaugeStep(was, is) == IF was # "False" /\ is = "False" THEN 1
                      ELSE IF was = "False" /\ is # "False" THEN -1 ELSE 0

HealthFound(w, is, pc) ==
    /\ wk' = [wk EXCEPT ![w].hl = is, ![w].pc = pc]
    /\ unhealthy' = Bump(unhealthy, w, GaugeStep(wk[w].hl, is))

HealthOf(h) == IF Critical(h) THEN "False" ELSE "True"

\* The k8s-mhc report goes when the machine turns from unhealthy to healthy.
AfterHealth(was, is) == IF was = "False" /\ is # "False" THEN "clear" ELSE "status"

UpdateHealthFromReports(w) ==
    LET is == HealthOf(wk[w].h) IN
    /\ wk[w].pc = "health"
    /\ HealthFound(w, is, AfterHealth(wk[w].hl, is))
    /\ UNCHANGED <<machineVars, cache, base, parked, nicoVars, managed, faults>>

\* The HealthReport API is down: the health kept with the host is read
\* instead, or nothing at all; no report is cleared.
UpdateHealthFromJSONB(w) ==
    /\ wk[w].pc = "health"
    /\ Spend
    /\ \E is \in {HealthOf(wk[w].h), wk[w].hl} : HealthFound(w, is, "status")
    /\ UNCHANGED <<machineVars, cache, base, parked, nicoVars, managed>>

\* DeleteMachineHealthReport, on the host NICo answered with; never fatal.
ClearReport(w) ==
    /\ wk[w].pc = "clear"
    /\ mhc' = mhc \ {wk[w].h}
    /\ Goto(w, "status")
    /\ UNCHANGED <<machineVars, cache, base, parked, inst, fault, gauges, faults>>

ClearReportFails(w) ==
    /\ wk[w].pc = "clear"
    /\ Spend
    /\ Goto(w, "status")
    /\ UNCHANGED <<machineVars, cache, base, parked, nicoVars, gauges>>

\* checkProvisioningTimeout: errorReason stays, or an instance that is still
\* starting has been doing so for longer than ProvisioningTimeout.
ReasonsAfter(o, st) ==
    {o.failed} \cup {r \in {"ProvisioningTimeout"} : st = "Starting"}

\* Mutant: a machine once healthy stays healthy.
UpdatedStatus_StaysHealthy(o, st, h, hl, reason) ==
    [o EXCEPT !.state = st, !.mid = IF h = None THEN @ ELSE h,
              !.healthy = IF @ = "True" THEN @ ELSE hl, !.failed = reason]

UpdatedStatus(o, st, h, hl, reason) ==
    [o EXCEPT !.state = st, !.mid = IF h = None THEN @ ELSE h,
              !.healthy = hl, !.failed = reason]

UpdateSetStatus(w) ==
    /\ wk[w].pc = "status"
    /\ \E reason \in ReasonsAfter(wk[w].o, wk[w].st) :
        WriteAndReturn(w, UpdatedStatus(wk[w].o, wk[w].st, wk[w].h, wk[w].hl, reason))
    /\ UNCHANGED <<cache, parked, nicoVars, gauges, faults>>

----------------------------------------------------------------------------
(* Actuator.Delete and the end of reconcileDelete                          *)

\* reportMHCHealthIssue, on the host the status records; never fatal.
ReportMHC(w) ==
    /\ wk[w].pc = "report"
    /\ mhc' = mhc \cup {wk[w].o.mid}
    /\ Goto(w, "delete")
    /\ UNCHANGED <<machineVars, cache, base, parked, inst, fault, gauges, faults>>

ReportMHCFails(w) ==
    /\ wk[w].pc = "report"
    /\ Spend
    /\ Goto(w, "delete")
    /\ UNCHANGED <<machineVars, cache, base, parked, nicoVars, gauges>>

\* 200, 202 and 204 are success, and so is 404.
DeleteInstance(w) ==
    /\ wk[w].pc = "delete"
    /\ inst' = IF NotFound(wk[w].o.iid) THEN inst
               ELSE [inst EXCEPT ![wk[w].o.iid].state = "Terminating"]
    /\ managed' = Bump(managed, w, -1)
    /\ Goto(w, "unfinalize")
    /\ UNCHANGED <<machineVars, cache, base, parked, fault, mhc, unhealthy, faults>>

\* Mutant: the finalizer of the older release is left behind.
OwnFinalizers_NotLegacy == {"nico"}

OwnFinalizers == {"nico", "legacy"}

\* Both finalizers go, and with the last one the object.
Unfinalized(o) == IF o.fin \subseteq OwnFinalizers THEN Removed
                  ELSE [o EXCEPT !.fin = @ \ OwnFinalizers]

RemoveFinalizer(w) ==
    /\ wk[w].pc = "unfinalize"
    /\ WriteAndReturn(w, Unfinalized(wk[w].o))
    /\ UNCHANGED <<cache, parked, nicoVars, gauges, faults>>

----------------------------------------------------------------------------
(* What may go wrong in a reconcile.                                       *)

Writes == {"block", "createStatus", "createPid", "labels", "status", "unfinalize"}

\* The API server refuses a write whose resourceVersion is not current.
Conflict(w) ==
    /\ wk[w].pc \in Writes
    /\ w \notin base
    /\ Return(w)
    /\ UNCHANGED <<machineVars, cache, parked, nicoVars, gauges, faults>>

\* A call fails without effect and the reconcile returns the error.
CallFails(w) ==
    /\ wk[w].pc \in Steps \ {"health", "clear", "report"}
    /\ Spend
    /\ Return(w)
    /\ UNCHANGED <<machineVars, cache, parked, nicoVars, gauges>>

\* The process dies and starts again, with a fresh cache, queue and gauges.
Crash(w) ==
    /\ Spend
    /\ Return(w)
    /\ cache' = [cache EXCEPT ![w] = obj]
    /\ synced' = synced \cup ({w} \X Machines)
    /\ parked' = {p \in parked : p[1] # w}
    /\ managed' = [managed EXCEPT ![w] = 0]
    /\ unhealthy' = [unhealthy EXCEPT ![w] = 0]
    /\ UNCHANGED <<obj, nicoVars>>

\* The watch delivers the current version, an event that requeues m.
CacheSync(w, m) ==
    /\ <<w, m>> \notin synced
    /\ cache' = [cache EXCEPT ![w][m] = obj[m]]
    /\ synced' = synced \cup {<<w, m>>}
    /\ parked' = parked \ {<<w, m>>}
    /\ UNCHANGED <<obj, wk, base, nicoVars, gauges, faults>>

----------------------------------------------------------------------------
(* Other writers of Machine objects.                                       *)

ForeignWrite(m, new) ==
    /\ Commit(m, new)
    /\ base' = base \ WorkersOn(m)
    /\ UNCHANGED <<cache, wk, parked>>

CreateMachine(m) ==
    /\ obj[m].life = "absent"
    /\ m \notin Legacy
    /\ ForeignWrite(m, [NoMachine EXCEPT !.life = "live"])
    /\ UNCHANGED <<nicoVars, gauges, faults>>

\* A Machine whose instance an older release created.
AdoptMachine(m) ==
    /\ obj[m].life = "absent"
    /\ m \in Legacy
    /\ \E i \in Instances, h \in Hosts :
        /\ inst[i].state = "free"
        /\ ~InUse(h)
        /\ inst' = [inst EXCEPT ![i] = [Unborn EXCEPT
                        !.state = "Ready", !.owner = m, !.host = h]]
        /\ ForeignWrite(m, [NoMachine EXCEPT !.life = "live", !.fin = {"legacy"},
                               !.iid = i, !.pid = i, !.mid = h, !.state = "Ready"])
    /\ UNCHANGED <<fault, mhc, gauges, faults>>

\* Deletion waits for the finalizers.
DeleteMachine(m) ==
    /\ obj[m].life = "live"
    /\ ForeignWrite(m, IF obj[m].fin = {} THEN Removed
                       ELSE [obj[m] EXCEPT !.life = "deleting"])
    /\ UNCHANGED <<nicoVars, gauges, faults>>

\* MachineHealthCheck annotates the Machine it is about to delete.
MarkUnhealthy(m) ==
    /\ m \in Remediable
    /\ obj[m].life = "live"
    /\ ~obj[m].marked
    /\ ForeignWrite(m, [obj[m] EXCEPT !.marked = TRUE])
    /\ UNCHANGED <<nicoVars, gauges, faults>>

\* Any other write, of a field this provider does not read.
Touch(m) ==
    /\ obj[m].life \in {"live", "deleting"}
    /\ Spend
    /\ ForeignWrite(m, obj[m])
    /\ UNCHANGED <<nicoVars, gauges>>

----------------------------------------------------------------------------
(* NICo on its own.                                                        *)

OnlyInstance(i, new) ==
    /\ inst' = [inst EXCEPT ![i] = new]
    /\ UNCHANGED <<obj, cache, synced, wk, base, parked, fault, mhc, gauges>>

Allocate(i) ==
    /\ inst[i].state = "Starting"
    /\ inst[i].host = None
    /\ \E h \in Hosts : ~InUse(h) /\ OnlyInstance(i, [inst[i] EXCEPT !.host = h])
    /\ UNCHANGED faults

BecomeReady(i) ==
    /\ inst[i].state = "Starting"
    /\ inst[i].host # None
    /\ OnlyInstance(i, [inst[i] EXCEPT !.state = "Ready"])
    /\ UNCHANGED faults

ProvisioningFails(i) ==
    /\ inst[i].state = "Starting"
    /\ Spend
    /\ OnlyInstance(i, [inst[i] EXCEPT !.state = "Error"])

Departed(i) == [Unborn EXCEPT !.state = "Gone", !.owner = inst[i].owner]

Terminated(i) ==
    /\ inst[i].state = "Terminating"
    /\ OnlyInstance(i, Departed(i))
    /\ UNCHANGED faults

\* Someone removes the instance behind the controller's back.
RemovedOutOfBand(i) ==
    /\ Alive(i)
    /\ Spend
    /\ OnlyInstance(i, Departed(i))

HostFault(h) ==
    /\ fault[h] = "none"
    /\ Spend
    /\ \E k \in FaultKinds : fault' = [fault EXCEPT ![h] = k]
    /\ UNCHANGED <<obj, cache, synced, wk, base, parked, inst, mhc, gauges>>

HostRepaired(h) ==
    /\ fault[h] # "none"
    /\ fault' = [fault EXCEPT ![h] = "none"]
    /\ UNCHANGED <<obj, cache, synced, wk, base, parked, inst, mhc, gauges, faults>>

----------------------------------------------------------------------------
Reconcile(w, m) == AddFinalizer(w, m) \/ Exists(w, m) \/ ReconcileDelete(w, m)

\* The steps of a reconcile in which nothing goes wrong.
Step(w) ==
    \/ CreateInvalid(w) \/ PreFlight(w) \/ PersistBlocked(w)
    \/ CreateInstance(w) \/ CreateRefused(w)
    \/ CreateSetStatus(w) \/ CreateSetProviderID(w) \/ DeployDpu(w)
    \/ UpdateGetInstance(w) \/ UpdateLabels(w)
    \/ UpdateHealthFromReports(w) \/ ClearReport(w) \/ UpdateSetStatus(w)
    \/ ReportMHC(w) \/ DeleteInstance(w) \/ RemoveFinalizer(w)
    \/ Conflict(w)

Failure(w) ==
    \/ PreFlightBlind(w) \/ CreateRejected(w) \/ UpdateHealthFromJSONB(w)
    \/ ClearReportFails(w) \/ ReportMHCFails(w) \/ CallFails(w) \/ Crash(w)

User(m) ==
    \/ CreateMachine(m) \/ AdoptMachine(m) \/ DeleteMachine(m)
    \/ MarkUnhealthy(m) \/ Touch(m)

Nico(i) ==
    \/ Allocate(i) \/ BecomeReady(i) \/ ProvisioningFails(i)
    \/ Terminated(i) \/ RemovedOutOfBand(i)

Next ==
    \/ \E w \in Managers, m \in Machines : Reconcile(w, m) \/ CacheSync(w, m)
    \/ \E w \in Managers : Step(w) \/ Failure(w)
    \/ \E m \in Machines : User(m)
    \/ \E i \in Instances : Nico(i)
    \/ \E h \in Hosts : HostFault(h) \/ HostRepaired(h)

Spec == Init /\ [][Next]_vars

\* A reconcile under way finishes; the queue is served in turn; watches
\* deliver; NICo completes what it accepted.  Failures are never promised.
Fairness ==
    /\ \A w \in Managers : WF_vars(Step(w))
    /\ \A w \in Managers, m \in Machines :
        SF_vars(Reconcile(w, m)) /\ WF_vars(CacheSync(w, m))
    /\ \A i \in Instances :
        WF_vars(Allocate(i)) /\ WF_vars(BecomeReady(i)) /\ WF_vars(Terminated(i))

FairSpec == Spec /\ Fairness

----------------------------------------------------------------------------
(* Safety.                                                                 *)

\* The provider ID names an instance created for this Machine, and when the
\* status names another one, the former is gone: Create's two writes, in that
\* order, never leave a Node bound to an instance that is still running but
\* that the status no longer tracks (actuator.go, Create).
ProviderIdSound ==
    \A m \in Machines : obj[m].pid # None =>
        /\ inst[obj[m].pid].owner = m
        /\ obj[m].pid = obj[m].iid \/ NotFound(obj[m].pid)

\* An instance id leaves a Machine's status, replaced or removed with the
\* object, only once NICo has the instance released: no id that was ever
\* recorded is lost to stale caches, overlapping managers or crashes
\* (actuator.go, Exists, Create and Delete; controller.go, the finalizer).
RecordedInstanceNotForgotten ==
    [][\A m \in Machines : LET i == obj[m].iid IN
        i # None /\ obj'[m].iid # i => inst'[i].state \in {"Terminating", "Gone"}]_vars

\* The provider releases an instance only while its Machine is being deleted,
\* however old the copy it works from (controller.go, Reconcile).
LiveMachineKeepsInstance ==
    [][\A i \in Instances : Alive(i) /\ inst'[i].state = "Terminating" =>
        obj[inst[i].owner].life = "deleting"]_vars

\* A remediation reports on the host its Machine runs on, however old the copy
\* of the status that names the host; another host can be meant only once the
\* instance is gone and Delete is tried again (actuator.go, Delete and
\* reportMHCHealthIssue).
ReportsOwnHost ==
    [][\A h \in Hosts : h \in mhc' \ mhc =>
        \E w \in Managers :
            /\ wk[w].pc = "report"
            /\ inst[wk[w].o.iid].host = h \/ NotFound(wk[w].o.iid)]_vars

\* Running instances that no Machine records and no reconcile can still record.
Orphans ==
    {i \in Instances :
        /\ Alive(i)
        /\ obj[inst[i].owner].iid # i
        /\ ~\E w \in base : wk[w].pc = "createStatus" /\ wk[w].i = i}

\* With one manager that reads its own writes, each instance Create lost
\* track of is paid for by a failure or by a write of somebody else that came
\* between CreateInstance and the status update (actuator.go, Create).
OrphansPaidFor ==
    Cardinality(Orphans) <=
        faults + Cardinality({m \in Machines : obj[m].life \in {"deleting", "gone"}})
               + Cardinality({m \in Remediable : obj[m].marked \/ obj[m].life = "gone"})

----------------------------------------------------------------------------
(* Liveness, under FairSpec.                                               *)

\* A Machine that has a providerSpec and is being deleted goes away, through
\* conflicts, failures, crashes and the upgrade from the older finalizer
\* (controller.go, reconcileDelete).
DeletionCompletes ==
    \A m \in Machines : ProviderSpec[m] # "missing" =>
        (obj[m].life = "deleting" ~> obj[m].life = "gone")

\* The status tells what NICo tells.
Faithful(m) ==
    LET i == obj[m].iid IN
    /\ i # None
    /\ obj[m].state = inst[i].state
    /\ inst[i].host # None => /\ obj[m].mid = inst[i].host
                              /\ obj[m].lab = inst[i].host
                              /\ obj[m].healthy = HealthOf(inst[i].host)

\* A Machine that records no instance, or one that is gone, and gets no other:
\* its target host is unfit or held by an instance that Create lost track of,
\* or the request was refused for good.
Barred(m) ==
    /\ obj[m].iid = None \/ NotFound(obj[m].iid)
    /\ \/ PreFlightBlocks(m)
       \/ \E i \in Orphans : inst[i].host # None /\ inst[i].host = Target[m]
       \/ \E w \in Managers : <<w, m>> \in parked

\* Once failures stop, a Machine that stays has an instance and a status that
\* agrees with NICo for good, in health too while its host is unfit, unless it
\* has no instance and gets none (actuator.go, Update; controller.go, the
\* requeue after each reconcile).
StatusConverges ==
    \A m \in Machines : ProviderSpec[m] = "valid" =>
        <>[](obj[m].life = "live" => Faithful(m) \/ Barred(m))

\* A targeted host that stays unfit while the Machine keeps trying ends in
\* errorReason, although the attempts are counted in a status that crashes and
\* conflicting writes interrupt (actuator.go, checkPreFlightHealth).
PersistentFaultEscalates ==
    \A m \in Machines : ProviderSpec[m] = "valid" =>
        (<>[](/\ obj[m].life = "live" /\ obj[m].iid = None
              /\ PreFlightBlocks(m)
              /\ \A w \in Managers : <<w, m>> \notin parked)
            => <>(obj[m].failed = "PreFlightHealthCheckFailed"))

============================================================================
