# Verification of machine-api-provider-nvidia-ncx-infra-controller

TLA+ models, TLC configurations and TLAPS proofs for the Machine API provider
that turns OpenShift `Machine` objects into bare-metal instances of NVIDIA's
NICo service.

## 1. The system

| Part | Source | State it keeps | Operations | Interacts with |
|---|---|---|---|---|
| Machine reconciler | `pkg/controllers/machine/controller.go` | the Machine's finalizers; the work queue and informer cache of controller-runtime | `Reconcile`, `reconcileNormal`, `reconcileDelete`, `handleActuatorError` | API server (watch, conditional writes), actuator (calls) |
| Machine actuator | `pkg/actuators/machine/actuator.go` | `status.providerStatus`, `spec.providerID`, labels, `errorReason`, all in the Machine | `Create`, `Update`, `Exists`, `Delete` and their helpers | NICo (HTTP), API server, gauges |
| NICo | external, used through `NicoClientInterface` | instances, hosts, health reports | create, get, update, delete instance; health reports | provisions and removes on its own |
| Validating webhook | `pkg/apis/nicoprovider/v1beta1/webhook.go` | none | `Handle` | API server (admission) |
| BareMetalHost sync | `pkg/controllers/baremetalhost` | SKU cache with expiry | `sync`, `syncMachine`, `getSkuMap` | NICo, API server |
| Provider ID | `pkg/providerid` | none | `String`, `ParseProviderID` | |
| Metrics | `pkg/metrics` | gauges, counters per process | | |
| Manager process | `cmd/manager/main.go` | flags | start-up, leader election (off by default) | |

What is hard about it:

* **One reconcile is a sequence of remote calls** on one copy of the Machine
  taken from a cache. Between any two of them the Machine may be deleted or
  changed, the instance may disappear, a call may fail or the process may die.
* **The only memory is the Machine.** An instance that was created but whose
  id did not reach the status is known to nobody.
* **Caches lag**, also behind the process's own writes; what keeps this safe
  is that writes carry a `resourceVersion`.
* **Two managers may overlap.** `config/manager/deployment.yaml` runs one
  replica without leader election, and a rolling update starts the new pod
  before the old one is gone.
* **Counts kept in conditions or gauges** (blocked attempts, managed and
  unhealthy machines) must survive restarts, retries and deletions.

What makes each part correct: the reconciler and actuator neither lose nor
wrongly release an instance, finish deletions, bring the status back in
agreement with NICo and escalate persistent faults; the webhook keeps the
immutable fields of a Machine; the BareMetalHost sync converges host by host;
parsing a provider ID inverts formatting it. `PROJECT.json` lists the hazards
behind these at the lines where they bite.

## 2. The modules

| Module | What it is |
|---|---|
| `MachineController` | reconciler, actuator, API server, NICo and the environment, call by call; safety and liveness properties |
| `InstanceClaims` | the abstract specification: what the provider promises about instances |
| `ClaimsRefinement` | `MachineController` implements `InstanceClaims` |
| `MCMachineController` | values of constants for TLC, symmetry |
| `MachineClaims` | what comments and tests of the repository claim and the code does not keep |
| `MachineControllerProofs` | proofs: the inductive invariant of `MachineController` and three safety properties |
| `ClaimsProofs`, `HostReportProofs`, `OrphanProofs` | proofs built on it: the refinement, `ReportsOwnHost`, `OrphansPaidFor` |
| `MachineStatus` | conditions, provisioning timeout, verdicts on alerts and validation runs |
| `Admission` | the webhook, credentials and provider IDs over sequences of providerSpecs |
| `BmhSync` | the BareMetalHost synchronisation |
| `MachineStatusProofs`, `AdmissionProofs`, `BmhSyncProofs` | their proofs |
| `MCMachineStatus`, `MCAdmission` | values of their constants for TLC |

The three smaller modules each take up something that `MachineController`
leaves abstract (an answer of the health checks, the validity of a spec) or
does not have, and leave out what it has: in `MachineStatus` and `Admission` a
reconcile is one step of one manager.

### MachineController: state

| Variable | Code |
|---|---|
| `obj[m]` | the Machine in the API server: `life` (deletion timestamp, existence), `fin` (the two finalizers), `marked` (annotation `machine.openshift.io/unhealthy`), `iid`, `mid`, `state` (`instanceId`, `machineId`, `instanceState` of providerStatus), `pid` (spec.providerID), `lab` (topology labels), `healthy` (condition MachineHealthy), `attempts` (number in the reason of FaultBlockedCreation), `failed` (errorReason) |
| `cache`, `synced` | informer caches, and which entries are current |
| `wk[w]`, `base` | local variables and next call of the reconcile of manager `w`; whether its copy carries the current resourceVersion |
| `parked` | Machines a manager will not look at again until they change (terminal error) |
| `inst`, `fault`, `mhc` | NICo: instances, faults of hosts, hosts with a report of source `k8s-mhc` |
| `managed`, `unhealthy` | the two gauges, per process |
| `faults` | environment failures used up; a bound, not code |

`base` and `synced` stand for comparing resourceVersions: every accepted write
takes the Machine out of both for everybody else, so no version counter is
needed and the state space stays finite.

### MachineController: actions

A reconcile starts with `AddFinalizer`, `Exists` or `ReconcileDelete` and goes
on call by call: `CreateInvalid`, `PreFlight`, `PersistBlocked`,
`CreateInstance`, `CreateRefused`, `CreateSetStatus`, `CreateSetProviderID`,
`DeployDpu` for Create; `UpdateGetInstance`, `UpdateLabels`,
`UpdateHealthFromReports`, `ClearReport`, `UpdateSetStatus` for Update;
`ReportMHC`, `DeleteInstance`, `RemoveFinalizer` for deletion. `Conflict`,
`CallFails`, `CreateRejected`, `PreFlightBlind`, `UpdateHealthFromJSONB`,
`ClearReportFails`, `ReportMHCFails` and `Crash` are the ways a step goes
wrong; a reply lost after the call took effect is the successful step followed
by `CallFails` or `Crash`. `CreateMachine`, `AdoptMachine` (a Machine left by
the release that used the legacy finalizer), `DeleteMachine`, `MarkUnhealthy`
and `Touch` are other clients of the API server; `Allocate`, `BecomeReady`,
`ProvisioningFails`, `Terminated`, `RemovedOutOfBand`, `HostFault` and
`HostRepaired` are NICo.

Abstractions: instance states Pending, Provisioning and Configuring are one
state, `Starting`; time is the freedom of `UpdateSetStatus` to find the
provisioning timeout passed; an alert is critical, a warning or a failed
validation; a providerSpec is missing, always refused by Create, or valid, and
of a valid one only host, DPU services and `allowUnhealthyMachine` matter.
The number of blocked attempts stops at its maximum, past which the code does
nothing new. A name of a Machine is used once. NICo's
successful answers carry data: Create and Update treat one that does not as a
failed call, but Exists takes it for an instance that does not exist, which
would have Create replace a record that `RecordedInstanceNotForgotten` protects.

### InstanceClaims and the refinement

Four variables: the life of each Machine, the instance it records, and owner
and phase of each instance. The actions are `Appear`, `Adopt`, `Claim`,
`Record`, `RequestDeletion`, `Release`, `Depart` and `Leave`; no copies, calls
or failures. The mapping reads `record` from the status the API server holds
and `phase` from NICo; all else of `MachineController` (copies, caches, the
step of a reconcile, health, gauges) maps to stuttering. What this says beyond
the three older properties is that nothing else ever happens: a record only
appears for an instance made for that Machine, and only while it is live; a
Machine leaves only when what it records is on its way out; no instance changes
hands. What the specification does not promise, and the code does not do, is
that every claimed instance gets recorded.

### MachineStatus

| Variable | Code |
|---|---|
| `spec` | `machineId` set?, `allowUnhealthyMachine` |
| `ms` | instance id and state of providerStatus, its conditions, the age of InstanceProvisioned's `LastTransitionTime`, the attempt in the reason of FaultBlockedCreation, the two health labels, `errorReason` |
| `inst`, `alerts`, `runs` | NICo: the instance, its host's alerts and validation runs, as listed |
| `missed` | history: the instance recorded left a state that no reconcile saw |

`CreateBlocked`, `Create` and `Update` are reconciles, the latter two with any
one of their reads or their status update failing; `UpdateStateless` is an
answer without status. `InstanceAdvances` goes through all states NICo has,
where `MachineController` has one `Starting`. `Later` is the loop body of
`checkMachineValidation`, folded over the list; `Fit` is the definition it is
checked against. Time is `Tick`, ages stop one past the timeout. An instance
that is Ready does not go back to a starting state: the timeout is counted from
the creation, so such an instance would be reported at once.

### Admission

| Variable | Code |
|---|---|
| `hook` | whether the manager found certificates and serves the webhook |
| `life`, `fin`, `spec`, `iid`, `pid`, `zone` | the Machine: finalizer, providerSpec, instance id, provider ID, zone label |
| `inst` | NICo's instances: organisation and tenant they were asked for with, `named`, the site in the spec of that moment, and `site`, the one in NICo's answers |
| `lapse` | history: a spec was stored unwatched by the webhook, or an empty one was |

Users create, update and delete with any spec of a sample that has one for each
reason to refuse; the controller's own writes go through the webhook too
(`OwnWriteAdmitted`), its status updates do not. Names are sequences of
segments, so that a name with a slash is a longer one; `Format` joins,
`ParseProviderID` takes apart by count. `AdoptMachine` brings a provider ID of
the older format and the older finalizer; the write that adds the newer one is
judged by the webhook like any other.

The request for an instance names tenant, VPC and subnets but no site, so the
model lets NICo choose the site of every instance, and whether to tell: the
provider ID carries the site of the spec, the zone label the one NICo tells,
and no property says that the two agree. Nothing is assumed of the organisation,
which comes from the secret unchecked and may have a slash.

The repository has no ValidatingWebhookConfiguration; that
creates and updates of Machines reach the webhook while it is served, and are
admitted while it is not, is an assumption about the cluster. Which
organisation a spec leads to stands for the lookup of the credentials secret.

### BmhSync

| Variable | Code |
|---|---|
| `nico` | versions of machine, SKU and firmware report of each host |
| `bmh`, `hfc` | the two objects of each host, with the versions they were built from |
| `sync[w]` | local variables of the sync of manager `w`; in `old` the objects others wrote since it began |
| `skus`, `valid` | the SKU cache, and whether it has expired |
| `overlap` | history: two syncs were under way at once |

`ListMachines`, `GetMaps`, then for each host `WriteBMH`, `CreateHFC` and
`WriteHFCStatus`; each write may be refused (`old`, or a host in `Broken`, of
which the API server accepts nothing), each call may fail, a process may start
again. The contents of the objects are functions of the versions, so the
mapper's field-by-field copying is one version number per source. The order of
hosts within a sync is free.

## 3. The runs

All bounds are CONSTANTS of the configurations. `MaxFaults` bounds failures,
crashes and foreign writes, `Instances` the number of creations,
`MaxFaultBlockedAttempts` is 2 instead of 3 (the first, the last and no other
attempt differ), `GaugeBound` saturates the gauges (0 drops them from runs
that are not about them).

| Run | Instance | Checks |
|---|---|---|
| `rollout` | 1 Machine, 2 managers, 3 ids, stale reads, 1 failure; 1.5 M states | `ProviderIdSound`, `RecordedInstanceNotForgotten`, `LiveMachineKeepsInstance`, `ImplementsClaims` |
| `failures` | 1 Machine with DPU services, 2 hosts, 1 manager that reads its own writes, 4 ids, critical faults, remediation, 2 failures | `TypeOK`, `OrphansPaidFor`, `ReportsOwnHost` |
| `deletion` | a new Machine and a legacy one whose spec is refused today, stale reads, 1 failure, fairness | `DeletionCompletes` |
| `recovery` | 1 targeted Machine, 3 ids, all fault kinds, stale reads, 2 failures, fairness | `StatusConverges`, `PersistentFaultEscalates` |
| `admission` | 12 specs, 2 ids, 2 sites or no answer about them, webhook on and off, fairness; 415 k states | `ProviderIdNamesInstance`, `SpecKeepsPlace`, `OnlyRepointingForgets`, `DeletionPassesWebhook`, `ZoneFollowsInstance` |
| `bmh` | 2 managers, a writable and an unwritable host, 1 change, 1 failure, fairness; 286 k states | `NoFirmwareWithoutHost`, `NeverGoesBack`, `HostsConverge` |
| `status` | timeout 1, 3 specs, 2 instances, 4 lists of alerts and 4 of runs, 1 change, 1 failure, fairness; 321 k states | `WatchedProgressIsClean`, `TimeoutMeansStuck`, `NoUnfitHost`, `StuckIsReported`, `HealthTold` |

One Machine with two managers is where the interleavings on one object are;
reconciles of different Machines share nothing but hosts and ids, which
`deletion` exercises with two Machines. Two failures allow one to interrupt
the recovery from another. `failures` assumes a cache that has caught up
(`StaleReads = FALSE`): `OrphansPaidFor` is false otherwise, since Create runs
again from each copy that predates its own status update. It has two hosts so
that a recreated instance can come to run on another one than the first:
`ReportsOwnHost` says that a remediation then reports on the new one.
`recovery` shows in passing what an instance that was lost track of means for a
Machine that names its host: NICo refuses every further creation, as the host
is taken, so `StatusConverges` has to except it. It excepts a Machine only while
it has no instance, or one that is gone (`Barred`): with a running instance on a
host that stays unfit the condition MachineHealthy has to become False and stay
so. `rollout` has no hosts and so
leaves the health steps to `failures` and `recovery`.

`admission` needs two ids for an instance to be made again after the first is
gone or out of reach, two sites for it to be made again elsewhere, specs that
differ in each field the webhook reads, and an organisation with a slash, whose
provider IDs must not parse rather than be taken apart wrongly.
`SpecKeepsPlace` has to except a history in which an empty spec was stored,
since an empty one is never compared: the way around the immutable fields.
`bmh` needs two managers for writes to cross and one host that can never be
written next to one that can; one change and one failure can fall into any gap
of either sync. `NeverGoesBack` excepts overlapping syncs: the older listing
can then be written last, until the next sync. In `status` two instances are
enough for one to inherit something from another.

Symmetry permutes instance ids and managers, in runs without temporal
properties only (the action properties there are checked step by step).
`CHECK_DEADLOCK FALSE` where Machines can be deleted: when all are gone nothing
is left to do. `bmh` and `status` never stop, and check it.

**Fairness** (`Fairness`): a reconcile under way takes its next step (calls
return, with an answer or an error); the work queue serves each Machine it
holds again and again, hence strong fairness of `Reconcile(w, m)`, as the one
worker may be busy with other Machines in between: every path of the code but
the terminal error requeues; watches deliver; NICo finishes what it accepted.
No failure, repair or user action is promised. The bound on failures makes
"eventually no more failures" part of every fair behaviour.

In `Admission` only the reconciles are fair; whoever writes specs, the manager's
restarts and NICo promise nothing. In `BmhSync` the ticker fires and calls
return (`Step`) and time passes (`SkuCacheExpires`); a sync starts from an
informer cache that has caught up, as a minute lies between two of them. In
`MachineStatus` the Machine is requeued after each reconcile and time passes;
NICo may leave the instance in any state for ever.

### Where the code and its words differ

| Run | Claim | What TLC finds |
|---|---|---|
| `claim_delete` | "Delete deprovisions the instance" | deletion between CreateInstance and the status update leaves an instance running, without any failure |
| `claim_create` | "Verifying provider ID is set", "DPU Extension Services to deploy after instance creation" | a call of Create that fails after the status update is never made up for |
| `claim_managed` | "Number of machines currently managed by this provider" | -1, without a failure or a restart: a deletion between the status update and the provider ID of Create keeps it from counting up, and Delete counts down |
| `claim_report` | the k8s-mhc report is cleaned up on recovery | the report itself keeps the host critical, so recovery is never seen |
| `claim_no_spec` | "Nothing to delete" | a Machine without providerSpec, which the webhook admits, is never let go |

### Seen while modelling, without a run

* An empty providerSpec is always admitted and compared with nothing, so two
  updates change the site or the tenant of a Machine with an instance although
  the webhook calls them immutable.
* The gauge of unhealthy machines keeps a Machine that was counted and then
  deleted; no property is about it.
* The site in a provider ID is that of the spec, while NICo decides where the
  instance runs; nothing compares the two, and the VPC, which decides more about
  the place, may change freely.
* A zone label stays when NICo's answers about a new instance name no site.
* The provider ID of an organisation with a slash cannot be parsed; one in the
  older format is parsed as if the part after the slash were a tenant.
* A Delete that is tried again after the instance is gone reports on its host
  once more (`ReportsOwnHost` excepts this).
* "consecutive blocks": blocked attempts with a passed check in between, whose
  CreateInstance then failed, count together.
* The histogram of the time to Ready is observed on every poll of a Ready
  instance, not only on the first.
* `main.go` neither calls `baremetalhost.SetupWithManager` nor adds the metal3
  types to its scheme, so the manager of this commit does not synchronise
  hosts; `BmhSync` models the code of the package.
* The BareMetalHost of a host that NICo lists no longer stays, and so does a
  HostFirmwareComponents whose report is gone (`InSync` says nothing of
  either). A failed SKU fetch after expiry drops the hardware details until the
  next sync. Annotations, labels and spec fields set by others are overwritten.
* A state of an instance that passes between two polls leaves the condition of
  the state before it True, also once the instance is Ready
  (`WatchedProgressIsClean` excepts this); InstanceError is never lowered.
* `errorReason` stays when the instance becomes Ready after the timeout, or
  another one is created.

## 4. The proofs

Each theorem holds for all values of the constants that satisfy the named
ASSUMEs of the module it is about, which TLC evaluates in the runs. The bounds
of the runs (`MaxFaults`, `MaxChanges`, `Instances` and so on) are arbitrary in
the proofs.

| Module | Theorem | Statement |
|---|---|---|
| `MachineControllerProofs` | `Invariance` | `Spec => []IInv` |
| | `TypeCorrect` | `Spec => []TypeOK` |
| | `ProviderIdCorrect` | `Spec => []ProviderIdSound` |
| | `NothingForgotten` | `Spec => RecordedInstanceNotForgotten` |
| | `OnlyDeletionReleases` | `Spec => LiveMachineKeepsInstance` |
| `ClaimsProofs` | `Refinement` | `Spec => ImplementsClaims` |
| `HostReportProofs` | `HostsInvariance` | `Spec => []HInv` |
| | `RemediationReports` | `Spec => ReportsOwnHost` |
| `OrphanProofs` | `OrphansBounded` | one manager, no stale reads, finitely many Machines: `Spec => []OrphansPaidFor` |
| `BmhSyncProofs` | `SyncInvariance` | `Spec => []BInv` |
| | `FirmwareAfterHost` | `Spec => []NoFirmwareWithoutHost` |
| | `HostsNeverGoBack` | `Spec => NeverGoesBack` |
| `AdmissionProofs` | `AdmissionInvariance` | `Spec => []AInv` |
| | `ProviderIdParses` | `Spec => []ProviderIdNamesInstance` |
| | `SpecStays` | `Spec => []SpecKeepsPlace` |
| | `ForgetsOnlyRepointed` | `Spec => OnlyRepointingForgets` |
| `MachineStatusProofs` | `StatusInvariance` | `Spec => []SInv` |
| | `ProgressClean` | `Spec => []WatchedProgressIsClean` |
| | `TimeoutIsDeserved` | `Spec => TimeoutMeansStuck` |

Every inductive invariant was model-checked on the instances of the runs
before it was proved.

### MachineController

None of the safety properties is inductive: they speak of objects, while a
step of the controller acts on a copy that may be old. `IInv` says what an old
copy is still good for:

* `WorkOK`, `CurrentOK`: a reconcile is about a Machine it saw present; copies
  in `base` and `synced` equal the object (what a resourceVersion match means);
* `VersionOK`: every version of a Machine, past or present, names instances
  that were made for it, and has a finalizer while it names one;
* `CopyOK`: besides, a Machine seen present does not become absent, and
  (`DeletionSeen`) once a version shows the deletion, the object can only
  disappear, with the same instance id, and that after the instance has been
  released. This is what makes DeleteInstance safe from a stale copy, and why
  Create, which a deleting Machine never reaches, cannot interfere;
* `StepOK`: what each step knows from the steps before it, e.g. that before
  the status update of Create the old instance is gone, and that at the
  removal of the finalizer the instance has been released.

`Evolves` and `Follows` state how instances and objects may change, the lemmas
`CopyStays` and `StepStays` that knowledge survives such changes, and one lemma
for each way of using the state (`AdvanceOK`, `ReturnOK`, `StartOK`,
`WriteReturnOK`, `WriteContinueOK`, `OutsideWriteOK`, `InstancesOK`) reduces an
action to what is particular to it.

*Refinement.* Each action maps to one of `InstanceClaims` or to a stutter, from
`IInv`: `StepOK` gives that CreateSetStatus replaces nothing or an instance
that is gone (`Record`), that RemoveFinalizer lets go of an instance on its way
out (`Leave`); `DeletionSeen` that DeleteInstance from a stale copy releases
what the object records or nothing new (`Release`); the third part of `CopyOK`
that CreateInstance acts for a Machine that has appeared (`Claim`).

*Hosts.* `HInv` adds that every version of a Machine, and every answer of NICo
a reconcile holds, names the host of the instance it goes with, unless that
instance is gone. A status with a host left over from an earlier instance
would break it; that Create builds its status afresh is what keeps it.

*Orphans.* `OrphansPaidFor` is not inductive, since an instance may be lost
well after the write that dooms it: a reconcile that is overtaken before
CreateInstance makes an orphan later. `OInv` counts such a reconcile (`Late`)
as owed: orphans and what is owed never exceed what is paid. A step either
orphans nothing, or orphans one instance that was owed or is paid for in the
same step (`Accounted`). That recorded instances stay recorded, that owners
never change and that only a free instance comes to life are taken from
`NothingForgotten`'s lemma and from the refinement. One manager is needed for a
foreign write to overtake one reconcile at most, current reads for a reconcile
not to start overtaken; TLC refutes the property without the latter. Instances
may be infinitely many.

### BmhSync, Admission, MachineStatus

*BmhSync.* `NoFirmwareWithoutHost` rests on `HostFirst`: a sync that is at the
firmware of a host has written the host before, and nothing deletes it.
`NeverGoesBack` rests on `NothingNewer` (no listing and no object is ahead of
NICo) and `AloneUpToDate`: while no two syncs overlapped, the one under way is
the only one and holds versions not behind the objects it has still to write.
`NoneAssumption` says that `None` is none of the values it stands for the
absence of.

*Admission.* `AInv` says that the provider ID was made by one of the two formats
from what an instance that exists was asked for with, all names having at least
one segment; `FormattedNames` then goes through the segment counts of
`ParseProviderID`: four when no name has a slash, more when one has
(`ParseSlash`), three or more in the older format. Names, the organisation's
included, are sequences of any strings and any length, where the run has a
handful. For `SpecKeepsPlace` it adds that without a lapse the stored spec has
passed the webhook. NICo's choice of sites is arbitrary.

*MachineStatus.* `SInv` ties the status to the instance: its id is that of the
last instance or an earlier one, its clock (`since`) is never ahead of the age
of the instance, and a status that was watched is at most one move of NICo
behind, with no condition on a stage that is over (`WatchedOK`). The first two
give `TimeoutMeansStuck`, the last `WatchedProgressIsClean`. The attempt to
prove the latter showed that the history variable `missed` was reset even when
the status of the new instance was lost, which TLC confirmed with two failures;
it is now reset only when the new status is stored.

### Only model-checked

* Everything under fairness, which is out of the prover's reach:
  `DeletionCompletes`, `StatusConverges`, `PersistentFaultEscalates`,
  `DeletionPassesWebhook`, `ZoneFollowsInstance`, `HostsConverge`, `StuckIsReported`, `HealthTold`.
* `NoUnfitHost`: that folding `Later` over the list of runs finds the run `Fit`
  defines is an induction over the list, which the prover cannot do.
* The claims of section 3, which the code does not keep.

## 5. Not modelled, and the plan

Left out for good: events, logs, histograms and counters, which nothing reads;
`checkStatusHistory`, which only records events; the HTTP wrappers; addresses
in the status and the arithmetic of hardware details, data that is copied; the
tenant capability lookup, whose answer is that of a refused spec; manifests;
flags, probes and registration in `main.go`.

Left to prove:

1. From `IInv`, in `MachineController`: that a provider ID once set is only
   replaced after its instance is gone, and that labels name a host an instance
   of the Machine ran on.
2. The balance of orphans for several managers: each manager can be overtaken
   by the same write, so a payment counts once for each of them.
3. `NoUnfitHost` for lists of a bounded length, without induction.
