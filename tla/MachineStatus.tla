--------------------------- MODULE MachineStatus ---------------------------
(***************************************************************************)
(* What the actuator tells of one Machine: the provider-status conditions  *)
(* it derives from the instance's state, the provisioning timeout, and the *)
(* verdicts on a host's health and validation that it computes from what   *)
(* NICo lists.  MachineController leaves these as abstract answers, and    *)
(* has the interleavings; here a reconcile is one step, of one manager.    *)
(*                                                                         *)
(* An alert is the set of its classifications.  A validation run has an    *)
(* end time, 0 while it is running, and is good when it completed with all *)
(* tests passed.  Time is the age of things, up to one more than Timeout.  *)
(***************************************************************************)
EXTENDS Naturals, Sequences, FiniteSets, SequencesExt

CONSTANTS
    Timeout,      \* ProvisioningTimeout
    Specs,        \* provider specs: is machineId set, is allowUnhealthyMachine
    AlertLists,   \* the alerts a host may have, as NICo lists them
    MaxFaultBlockedAttempts,
    MaxInstances, \* bound on the instances created for the Machine
    RunLists,     \* the validation runs it may have, as NICo lists them
    MaxEvents,    \* bound on changes of alerts and runs
    MaxFaults     \* bound on failures and losses

Classes == {"critical", "warning", "remediating", "other"}

Run == [end: Nat, good: BOOLEAN]

ASSUME StatusAssumption ==
    /\ Timeout \in Nat
    /\ Specs \subseteq [targeted: BOOLEAN, allowUnhealthy: BOOLEAN]
    /\ AlertLists \subseteq Seq(SUBSET Classes)
    /\ MaxFaultBlockedAttempts \in Nat \ {0}
    /\ MaxInstances \in Nat
    /\ RunLists \subseteq Seq(Run)
    /\ \A rs \in RunLists : \A k \in DOMAIN rs :
        /\ rs[k].end = 0 => ~rs[k].good
        /\ \A j \in DOMAIN rs : rs[j].end = rs[k].end => j = k \/ rs[k].end = 0
    /\ MaxEvents \in Nat
    /\ MaxFaults \in Nat

VARIABLES
    spec,     \* the Machine's provider spec
    ms,       \* the Machine's status
    inst,     \* the last instance created for it, as NICo holds it
    alerts,   \* the host's alerts, from all its health reports
    runs,     \* its validation runs, in the order NICo lists them
    missed,   \* history: did the instance recorded leave a state no reconcile saw?
    events,
    faults

vars == <<spec, ms, inst, alerts, runs, missed, events, faults>>

----------------------------------------------------------------------------
Starting == {"Pending", "Provisioning", "Configuring"}
\* "Busy" stands for Updating, Rebooting and any state the SDK does not name.
States   == Starting \cup {"Ready", "Busy", "Terminating", "Error"}
Ages     == 0..(Timeout + 1)
Progress == {"InstanceAllocating", "InstanceProvisioning", "InstanceBootstrapping"}
Conds    == Progress \cup {"InstanceProvisioned", "InstanceReady", "InstanceTerminating",
                           "InstanceError", "MachineHealthy", "NicoFaultRemediation",
                           "FaultBlockedCreation"}

NoConditions == [c \in Conds |-> "Unset"]

\* InstanceID, InstanceState, conditions, the age of InstanceProvisioned's
\* LastTransitionTime, the attempt in FaultBlockedCreation's reason, the two
\* health labels, and errorReason, which is the Machine's own.
NoStatus == [iid |-> 0, state |-> "none", conds |-> NoConditions, since |-> 0,
             attempts |-> 0, healthy |-> "none", count |-> 0, failed |-> "none"]

NoInstance == [id |-> 0, state |-> "Gone", host |-> FALSE, age |-> 0]

StatusType == [iid: 0..MaxInstances, state: States \cup {"none"},
               conds: [Conds -> {"Unset", "True", "False"}], since: Ages,
               attempts: 0..MaxFaultBlockedAttempts,
               healthy: {"none", "true", "false"}, count: Nat,
               failed: {"none", "ProvisioningTimeout", "PreFlightHealthCheckFailed"}]

InstanceType == [id: 0..MaxInstances, state: States \cup {"Gone"},
                 host: BOOLEAN, age: Ages]

TypeOK ==
    /\ spec \in Specs
    /\ ms \in StatusType
    /\ inst \in InstanceType
    /\ alerts \in AlertLists
    /\ runs \in RunLists
    /\ missed \in BOOLEAN
    /\ events \in 0..MaxEvents
    /\ faults \in 0..MaxFaults

Init ==
    /\ spec \in Specs
    /\ ms = NoStatus
    /\ inst = NoInstance
    /\ alerts \in AlertLists
    /\ runs \in RunLists
    /\ missed = FALSE
    /\ events = 0
    /\ faults = 0

Spend ==
    /\ faults < MaxFaults
    /\ faults' = faults + 1

----------------------------------------------------------------------------
(* Verdicts.                                                               *)

ClassifyAlert(a) == IF "critical" \notin a /\ "warning" \in a THEN "warning" ELSE "critical"

CriticalAlerts == SelectSeq(alerts, LAMBDA a : ClassifyAlert(a) = "critical")
WarningAlerts  == SelectSeq(alerts, LAMBDA a : ClassifyAlert(a) = "warning")

\* Mutant: only the first alert is looked at.
HasRemediatingAlert_First == alerts # <<>> /\ "remediating" \in alerts[1]

HasRemediatingAlert == \E k \in DOMAIN alerts : "remediating" \in alerts[k]

\* Mutant: the comparison the other way round.
Later_Earlier(latest, r) ==
    IF r.end # 0 /\ (latest.end = 0 \/ r.end < latest.end) THEN r ELSE latest

\* The loop body of checkMachineValidation.
Later(latest, r) ==
    IF r.end # 0 /\ (latest.end = 0 \/ r.end > latest.end) THEN r ELSE latest

ValidationFails == runs # <<>> /\ ~FoldLeft(Later, Head(runs), Tail(runs)).good

\* checkPreFlightHealth, given which of the two lists could be read.
Blocks(alertsRead, runsRead) ==
    /\ spec.targeted
    /\ ~spec.allowUnhealthy
    /\ (alertsRead /\ CriticalAlerts # <<>>) \/ (runsRead /\ ValidationFails)

----------------------------------------------------------------------------
(* Create, when there is no instance recorded or the one recorded is gone. *)

CreateDue == ms.iid = 0 \/ (inst.id = ms.iid => inst.state = "Gone")

Attempt == IF ms.conds["FaultBlockedCreation"] = "True" THEN ms.attempts + 1 ELSE 1

\* Attempts beyond the maximum are not told apart.
CreateBlocked ==
    LET n == IF Attempt > MaxFaultBlockedAttempts THEN MaxFaultBlockedAttempts
             ELSE Attempt IN
    /\ CreateDue
    /\ Blocks(TRUE, TRUE)
    /\ ms' = [ms EXCEPT !.conds["FaultBlockedCreation"] = "True",
                        !.conds["MachineHealthy"] = "False",
                        !.attempts = n,
                        !.failed = IF n >= MaxFaultBlockedAttempts
                                   THEN "PreFlightHealthCheckFailed" ELSE @]
    /\ UNCHANGED <<spec, inst, alerts, runs, missed, events, faults>>

NewInstance == [id |-> inst.id + 1, state |-> "Pending", host |-> spec.targeted, age |-> 0]

\* Mutant: the status of the instance before is carried on; the condition
\* InstanceProvisioned is True already and keeps its LastTransitionTime.
CreatedStatus_CarriedOn(i) ==
    IF ms.conds["InstanceProvisioned"] = "True" THEN [ms EXCEPT !.iid = i, !.state = "Pending"]
    ELSE [NoStatus EXCEPT !.iid = i, !.state = "Pending", !.failed = ms.failed,
                          !.conds["InstanceProvisioned"] = "True"]

\* A status made from nothing; errorReason is not part of it.
CreatedStatus(i) ==
    [NoStatus EXCEPT !.iid = i, !.state = "Pending", !.failed = ms.failed,
                     !.conds["InstanceProvisioned"] = "True"]

\* kept: was the status update accepted?
Create(alertsRead, runsRead, kept) ==
    /\ CreateDue
    /\ ~Blocks(alertsRead, runsRead)
    /\ inst.id < MaxInstances
    /\ inst' = NewInstance
    /\ ms' = IF kept THEN CreatedStatus(inst.id + 1) ELSE ms
    /\ missed' = (missed /\ ~kept)
    /\ UNCHANGED <<spec, alerts, runs, events>>

----------------------------------------------------------------------------
(* Update                                                                  *)

\* setInstanceStateConditions: what becomes True, and what becomes False.
Raised(st) ==
    CASE st = "Pending"      -> {"InstanceAllocating"}
      [] st = "Provisioning" -> {"InstanceProvisioning"}
      [] st = "Configuring"  -> {"InstanceBootstrapping"}
      [] st = "Ready"        -> {"InstanceReady"}
      [] st = "Terminating"  -> {"InstanceTerminating"}
      [] st = "Error"        -> {"InstanceError"}
      [] OTHER               -> {}

\* Mutant: the end of the allocation is not noted.
Lowered_Allocating(st) ==
    CASE st = "Configuring" -> {"InstanceReady", "InstanceProvisioning"}
      [] st = "Ready"       -> {"InstanceBootstrapping"}
      [] OTHER              -> {"InstanceReady"}

Lowered(st) ==
    CASE st = "Provisioning" -> {"InstanceReady", "InstanceAllocating"}
      [] st = "Configuring"  -> {"InstanceReady", "InstanceProvisioning"}
      [] st = "Ready"        -> {"InstanceBootstrapping"}
      [] OTHER               -> {"InstanceReady"}

WithState(s, st) ==
    [s EXCEPT !.state = st,
              !.conds = [c \in Conds |-> IF c \in Raised(st) THEN "True"
                                         ELSE IF c \in Lowered(st) THEN "False" ELSE @[c]]]

\* Conditions and labels from the alerts, whichever API they came from.
WithHealth(s) ==
    LET bad == CriticalAlerts # <<>> IN
    [s EXCEPT !.conds["MachineHealthy"] = IF bad THEN "False" ELSE "True",
              !.conds["NicoFaultRemediation"] = IF HasRemediatingAlert THEN "True" ELSE "False",
              !.healthy = IF bad THEN "false" ELSE "true",
              !.count = IF bad THEN Len(alerts) ELSE Len(WarningAlerts)]

\* Mutant: only an instance that is not even allocated is late.
TimedOut_Pending(s, st) == st = "Pending" /\ s.since > Timeout

TimedOut(s, st) ==
    /\ st \in Starting
    /\ s.conds["InstanceProvisioned"] # "Unset"
    /\ s.since > Timeout

WithTimeout(s, st) ==
    IF TimedOut(s, st)
    THEN [s EXCEPT !.conds["InstanceReady"] = "False", !.failed = "ProvisioningTimeout"]
    ELSE s

\* The host's health is asked for once the instance has a host.
Update(healthRead) ==
    LET told  == WithState(ms, inst.state)
        asked == IF inst.host /\ healthRead THEN WithHealth(told) ELSE told
    IN  /\ ~CreateDue
        /\ ms' = WithTimeout(asked, inst.state)
        /\ UNCHANGED <<spec, inst, alerts, runs, missed, events>>

\* NICo answers without a status.
UpdateStateless ==
    /\ ~CreateDue
    /\ Spend
    /\ ms' = IF inst.host THEN WithHealth(ms) ELSE ms
    /\ UNCHANGED <<spec, inst, alerts, runs, missed, events>>

----------------------------------------------------------------------------
(* NICo, and time.                                                         *)

NextStates ==
    CASE inst.state = "Pending"      -> {"Provisioning"}
      [] inst.state = "Provisioning" -> {"Configuring"}
      [] inst.state = "Configuring"  -> {"Ready"}
      [] inst.state = "Ready"        -> {"Busy"}
      [] inst.state = "Busy"         -> {"Ready"}
      [] inst.state \in {"Terminating", "Error"} -> {"Gone"}
      [] OTHER -> {}

Advance(st) ==
    /\ inst' = [inst EXCEPT !.state = st, !.host = @ \/ st = "Provisioning"]
    /\ missed' = (missed \/ ms.iid # inst.id \/ ms.state # inst.state)
    /\ UNCHANGED <<spec, ms, alerts, runs, events>>

InstanceAdvances == \E st \in NextStates : Advance(st) /\ UNCHANGED faults

\* Provisioning fails, or the instance is removed behind the controller's back.
InstanceFails ==
    /\ inst.state \notin {"Gone", "Terminating", "Error"}
    /\ Spend
    /\ \E st \in {"Error", "Terminating", "Gone"} : Advance(st)

Older(n) == IF n > Timeout THEN n ELSE n + 1

Tick ==
    /\ inst' = [inst EXCEPT !.age = Older(@)]
    /\ ms' = IF ms.conds["InstanceProvisioned"] = "Unset" THEN ms
             ELSE [ms EXCEPT !.since = Older(@)]
    /\ UNCHANGED <<spec, alerts, runs, missed, events, faults>>

\* Faults come and are repaired, validation runs start and end.
HostEvent ==
    /\ events < MaxEvents
    /\ events' = events + 1
    /\ \/ alerts' \in AlertLists \ {alerts} /\ UNCHANGED runs
       \/ runs' \in RunLists \ {runs} /\ UNCHANGED alerts
    /\ UNCHANGED <<spec, ms, inst, missed, faults>>

----------------------------------------------------------------------------
Reconcile ==
    \/ CreateBlocked
    \/ Create(TRUE, TRUE, TRUE) /\ UNCHANGED faults
    \/ Update(TRUE) /\ UNCHANGED faults

\* A list that cannot be read, or the answer of CreateInstance, or the status
\* update after it, lost.  A whole reconcile that fails changes nothing.
Failure ==
    \/ Spend /\ \/ Create(FALSE, TRUE, TRUE)
                \/ Create(TRUE, FALSE, TRUE)
                \/ Create(TRUE, TRUE, FALSE)
                \/ Update(FALSE)
    \/ UpdateStateless

Next ==
    \/ Reconcile \/ Failure
    \/ InstanceAdvances \/ InstanceFails \/ HostEvent \/ Tick

Spec == Init /\ [][Next]_vars

\* The Machine is requeued after every reconcile, and time passes.  NICo
\* promises nothing: an instance may stay in any state.
FairSpec == Spec /\ WF_vars(Reconcile) /\ WF_vars(Tick)

----------------------------------------------------------------------------
\* Conditions keep up with an instance whose every state some reconcile saw:
\* when it is Ready nothing says that it is still being allocated, provisioned
\* or bootstrapped (actuator.go, setInstanceStateConditions).
WatchedProgressIsClean ==
    ms.conds["InstanceReady"] = "True" /\ ~missed =>
        \A c \in Progress : ms.conds[c] # "True"

\* errorReason ProvisioningTimeout is set only on account of the instance the
\* Machine has now, which has been starting for longer than the timeout; the
\* time an earlier instance took does not count (actuator.go, Create and
\* checkProvisioningTimeout).
TimeoutMeansStuck ==
    [][ms'.failed = "ProvisioningTimeout" /\ ms.failed # "ProvisioningTimeout" =>
        inst.id = ms.iid /\ inst.state \in Starting /\ inst.age > Timeout]_vars

\* The host is fit: no alert is critical or unrecognised, and the run that
\* ended last was good; runs under way count only when none has ended.
Fit ==
    /\ \A k \in DOMAIN alerts : "warning" \in alerts[k] /\ "critical" \notin alerts[k]
    /\ LET ended == {k \in DOMAIN runs : runs[k].end # 0} IN
       IF ended = {} THEN runs = <<>>
       ELSE \A k \in ended :
            runs[k].good \/ \E j \in ended : runs[j].end > runs[k].end

\* An instance is asked for on a targeted host only while the host is fit, in
\* whatever order NICo lists its runs, unless a list could not be read
\* (actuator.go, checkPreFlightHealth).
NoUnfitHost ==
    [][inst'.id # inst.id /\ spec.targeted /\ ~spec.allowUnhealthy
        => Fit \/ faults' > faults]_vars

\* An instance that never gets past its starting states is reported, whichever
\* of them it stays in and whatever else the status went through
\* (actuator.go, checkProvisioningTimeout).
StuckIsReported ==
    <>[](ms.iid # 0 /\ inst.id = ms.iid /\ inst.state \in Starting)
        => <>(ms.failed = "ProvisioningTimeout")

\* Once the host's alerts and the failures come to rest, the health conditions
\* and labels say what the alerts say: unhealthy when some alert is critical
\* or not recognised (actuator.go, updateMachineHealth and classifyAlert).
HealthTold ==
    <>[](~CreateDue /\ inst.host =>
        LET bad == \E k \in DOMAIN alerts :
                        "critical" \in alerts[k] \/ "warning" \notin alerts[k]
        IN  /\ ms.conds["MachineHealthy"] = IF bad THEN "False" ELSE "True"
            /\ ms.healthy = IF bad THEN "false" ELSE "true"
            /\ ms.count = Len(alerts)
            /\ ms.conds["NicoFaultRemediation"] = "True" <=>
                \E k \in DOMAIN alerts : "remediating" \in alerts[k])

============================================================================
