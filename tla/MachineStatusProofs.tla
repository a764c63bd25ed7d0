------------------------ MODULE MachineStatusProofs ------------------------
(***************************************************************************)
(* Proofs about MachineStatus for every value of its constants: the type   *)
(* invariant, WatchedProgressIsClean and TimeoutMeansStuck.                *)
(***************************************************************************)
EXTENDS MachineStatus, TLAPS

Failures == {"Error", "Terminating", "Gone"}

\* The states an instance may be in one move after st.
Successors(st) ==
    CASE st = "Pending"      -> {"Provisioning"} \cup Failures
      [] st = "Provisioning" -> {"Configuring"} \cup Failures
      [] st = "Configuring"  -> {"Ready"} \cup Failures
      [] st = "Ready"        -> {"Busy"} \cup Failures
      [] st = "Busy"         -> {"Ready"} \cup Failures
      [] OTHER               -> {"Gone"}

\* The conditions on progress that are over in st; one that failed may keep
\* them, for it does not become Ready any more.
Over(st) == IF st \in {"Terminating", "Error", "none"} THEN {} ELSE Progress \ Raised(st)

\* The status is about the last instance, or one before it.
IdsOK == ms.iid <= inst.id /\ (ms.iid = 0 => ms.state = "none")

\* The status of an instance is no older than the instance.
AgesOK == ms.iid # 0 /\ ms.iid = inst.id => ms.since <= inst.age

ReadyOK == ms.conds["InstanceReady"] = "True" => ms.state = "Ready"

\* What was watched: the status is at most one move behind, and of what the
\* instance went through only the last is said to go on.
WatchedOK ==
    ~missed =>
        /\ \A c \in Over(ms.state) : ms.conds[c] # "True"
        /\ ms.iid # 0 /\ ms.iid = inst.id =>
            inst.state = ms.state \/ inst.state \in Successors(ms.state)

SInv == TypeOK /\ IdsOK /\ AgesOK /\ ReadyOK /\ WatchedOK

\* What TimeoutMeansStuck says of a step.
TimesOutRightly ==
    ms'.failed = "ProvisioningTimeout" /\ ms.failed # "ProvisioningTimeout" =>
        inst.id = ms.iid /\ inst.state \in Starting /\ inst.age > Timeout

----------------------------------------------------------------------------
(* What the parts of Update do to a status.                                *)

LEMMA StateTold ==
    ASSUME NEW s \in StatusType, NEW st \in States
    PROVE  LET t == WithState(s, st) IN
           /\ t \in StatusType
           /\ t.iid = s.iid /\ t.state = st /\ t.since = s.since /\ t.failed = s.failed
           /\ \A c \in Conds : t.conds[c] = IF c \in Raised(st) THEN "True"
                                            ELSE IF c \in Lowered(st) THEN "False"
                                            ELSE s.conds[c]
  <1> DEFINE f == [c \in Conds |-> IF c \in Raised(st) THEN "True"
                                   ELSE IF c \in Lowered(st) THEN "False" ELSE s.conds[c]]
  <1>1. WithState(s, st) = [s EXCEPT !.state = st, !.conds = f]
    BY DEF WithState
  <1>2. f \in [Conds -> {"Unset", "True", "False"}]
    BY DEF StatusType
  <1>3. \A c \in Conds : f[c] = IF c \in Raised(st) THEN "True"
                                ELSE IF c \in Lowered(st) THEN "False" ELSE s.conds[c]
    OBVIOUS
  <1> HIDE DEF f
  <1> QED
    BY <1>1, <1>2, <1>3 DEF StatusType

\* Health and timeout say nothing of progress but that it is over, and stop no
\* clock.
SameTale(s, t) ==
    /\ t.iid = s.iid /\ t.state = s.state /\ t.since = s.since
    /\ \A c \in Progress \cup {"InstanceReady"} : t.conds[c] \in {s.conds[c], "False"}

LEMMA HealthSameTale ==
    ASSUME NEW s \in StatusType, alerts \in Seq(SUBSET Classes)
    PROVE  /\ WithHealth(s) \in StatusType /\ SameTale(s, WithHealth(s))
           /\ WithHealth(s).failed = s.failed
           /\ WithHealth(s).conds["InstanceProvisioned"] = s.conds["InstanceProvisioned"]
  <1> DEFINE h == IF CriticalAlerts # <<>> THEN "False" ELSE "True"
             r == IF HasRemediatingAlert THEN "True" ELSE "False"
             l == IF CriticalAlerts # <<>> THEN "false" ELSE "true"
             n == IF CriticalAlerts # <<>> THEN Len(alerts) ELSE Len(WarningAlerts)
             f == [s.conds EXCEPT !["MachineHealthy"] = h, !["NicoFaultRemediation"] = r]
  <1>1. WithHealth(s) = [s EXCEPT !.conds = f, !.healthy = l, !.count = n]
    BY DEF WithHealth, StatusType
  <1>2. h \in {"True", "False"} /\ r \in {"True", "False"} /\ l \in {"true", "false"}
    OBVIOUS
  <1>3. n \in Nat
    BY DEF WarningAlerts
  <1> HIDE DEF h, r, l, n
  <1>4. s.conds \in [Conds -> {"Unset", "True", "False"}]
    BY DEF StatusType
  <1>5. f \in [Conds -> {"Unset", "True", "False"}]
    BY <1>2, <1>4
  <1>6. \A c \in Conds \ {"MachineHealthy", "NicoFaultRemediation"} : f[c] = s.conds[c]
    BY <1>4
  <1>7. Progress \cup {"InstanceReady", "InstanceProvisioned"} \subseteq
            Conds \ {"MachineHealthy", "NicoFaultRemediation"}
    BY DEF Conds, Progress
  <1> HIDE DEF f
  <1>8. /\ WithHealth(s) \in StatusType
        /\ WithHealth(s).iid = s.iid /\ WithHealth(s).state = s.state
        /\ WithHealth(s).since = s.since /\ WithHealth(s).failed = s.failed
        /\ WithHealth(s).conds = f
    BY <1>1, <1>2, <1>3, <1>5 DEF StatusType
  <1> QED
    BY <1>6, <1>7, <1>8 DEF SameTale

LEMMA TimeoutSameTale ==
    ASSUME NEW s \in StatusType, NEW st
    PROVE  /\ WithTimeout(s, st) \in StatusType /\ SameTale(s, WithTimeout(s, st))
           /\ WithTimeout(s, st).failed # s.failed =>
                st \in Starting /\ s.since > Timeout
  <1> DEFINE f == [s.conds EXCEPT !["InstanceReady"] = "False"]
             t == [s EXCEPT !.conds = f, !.failed = "ProvisioningTimeout"]
  <1>0. s.conds \in [Conds -> {"Unset", "True", "False"}]
    BY DEF StatusType
  <1>1. f \in [Conds -> {"Unset", "True", "False"}] /\ \A c \in Conds : f[c] \in {s.conds[c], "False"}
    BY <1>0
  <1>2. Progress \cup {"InstanceReady"} \subseteq Conds
    BY DEF Conds, Progress
  <1> HIDE DEF f
  <1>3. /\ t \in StatusType /\ t.iid = s.iid /\ t.state = s.state /\ t.since = s.since
        /\ t.conds = f
    BY <1>1 DEF StatusType
  <1>4. CASE TimedOut(s, st)
    <2>1. WithTimeout(s, st) = t
      BY <1>4 DEF WithTimeout, StatusType, f
    <2> QED
      BY <1>1, <1>2, <1>3, <1>4, <2>1 DEF SameTale, TimedOut
  <1>5. CASE ~TimedOut(s, st)
    <2>1. WithTimeout(s, st) = s
      BY <1>5 DEF WithTimeout
    <2> QED
      BY <1>2, <2>1 DEF SameTale
  <1> QED
    BY <1>4, <1>5

\* A status at most one move behind that is told the state of the instance:
\* what it says of progress is over when it should be.
LEMMA ToldIsClean ==
    ASSUME NEW s \in StatusType, NEW st \in States,
           st = s.state \/ st \in Successors(s.state),
           \A c \in Over(s.state) : s.conds[c] # "True"
    PROVE  \A c \in Over(st) : WithState(s, st).conds[c] # "True"
  <1> SUFFICES ASSUME NEW c \in Over(st) PROVE WithState(s, st).conds[c] # "True"
    OBVIOUS
  <1>1. c \in Progress /\ c \in Conds /\ c \notin Raised(st)
        /\ st \notin {"Terminating", "Error", "none"}
    BY DEF Over, Progress, Conds
  <1>2. WithState(s, st).conds[c] = IF c \in Lowered(st) THEN "False" ELSE s.conds[c]
    BY <1>1, StateTold
  <1>3. c \in Lowered(st) \/ c \in Over(s.state)
    <2>1. CASE st = s.state
      BY <2>1
    <2>2. CASE st \in Successors(s.state)
      BY <1>1, <2>2 DEF Successors, Failures, States, Starting, StatusType, Lowered,
         Over, Raised, Progress
    <2> QED
      BY <2>1, <2>2
  <1> QED
    BY <1>2, <1>3

LEMMA ToldReady ==
    ASSUME NEW s \in StatusType, NEW st \in States,
           WithState(s, st).conds["InstanceReady"] = "True"
    PROVE  st = "Ready"
  <1>1. st # "Ready" => "InstanceReady" \in Lowered(st) /\ "InstanceReady" \notin Raised(st)
    BY DEF States, Starting, Lowered, Raised
  <1>2. "InstanceReady" \in Conds
    BY DEF Conds
  <1> QED
    BY <1>1, <1>2, StateTold

----------------------------------------------------------------------------
(* Every action keeps the invariant, and times out rightly.                *)

LEMMA Types ==
    ASSUME TypeOK
    PROVE  /\ alerts \in Seq(SUBSET Classes)
           /\ MaxInstances \in Nat /\ Timeout \in Nat /\ MaxFaults \in Nat /\ MaxEvents \in Nat
           /\ MaxFaultBlockedAttempts \in Nat \ {0}
           /\ ms.iid \in Nat /\ inst.id \in Nat /\ ms.since \in Nat /\ inst.age \in Nat
           /\ inst.state \in States \cup {"Gone"}
           /\ spec.targeted \in BOOLEAN
  BY StatusAssumption DEF TypeOK, StatusType, InstanceType, Ages

LEMMA SpendOK == faults \in 0..MaxFaults /\ Spend => faults' \in 0..MaxFaults
  BY StatusAssumption DEF Spend

\* A new status t that the invariant allows, of the same instance.
LEMMA StatusOK ==
    ASSUME SInv, ms' \in StatusType, faults' \in 0..MaxFaults,
           UNCHANGED <<spec, inst, alerts, runs, missed, events>>,
           ms'.iid = ms.iid, ms'.since = ms.since,
           ms.iid = 0 => ms'.state = ms.state,
           ms'.conds["InstanceReady"] = "True" => ms'.state = "Ready",
           ~missed => /\ \A c \in Over(ms'.state) : ms'.conds[c] # "True"
                      /\ ms.iid = inst.id =>
                           ms'.state \in {ms.state, inst.state}
    PROVE  SInv'
  <1>1. TypeOK'
    BY DEF SInv, TypeOK
  <1>2. IdsOK' /\ AgesOK' /\ ReadyOK'
    BY DEF SInv, IdsOK, AgesOK, ReadyOK
  <1>3. WatchedOK'
    BY DEF SInv, WatchedOK
  <1> QED
    BY <1>1, <1>2, <1>3 DEF SInv

LEMMA CreateBlockedOK ==
    ASSUME SInv, CreateBlocked
    PROVE  SInv' /\ TimesOutRightly
  <1> DEFINE n == IF Attempt > MaxFaultBlockedAttempts THEN MaxFaultBlockedAttempts
                  ELSE Attempt
             f == [ms.conds EXCEPT !["FaultBlockedCreation"] = "True",
                                   !["MachineHealthy"] = "False"]
             e == IF n >= MaxFaultBlockedAttempts
                  THEN "PreFlightHealthCheckFailed" ELSE ms.failed
  <1>0. /\ TypeOK /\ ms \in StatusType
        /\ UNCHANGED <<spec, inst, alerts, runs, missed, events, faults>>
    BY DEF SInv, TypeOK, CreateBlocked
  <1>1. ms' = [ms EXCEPT !.conds = f, !.attempts = n, !.failed = e]
    BY <1>0 DEF CreateBlocked, StatusType
  <1>2. n \in 0..MaxFaultBlockedAttempts
    <2>1. ms.attempts \in Nat /\ MaxFaultBlockedAttempts \in Nat \ {0}
      BY <1>0, Types DEF StatusType
    <2> QED
      BY <2>1 DEF Attempt
  <1>3. e \in {"PreFlightHealthCheckFailed", ms.failed}
    OBVIOUS
  <1> HIDE DEF n, e
  <1>4. ms.conds \in [Conds -> {"Unset", "True", "False"}]
    BY <1>0 DEF StatusType
  <1>5. /\ f \in [Conds -> {"Unset", "True", "False"}]
        /\ \A c \in Conds \ {"FaultBlockedCreation", "MachineHealthy"} : f[c] = ms.conds[c]
    BY <1>4
  <1> HIDE DEF f
  <1>6. /\ ms' \in StatusType /\ ms'.iid = ms.iid /\ ms'.since = ms.since
        /\ ms'.state = ms.state /\ ms'.conds = f /\ ms'.failed = e
    BY <1>0, <1>1, <1>2, <1>3, <1>5 DEF StatusType
  <1>7. \A c \in Progress \cup {"InstanceReady"} : ms'.conds[c] = ms.conds[c]
    BY <1>5, <1>6 DEF Progress, Conds
  <1>8. faults' \in 0..MaxFaults
    BY <1>0 DEF TypeOK
  <1>9. Over(ms.state) \subseteq Progress
    BY DEF Over
  <1>10. SInv'
    BY <1>0, <1>6, <1>7, <1>8, <1>9, StatusOK DEF SInv, ReadyOK, WatchedOK
  <1>11. TimesOutRightly
    BY <1>3, <1>6 DEF TimesOutRightly
  <1> QED
    BY <1>10, <1>11

LEMMA CreateOK ==
    ASSUME SInv, NEW a, NEW r, NEW kept \in BOOLEAN, Create(a, r, kept),
           faults' \in 0..MaxFaults
    PROVE  SInv' /\ TimesOutRightly
  <1>0. /\ TypeOK /\ ms \in StatusType /\ inst.id < MaxInstances /\ inst' = NewInstance
        /\ ms' = IF kept THEN CreatedStatus(inst.id + 1) ELSE ms
        /\ missed' = (missed /\ ~kept)
        /\ UNCHANGED <<spec, alerts, runs, events>>
    BY DEF SInv, TypeOK, Create
  <1>1. /\ inst' \in InstanceType /\ inst'.id = inst.id + 1 /\ inst'.state = "Pending"
        /\ inst'.age = 0
    BY <1>0, Types DEF NewInstance, InstanceType, States, Starting, Ages
  <1> DEFINE new == CreatedStatus(inst.id + 1)
             f == [NoConditions EXCEPT !["InstanceProvisioned"] = "True"]
  <1>2. /\ f \in [Conds -> {"Unset", "True", "False"}]
        /\ \A c \in Progress \cup {"InstanceReady"} : f[c] = "Unset"
    BY DEF NoConditions, Conds, Progress
  <1>3. new = [NoStatus EXCEPT !.iid = inst.id + 1, !.state = "Pending",
                               !.failed = ms.failed, !.conds = f]
    BY DEF CreatedStatus, NoStatus
  <1> HIDE DEF f
  <1>4. /\ new \in StatusType /\ new.iid = inst.id + 1 /\ new.state = "Pending"
        /\ new.since = 0 /\ new.failed = ms.failed /\ new.conds = f
    <2>1. inst.id + 1 \in 0..MaxInstances /\ 0 \in Ages /\ 0 \in 0..MaxFaultBlockedAttempts
      BY <1>0, Types DEF Ages
    <2>2. NoConditions \in [Conds -> {"Unset", "True", "False"}]
      BY DEF NoConditions
    <2>3. NoStatus \in StatusType /\ NoStatus.since = 0
      BY <1>0, <2>1, <2>2, Types DEF NoStatus, StatusType
    <2>4. "Pending" \in States
      BY DEF States, Starting
    <2>5. ms.failed \in {"none", "ProvisioningTimeout", "PreFlightHealthCheckFailed"}
      BY <1>0 DEF StatusType
    <2> HIDE DEF new
    <2> QED
      BY <1>2, <1>3, <2>1, <2>3, <2>4, <2>5 DEF StatusType
  <1> HIDE DEF new
  <1>5. CASE kept
    <2>1. ms' = new /\ missed' = FALSE
      BY <1>0, <1>5 DEF new
    <2>2. TypeOK'
      BY <1>0, <1>1, <1>4, <2>1 DEF TypeOK
    <2>3. IdsOK' /\ AgesOK' /\ ReadyOK'
      BY <1>0, <1>1, <1>2, <1>4, <2>1, Types DEF IdsOK, AgesOK, ReadyOK
    <2>4. WatchedOK'
      BY <1>1, <1>2, <1>4, <2>1 DEF WatchedOK, Over
    <2> QED
      BY <1>4, <2>1, <2>2, <2>3, <2>4 DEF SInv, TimesOutRightly
  <1>6. CASE ~kept
    <2>1. ms' = ms /\ missed' = missed
      BY <1>0, <1>6 DEF TypeOK
    <2>2. TypeOK'
      BY <1>0, <1>1, <2>1 DEF TypeOK
    <2>3. ms.iid # inst'.id /\ IdsOK'
      BY <1>0, <1>1, <2>1, Types DEF SInv, IdsOK
    <2>4. AgesOK' /\ ReadyOK' /\ WatchedOK'
      BY <2>1, <2>3 DEF SInv, AgesOK, ReadyOK, WatchedOK
    <2> QED
      BY <2>1, <2>2, <2>3, <2>4 DEF SInv, TimesOutRightly
  <1> QED
    BY <1>5, <1>6

LEMMA UpdateOK ==
    ASSUME SInv, NEW read \in BOOLEAN, Update(read), faults' \in 0..MaxFaults
    PROVE  SInv' /\ TimesOutRightly
  <1> DEFINE told == WithState(ms, inst.state)
             asked == IF inst.host /\ read THEN WithHealth(told) ELSE told
  <1>0. /\ TypeOK /\ ms \in StatusType /\ ms' = WithTimeout(asked, inst.state)
        /\ UNCHANGED <<spec, inst, alerts, runs, missed, events>>
        /\ ms.iid # 0 /\ inst.id = ms.iid /\ inst.state \in States
    BY Types DEF SInv, TypeOK, Update, CreateDue
  <1>1. /\ told \in StatusType /\ told.iid = ms.iid /\ told.state = inst.state
        /\ told.since = ms.since /\ told.failed = ms.failed
    BY <1>0, StateTold
  <1>2. ~missed => \A c \in Over(inst.state) : told.conds[c] # "True"
    BY <1>0, ToldIsClean DEF SInv, WatchedOK
  <1>3. told.conds["InstanceReady"] = "True" => inst.state = "Ready"
    BY <1>0, ToldReady
  <1> HIDE DEF told
  <1>4. asked \in StatusType /\ SameTale(told, asked) /\ asked.failed = told.failed
    <2>1. SameTale(told, told)
      BY DEF SameTale
    <2> QED
      BY <1>0, <1>1, <2>1, HealthSameTale, Types
  <1> HIDE DEF asked
  <1>5. /\ ms' \in StatusType /\ SameTale(asked, ms')
        /\ ms'.failed # asked.failed => inst.state \in Starting /\ asked.since > Timeout
    BY <1>0, <1>4, TimeoutSameTale
  <1>6. /\ ms'.iid = ms.iid /\ ms'.state = inst.state /\ ms'.since = ms.since
        /\ \A c \in Progress \cup {"InstanceReady"} : ms'.conds[c] \in {told.conds[c], "False"}
    BY <1>1, <1>4, <1>5 DEF SameTale
  <1>7. Over(inst.state) \subseteq Progress
    BY DEF Over
  <1>8. SInv'
    BY <1>0, <1>2, <1>3, <1>5, <1>6, <1>7, StatusOK
  <1>9. TimesOutRightly
    <2> SUFFICES ASSUME ms'.failed # ms.failed
                 PROVE  inst.state \in Starting /\ inst.age > Timeout
      BY <1>0 DEF TimesOutRightly
    <2>1. inst.state \in Starting /\ ms.since > Timeout
      BY <1>1, <1>4, <1>5 DEF SameTale
    <2>2. ms.since <= inst.age
      BY <1>0 DEF SInv, AgesOK
    <2> QED
      BY <1>0, <2>1, <2>2, Types
  <1> QED
    BY <1>8, <1>9

LEMMA UpdateStatelessOK ==
    ASSUME SInv, UpdateStateless
    PROVE  SInv' /\ TimesOutRightly
  <1>0. /\ TypeOK /\ ms \in StatusType /\ ms' \in {ms, WithHealth(ms)}
        /\ UNCHANGED <<spec, inst, alerts, runs, missed, events>>
        /\ faults' \in 0..MaxFaults
    BY SpendOK DEF SInv, TypeOK, UpdateStateless
  <1>1. ms' \in StatusType /\ SameTale(ms, ms') /\ ms'.failed = ms.failed
    <2>1. SameTale(ms, ms)
      BY DEF SameTale
    <2> QED
      BY <1>0, <2>1, HealthSameTale, Types
  <1>2. Over(ms.state) \subseteq Progress
    BY DEF Over
  <1>3. SInv'
    BY <1>0, <1>1, <1>2, StatusOK DEF SameTale, SInv, ReadyOK, WatchedOK
  <1> QED
    BY <1>1, <1>3 DEF TimesOutRightly

LEMMA AdvanceOK ==
    ASSUME SInv, InstanceAdvances \/ InstanceFails
    PROVE  SInv' /\ TimesOutRightly
  <1>0. TypeOK /\ inst \in InstanceType /\ faults' \in 0..MaxFaults
    BY SpendOK DEF SInv, TypeOK, InstanceAdvances, InstanceFails
  <1>1. PICK st \in Successors(inst.state) : Advance(st) /\ st \in States \cup {"Gone"}
    <2>1. CASE InstanceAdvances
      BY <2>1, <1>0 DEF InstanceAdvances, NextStates, Successors, InstanceType,
         States, Starting, Failures
    <2>2. CASE InstanceFails
      BY <2>2, <1>0 DEF InstanceFails, Successors, InstanceType,
         States, Starting, Failures
    <2> QED
      BY <2>1, <2>2
  <1>2. /\ inst' = [inst EXCEPT !.state = st, !.host = @ \/ st = "Provisioning"]
        /\ missed' = (missed \/ ms.iid # inst.id \/ ms.state # inst.state)
        /\ UNCHANGED <<spec, ms, alerts, runs, events>>
    BY <1>1 DEF Advance
  <1>3. /\ inst' \in InstanceType /\ inst'.id = inst.id /\ inst'.age = inst.age
        /\ inst'.state = st
    BY <1>0, <1>1, <1>2 DEF InstanceType
  <1>4. TypeOK'
    <2>1. missed' \in BOOLEAN
      BY <1>2
    <2> QED
      BY <1>0, <1>2, <1>3, <2>1 DEF TypeOK
  <1>5. IdsOK' /\ AgesOK' /\ ReadyOK'
    BY <1>2, <1>3 DEF SInv, IdsOK, AgesOK, ReadyOK
  <1>6. WatchedOK'
    BY <1>1, <1>2, <1>3 DEF SInv, WatchedOK
  <1> QED
    BY <1>2, <1>4, <1>5, <1>6 DEF SInv, TimesOutRightly

LEMMA TickOK ==
    ASSUME SInv, Tick
    PROVE  SInv' /\ TimesOutRightly
  <1>0. /\ TypeOK /\ ms \in StatusType /\ inst \in InstanceType
        /\ inst' = [inst EXCEPT !.age = Older(inst.age)]
        /\ ms' = ms \/ ms' = [ms EXCEPT !.since = Older(ms.since)]
        /\ UNCHANGED <<spec, alerts, runs, missed, events, faults>>
    BY DEF SInv, TypeOK, Tick, StatusType
  <1>1. ASSUME NEW n \in Ages
        PROVE  /\ Older(n) \in Ages /\ n <= Older(n)
               /\ \A k \in Ages : k <= n => Older(k) <= Older(n)
    BY StatusAssumption DEF Ages, Older
  <1>2. /\ inst' \in InstanceType /\ inst'.id = inst.id /\ inst'.state = inst.state
        /\ inst'.age = Older(inst.age) /\ inst.age \in Ages
    BY <1>0, <1>1 DEF InstanceType
  <1>3. /\ ms' \in StatusType /\ ms'.iid = ms.iid /\ ms'.state = ms.state
        /\ ms'.conds = ms.conds /\ ms'.failed = ms.failed
        /\ ms'.since \in {ms.since, Older(ms.since)} /\ ms.since \in Ages
    BY <1>0, <1>1 DEF StatusType
  <1>4. TypeOK'
    BY <1>0, <1>2, <1>3 DEF TypeOK
  <1>5. IdsOK' /\ ReadyOK' /\ WatchedOK'
    BY <1>0, <1>2, <1>3 DEF SInv, IdsOK, ReadyOK, WatchedOK
  <1>6. AgesOK'
    <2> SUFFICES ASSUME ms.iid # 0, ms.iid = inst.id PROVE ms'.since <= inst'.age
      BY <1>2, <1>3 DEF AgesOK
    <2>1. ms.since <= inst.age
      BY DEF SInv, AgesOK
    <2>2. inst.age <= Older(inst.age) /\ Older(ms.since) <= Older(inst.age)
      BY <1>1, <1>2, <1>3, <2>1
    <2>3. ms.since \in Nat /\ inst.age \in Nat /\ Older(inst.age) \in Nat
      BY <1>1, <1>2, <1>3, StatusAssumption DEF Ages
    <2> QED
      BY <1>2, <1>3, <2>1, <2>2, <2>3
  <1> QED
    BY <1>3, <1>4, <1>5, <1>6 DEF SInv, TimesOutRightly

LEMMA QuietOK ==
    ASSUME SInv, HostEvent \/ UNCHANGED vars
    PROVE  SInv' /\ TimesOutRightly
  <1>0. /\ UNCHANGED <<spec, ms, inst, missed, faults>>
        /\ alerts' \in AlertLists /\ runs' \in RunLists
    BY DEF SInv, TypeOK, HostEvent, vars
  <1>1. events' \in 0..MaxEvents
    BY StatusAssumption DEF SInv, TypeOK, HostEvent, vars
  <1>2. TypeOK'
    BY <1>0, <1>1 DEF SInv, TypeOK
  <1> QED
    BY <1>0, <1>2 DEF SInv, IdsOK, AgesOK, ReadyOK, WatchedOK, TimesOutRightly

LEMMA NextOK ==
    ASSUME SInv, [Next]_vars
    PROVE  SInv' /\ TimesOutRightly
  <1>0. faults \in 0..MaxFaults
    BY DEF SInv, TypeOK
  <1>1. CASE Reconcile
    <2>1. CASE Create(TRUE, TRUE, TRUE) /\ UNCHANGED faults
      BY <1>0, <2>1, CreateOK
    <2>2. CASE Update(TRUE) /\ UNCHANGED faults
      BY <1>0, <2>2, UpdateOK
    <2> QED
      BY <1>1, <2>1, <2>2, CreateBlockedOK DEF Reconcile
  <1>2. CASE Failure
    <2>1. CASE Spend /\ \/ Create(FALSE, TRUE, TRUE) \/ Create(TRUE, FALSE, TRUE)
                        \/ Create(TRUE, TRUE, FALSE)
      BY <1>0, <2>1, SpendOK, CreateOK
    <2>2. CASE Spend /\ Update(FALSE)
      BY <1>0, <2>2, SpendOK, UpdateOK
    <2> QED
      BY <1>2, <2>1, <2>2, UpdateStatelessOK DEF Failure
  <1> QED
    BY <1>1, <1>2, AdvanceOK, TickOK, QuietOK DEF Next

LEMMA InitOK == Init => SInv
  <1> SUFFICES ASSUME Init PROVE SInv
    OBVIOUS
  <1>0. 0 \in Ages /\ 0 \in 0..MaxInstances /\ 0 \in 0..MaxFaultBlockedAttempts
        /\ 0 \in 0..MaxEvents /\ 0 \in 0..MaxFaults
    BY StatusAssumption DEF Ages
  <1>1. /\ NoStatus \in StatusType /\ NoStatus.iid = 0 /\ NoStatus.state = "none"
        /\ \A c \in Conds : NoStatus.conds[c] = "Unset"
    BY <1>0 DEF NoStatus, NoConditions, StatusType
  <1>2. NoInstance \in InstanceType /\ NoInstance.id = 0
    BY <1>0 DEF NoInstance, InstanceType
  <1>3. TypeOK
    BY <1>0, <1>1, <1>2 DEF Init, TypeOK
  <1>4. "InstanceReady" \in Conds /\ Over("none") = {}
    BY DEF Conds, Over
  <1>5. IdsOK /\ AgesOK /\ ReadyOK /\ WatchedOK
    BY <1>1, <1>2, <1>4 DEF Init, IdsOK, AgesOK, ReadyOK, WatchedOK
  <1> QED
    BY <1>3, <1>5 DEF SInv

\* The inductive invariant: the status is of the last instance or one before,
\* no older than it, and what was watched is at most one move behind.
THEOREM StatusInvariance == Spec => []SInv
  <1>1. SInv /\ [Next]_vars => SInv'
    BY NextOK
  <1> QED
    BY <1>1, InitOK, PTL DEF Spec

\* When a Machine whose every state was seen is Ready, no condition says that
\* it is still being allocated, provisioned or bootstrapped (actuator.go,
\* setInstanceStateConditions).
THEOREM ProgressClean == Spec => []WatchedProgressIsClean
  <1>1. SInv => WatchedProgressIsClean
    <2>1. Over("Ready") = Progress
      BY DEF Over, Raised, Progress
    <2> QED
      BY <2>1 DEF SInv, ReadyOK, WatchedOK, WatchedProgressIsClean
  <1> QED
    BY <1>1, StatusInvariance, PTL

\* ProvisioningTimeout is set only on account of the instance the Machine has
\* now, which has been starting for longer than the timeout (actuator.go,
\* Create and checkProvisioningTimeout).
THEOREM TimeoutIsDeserved == Spec => TimeoutMeansStuck
  <1>1. SInv /\ [Next]_vars =>
          [ms'.failed = "ProvisioningTimeout" /\ ms.failed # "ProvisioningTimeout" =>
             inst.id = ms.iid /\ inst.state \in Starting /\ inst.age > Timeout]_vars
    BY NextOK DEF TimesOutRightly
  <1> QED
    BY <1>1, StatusInvariance, PTL DEF Spec, TimeoutMeansStuck

============================================================================
