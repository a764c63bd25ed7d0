---------------------------- MODULE OrphanProofs ----------------------------
(***************************************************************************)
(* Proof of OrphansPaidFor, for one manager that reads its own writes, any *)
(* number of instances and any finite number of Machines: every instance   *)
(* Create lost track of was paid for by a failure or a foreign write.      *)
(***************************************************************************)
EXTENDS ClaimsProofs, FiniteSetTheorems

OneManager == \A v, w \in Managers : v = w

\* The three ways to pay.
Ending == {m \in Machines : obj[m].life \in {"deleting", "gone"}}
Marked == {m \in Remediable : obj[m].marked \/ obj[m].life = "gone"}
Paid   == faults + Cardinality(Ending) + Cardinality(Marked)

\* Reconciles about to create an instance from a copy that has been overtaken:
\* the instance will be an orphan as soon as it is there.
Late == {w \in Managers : wk[w].pc \in {"create", "createCall"} /\ w \notin base}
Owed == IF Late = {} THEN 0 ELSE 1

OwnersOK == \A i \in Instances : inst[i].state # "free" => inst[i].owner \in Machines

\* A Machine yet to come is not marked.
UnmarkedYet == \A m \in Machines : obj[m].life = "absent" => ~obj[m].marked

OInv ==
    /\ IInv
    /\ OwnersOK
    /\ UnmarkedYet
    /\ IsFiniteSet(Orphans)
    /\ Cardinality(Orphans) + Owed <= Paid

----------------------------------------------------------------------------
(* Keeping the books: what a step may do to what is owed and paid.         *)

\* Nothing that was paid is taken back.
Keeps == /\ Ending \subseteq Ending' /\ Marked \subseteq Marked'
         /\ faults' \in {faults, faults + 1}

Pays == faults' = faults + 1 \/ Ending' # Ending \/ Marked' # Marked

\* Nothing is lost; or it is paid that something will be; or one instance is
\* lost, which was owed or is paid now.
Accounted ==
    \/ Orphans' \subseteq Orphans /\ (Late' = {} \/ Late # {} \/ Pays)
    \/ /\ \E i \in Instances : Orphans' \subseteq Orphans \cup {i}
       /\ Late' = {} /\ (Late # {} \/ Pays)

Settles == Keeps /\ UnmarkedYet' /\ Accounted

LEMMA Grown ==
    ASSUME NEW T, IsFiniteSet(T), NEW S \in SUBSET T
    PROVE  /\ Cardinality(S) \in Nat /\ Cardinality(T) \in Nat
           /\ Cardinality(S) <= Cardinality(T)
           /\ S # T => Cardinality(S) + 1 <= Cardinality(T)
  <1>1. IsFiniteSet(S) /\ Cardinality(S) <= Cardinality(T)
        /\ (Cardinality(T) = Cardinality(S) => T = S)
    BY FS_Subset
  <1>2. Cardinality(S) \in Nat /\ Cardinality(T) \in Nat
    BY <1>1, FS_CardinalityType
  <1> QED
    BY <1>1, <1>2

LEMMA AtMostOneMore ==
    ASSUME NEW S, IsFiniteSet(S), NEW x, NEW T \in SUBSET (S \cup {x})
    PROVE  IsFiniteSet(T) /\ Cardinality(T) \in Nat /\ Cardinality(T) <= Cardinality(S) + 1
  <1>1. /\ IsFiniteSet(S \cup {x})
        /\ Cardinality(S \cup {x}) \in {Cardinality(S), Cardinality(S) + 1}
    BY FS_AddElement
  <1>2. IsFiniteSet(T) /\ Cardinality(T) <= Cardinality(S \cup {x})
    BY <1>1, FS_Subset
  <1>3. Cardinality(S) \in Nat /\ Cardinality(T) \in Nat
    BY <1>2, FS_CardinalityType
  <1> QED
    BY <1>1, <1>2, <1>3

LEMMA Sums ==
    ASSUME NEW a \in Nat, NEW b \in Nat, NEW c \in Nat,
           NEW x \in Nat, NEW y \in Nat, NEW z \in Nat, a <= x, b <= y, c <= z
    PROVE  /\ a + b + c \in Nat /\ x + y + z \in Nat /\ a + b + c <= x + y + z
           /\ x = a + 1 \/ b + 1 <= y \/ c + 1 <= z => a + b + c + 1 <= x + y + z
  OBVIOUS

LEMMA PaidKept ==
    ASSUME IsFiniteSet(Machines), TypeOK, Keeps
    PROVE  /\ Paid \in Nat /\ Paid' \in Nat /\ Paid <= Paid'
           /\ Pays => Paid + 1 <= Paid'
  <1> DEFINE e == Cardinality(Ending)
             f == Cardinality(Ending')
             k == Cardinality(Marked)
             l == Cardinality(Marked')
  <1>0. Ending' \in SUBSET Machines /\ Marked' \in SUBSET Machines
    BY SpecAssumption DEF Ending, Marked
  <1>1. IsFiniteSet(Ending') /\ IsFiniteSet(Marked')
    BY <1>0, FS_Subset
  <1>2. e \in Nat /\ f \in Nat /\ e <= f /\ (Ending' # Ending => e + 1 <= f)
    BY <1>1, Grown DEF Keeps
  <1>3. k \in Nat /\ l \in Nat /\ k <= l /\ (Marked' # Marked => k + 1 <= l)
    BY <1>1, Grown DEF Keeps
  <1>4. faults \in Nat /\ faults' \in {faults, faults + 1}
    BY BoundAssumption DEF TypeOK, Keeps
  <1>5. Paid = faults + e + k /\ Paid' = faults' + f + l
    BY DEF Paid
  <1> HIDE DEF e, f, k, l
  <1>6. faults <= faults' /\ faults' \in Nat
    BY <1>4
  <1>7. /\ Paid \in Nat /\ Paid' \in Nat /\ Paid <= Paid'
        /\ faults' = faults + 1 \/ e + 1 <= f \/ k + 1 <= l => Paid + 1 <= Paid'
    BY <1>2, <1>3, <1>4, <1>5, <1>6, Sums, Zenon
  <1> QED
    BY <1>2, <1>3, <1>7, Zenon DEF Pays

\* A step that settles its account keeps the balance.
LEMMA Balance ==
    ASSUME IsFiniteSet(Machines), OInv, Settles
    PROVE  IsFiniteSet(Orphans') /\ Cardinality(Orphans') + Owed' <= Paid'
  <1>1. /\ Paid \in Nat /\ Paid' \in Nat /\ Paid <= Paid'
        /\ Pays => Paid + 1 <= Paid'
    BY PaidKept DEF OInv, IInv, Settles
  <1>2. /\ Owed = IF Late = {} THEN 0 ELSE 1
        /\ Owed' = IF Late' = {} THEN 0 ELSE 1
    BY DEF Owed
  <1>3. /\ IsFiniteSet(Orphans) /\ Cardinality(Orphans) \in Nat
        /\ Cardinality(Orphans) + Owed <= Paid
    BY FS_CardinalityType DEF OInv
  <1>4. CASE Orphans' \subseteq Orphans /\ (Late' = {} \/ Late # {} \/ Pays)
    <2>1. IsFiniteSet(Orphans') /\ Cardinality(Orphans') <= Cardinality(Orphans)
      BY <1>3, <1>4, FS_Subset
    <2>2. Cardinality(Orphans') \in Nat
      BY <2>1, FS_CardinalityType
    <2> QED
      BY <1>1, <1>2, <1>3, <1>4, <2>1, <2>2
  <1>5. CASE /\ \E i \in Instances : Orphans' \subseteq Orphans \cup {i}
             /\ Late' = {} /\ (Late # {} \/ Pays)
    <2>1. PICK i \in Instances : Orphans' \subseteq Orphans \cup {i}
      BY <1>5
    <2>2. /\ IsFiniteSet(Orphans') /\ Cardinality(Orphans') \in Nat
          /\ Cardinality(Orphans') <= Cardinality(Orphans) + 1
      BY <1>3, <2>1, AtMostOneMore
    <2> QED
      BY <1>1, <1>2, <1>3, <1>5, <2>2
  <1> QED
    BY <1>4, <1>5 DEF Settles, Accounted

----------------------------------------------------------------------------
(* Which instances a step may orphan.                                      *)

\* From InstanceClaims: instances keep their owner, and only a free one comes
\* to life.
LEMMA Lives ==
    ASSUME Maps, NEW i \in Instances, inst[i] \in InstanceType
    PROVE  /\ inst[i].state # "free" =>
                inst'[i].owner = inst[i].owner /\ inst'[i].state # "free"
           /\ inst'[i].state # "free" => inst[i].state # "free" \/ inst'[i].owner \in Machines
           /\ Alive(i)' => Alive(i) \/ inst[i].state = "free"
  <1> DEFINE o == [j \in Instances |-> inst[j].owner]
             p == [j \in Instances |-> Phase(j)]
  <1>1. \/ o' = o /\ p' = p
        \/ \E m \in Machines, j \in Instances :
             p[j] = "free" /\ o' = [o EXCEPT ![j] = m] /\ p' = [p EXCEPT ![j] = "running"]
        \/ o' = o /\ \E j : p[j] = "running" /\ p' = [p EXCEPT ![j] = "releasing"]
        \/ o' = o /\ \E j : p[j] # "free" /\ p' = [p EXCEPT ![j] = "gone"]
    <2>1. CASE UNCHANGED Claims!claims
      BY <2>1 DEF o, p, Claims!claims
    <2>2. CASE \E m \in Machines :
                 Claims!Appear(m) \/ Claims!RequestDeletion(m) \/ Claims!Leave(m)
      BY <2>2 DEF o, p, Claims!Appear, Claims!RequestDeletion, Claims!Leave
    <2>3. CASE \E m \in Machines : Claims!Release(m)
      BY <2>3 DEF o, p, Claims!Release
    <2>4. CASE \E m \in Machines, j \in Instances : Claims!Adopt(m, j) \/ Claims!Claim(m, j)
      BY <2>4 DEF o, p, Claims!Adopt, Claims!Claim
    <2>5. CASE \E m \in Machines, j \in Instances : Claims!Record(m, j)
      BY <2>5 DEF o, p, Claims!Record
    <2>6. CASE \E j \in Instances : Claims!Depart(j)
      <3>1. PICK j \in Instances : Claims!Depart(j)
        BY <2>6
      <3>2. p[j] # "free" /\ p' = [p EXCEPT ![j] = "gone"] /\ o' = o
        BY <3>1 DEF Claims!Depart
      <3> QED
        BY <3>2
    <2> QED
      BY <2>1, <2>2, <2>3, <2>4, <2>5, <2>6 DEF Maps, Claims!Next
  <1>2. /\ p[i] = Phase(i) /\ p'[i] = Phase(i)'
        /\ o[i] = inst[i].owner /\ o'[i] = inst'[i].owner
        /\ DOMAIN o = Instances /\ DOMAIN p = Instances
    OBVIOUS
  <1> HIDE DEF o, p
  <1>3. /\ p[i] # "free" => o'[i] = o[i] /\ p'[i] # "free"
        /\ p'[i] # "free" => p[i] # "free" \/ o'[i] \in Machines
        /\ p'[i] = "running" => p[i] \in {"running", "free"}
    BY <1>1, <1>2
  <1>4. /\ Phase(i) = "free" <=> inst[i].state = "free"
        /\ Phase(i)' = "free" <=> inst'[i].state = "free"
        /\ Alive(i)' => Phase(i)' = "running"
        /\ Phase(i) = "running" => Alive(i)
    BY DEF Phase, Alive, InstanceType, States
  <1> QED
    BY <1>2, <1>3, <1>4

LEMMA OwnersStay ==
    ASSUME IInv, OwnersOK, Maps
    PROVE  OwnersOK'
  <1>1. ASSUME NEW i \in Instances, inst'[i].state # "free"
        PROVE  inst'[i].owner \in Machines
    <2>1. inst[i] \in InstanceType
      BY DEF IInv, TypeOK
    <2> QED
      BY <1>1, <2>1, Lives DEF OwnersOK
  <1> QED
    BY <1>1 DEF OwnersOK

\* An instance becomes an orphan when it is made, or when the reconcile that
\* was to record it stops short; for what is recorded stays so.
LEMMA NewOrphan ==
    ASSUME IInv, OwnersOK, Next, NEW i \in Orphans', i \notin Orphans
    PROVE  /\ i \in Instances /\ inst'[i].state # "free"
           /\ \/ inst[i].state = "free"
              \/ \E w \in base : wk[w].pc = "createStatus" /\ wk[w].i = i
  <1>1. /\ i \in Instances /\ Alive(i)' /\ obj'[inst'[i].owner].iid # i
        /\ inst'[i].state \notin {"free", "Terminating", "Gone"}
    BY DEF Orphans, Alive
  <1>2. Maps
    BY NextMaps DEF Maps
  <1>3. inst[i] \in InstanceType
    BY <1>1 DEF IInv, TypeOK
  <1>4. CASE inst[i].state # "free"
    <2>1. Alive(i) /\ inst'[i].owner = inst[i].owner /\ inst[i].owner \in Machines
      BY <1>1, <1>2, <1>3, <1>4, Lives DEF OwnersOK
    <2>2. i # None
      BY <1>1, NoneAssumption
    <2>3. obj[inst[i].owner].iid # i
      BY <1>1, <2>1, <2>2, StepRemembers
    <2> QED
      BY <1>1, <2>1, <2>3 DEF Orphans
  <1> QED
    BY <1>1, <1>4

\* Nobody stops short and nothing is made.
LEMMA NoneOrphaned ==
    ASSUME IInv, OwnersOK, Next,
           \A i \in Instances : inst[i].state = "free" => inst'[i].state = "free",
           \A w \in base : wk[w].pc = "createStatus" =>
              w \in base' /\ wk'[w].pc = "createStatus" /\ wk'[w].i = wk[w].i
    PROVE  Orphans' \subseteq Orphans
  <1> SUFFICES ASSUME NEW i \in Orphans', i \notin Orphans PROVE FALSE
    OBVIOUS
  <1>1. PICK w \in base : wk[w].pc = "createStatus" /\ wk[w].i = i
    BY NewOrphan
  <1> QED
    BY <1>1 DEF Orphans

\* One manager can stop short of recording one instance.
LEMMA OneOrphaned ==
    ASSUME IInv, OwnersOK, Next, OneManager, NEW w \in Managers,
           \A i \in Instances : inst[i].state = "free" => inst'[i].state = "free"
    PROVE  Orphans' \subseteq Orphans \cup {wk[w].i}
  <1> SUFFICES ASSUME NEW i \in Orphans', i \notin Orphans PROVE i = wk[w].i
    OBVIOUS
  <1>1. PICK v \in base : wk[v].i = i
    BY NewOrphan
  <1> QED
    BY <1>1 DEF OneManager, IInv, TypeOK

----------------------------------------------------------------------------
(* The writes.                                                             *)

\* No write takes back a deletion or a mark.
LEMMA WriteKeeps ==
    ASSUME TypeOK, UnmarkedYet, NEW m \in Machines, NEW new, Commit(m, new),
           \/ new.life = obj[m].life /\ new.marked = obj[m].marked
           \/ new.life = "gone"
           \/ new.life = "deleting" /\ obj[m].life # "gone" /\ new.marked = obj[m].marked
           \/ new.life = "live" /\ obj[m].life \in {"absent", "live"}
              /\ (obj[m].marked => new.marked),
           obj[m].life = "absent" => new.life # "absent",
           faults' \in {faults, faults + 1}
    PROVE  Keeps /\ UnmarkedYet'
  <1>1. obj'[m] = new /\ \A n \in Machines \ {m} : obj'[n] = obj[n]
    BY DEF Commit, TypeOK
  <1>2. Ending \subseteq Ending'
    BY <1>1 DEF Ending
  <1>3. Marked \subseteq Marked'
    BY <1>1, SpecAssumption DEF Marked
  <1>4. UnmarkedYet'
    BY <1>1 DEF UnmarkedYet
  <1> QED
    BY <1>2, <1>3, <1>4 DEF Keeps

LEMMA NoWriteKeeps ==
    ASSUME UnmarkedYet, obj' = obj, faults' \in {faults, faults + 1}
    PROVE  Keeps /\ UnmarkedYet'
  BY DEF Keeps, UnmarkedYet, Ending, Marked

----------------------------------------------------------------------------
(* Every step settles its account.                                         *)

\* Of the one manager, nobody else can be late.
LEMMA NotLate ==
    ASSUME OneManager, NEW w \in Managers,
           wk'[w].pc \notin {"create", "createCall"} \/ w \in base'
    PROVE  Late' = {}
  BY DEF OneManager, Late

LEMMA ReconcileSettles ==
    ASSUME OInv, OneManager, ~StaleReads, Next, NEW w \in Managers, NEW m \in Machines,
           Reconcile(w, m) \/ CacheSync(w, m)
    PROVE  Settles
  <1> USE DEF machineVars, nicoVars
  <1>0. IInv /\ OwnersOK /\ UnmarkedYet /\ TypeOK
    BY DEF OInv, IInv
  <1>1. inst' = inst /\ faults' = faults
    BY DEF Reconcile, AddFinalizer, Exists, ReconcileDelete, CacheSync
  <1>2. CASE AddFinalizer(w, m)
    <2>1. /\ wk[w].pc = "idle" /\ wk' = wk /\ cache[w][m].life = "live"
          /\ Commit(m, [cache[w][m] EXCEPT !.fin = @ \cup {"nico"}])
          /\ cache[w][m] = obj[m] /\ obj[m] \in MachineType
      BY <1>0, <1>2 DEF AddFinalizer, Reads, IInv, CurrentOK, TypeOK
    <2>2. /\ [cache[w][m] EXCEPT !.fin = @ \cup {"nico"}].life = obj[m].life
          /\ [cache[w][m] EXCEPT !.fin = @ \cup {"nico"}].marked = obj[m].marked
      BY <2>1 DEF MachineType
    <2>3. Keeps /\ UnmarkedYet'
      BY <1>0, <1>1, <2>1, <2>2, WriteKeeps
    <2>4. Late' = {}
      BY <2>1, NotLate
    <2>5. Orphans' \subseteq Orphans
      BY <1>0, <1>1, <2>1, NoneOrphaned DEF OneManager, TypeOK
    <2> QED
      BY <2>3, <2>4, <2>5 DEF Settles, Accounted
  <1>3. CASE Exists(w, m) \/ ReconcileDelete(w, m)
    <2>1. /\ wk[w].pc = "idle" /\ obj' = obj /\ <<w, m>> \in synced
          /\ base' = base \cup {w}
      BY <1>3 DEF Exists, ReconcileDelete, Reads, Start
    <2>2. Keeps /\ UnmarkedYet'
      BY <1>0, <1>1, <2>1, NoWriteKeeps
    <2>3. Late' = {}
      BY <2>1, NotLate
    <2>4. Orphans' \subseteq Orphans
      BY <1>0, <1>1, <2>1, NoneOrphaned DEF OneManager, TypeOK
    <2> QED
      BY <2>2, <2>3, <2>4 DEF Settles, Accounted
  <1>4. CASE CacheSync(w, m)
    <2>1. obj' = obj /\ wk' = wk /\ base' = base
      BY <1>4 DEF CacheSync
    <2>2. Keeps /\ UnmarkedYet'
      BY <1>0, <1>1, <2>1, NoWriteKeeps
    <2>3. Late' = Late
      BY <2>1 DEF Late
    <2>4. Orphans' \subseteq Orphans
      BY <1>0, <1>1, <2>1, NoneOrphaned
    <2> QED
      BY <2>2, <2>3, <2>4 DEF Settles, Accounted
  <1> QED
    BY <1>2, <1>3, <1>4 DEF Reconcile

\* The steps of a reconcile after which it is not at the point of creating an
\* instance, or no later than it was, and which come neither from nor to the
\* update that records one.
LEMMA Unconcerned ==
    ASSUME OInv, OneManager, Next, NEW w \in Managers,
           Keeps, UnmarkedYet',
           \A i \in Instances : inst[i].state = "free" => inst'[i].state = "free",
           wk[w].pc # "createStatus" \/ w \notin base,
           \/ wk'[w].pc \notin {"create", "createCall"}
           \/ wk[w].pc \in {"create", "createCall"} /\ base' = base
    PROVE  Settles
  <1>0. IInv /\ OwnersOK /\ UnmarkedYet /\ TypeOK
    BY DEF OInv, IInv
  <1>1. Orphans' \subseteq Orphans
    BY <1>0, NoneOrphaned DEF OneManager, TypeOK
  <1>2. Late' = {} \/ Late # {}
    <2>1. CASE wk'[w].pc \notin {"create", "createCall"} \/ w \in base'
      BY <2>1, NotLate
    <2>2. CASE wk[w].pc \in {"create", "createCall"} /\ base' = base /\ w \notin base'
      BY <2>2 DEF Late
    <2> QED
      BY <2>1, <2>2
  <1> QED
    BY <1>1, <1>2 DEF Settles, Accounted

LEMMA QuietSettles ==
    ASSUME OInv, OneManager, Next, NEW w \in Managers,
           \/ CreateInvalid(w) \/ PreFlight(w) \/ CreateRefused(w)
           \/ UpdateGetInstance(w) \/ UpdateHealthFromReports(w)
           \/ ClearReport(w) \/ ReportMHC(w) \/ Conflict(w)
    PROVE  Settles
  <1> USE DEF machineVars, nicoVars
  <1>0. IInv /\ OwnersOK /\ UnmarkedYet /\ TypeOK /\ wk[w] \in WorkType
    BY DEF OInv, IInv, TypeOK
  <1>1. obj' = obj /\ inst' = inst /\ faults' = faults
    BY DEF CreateInvalid, PreFlight, CreateRefused, UpdateGetInstance,
       UpdateHealthFromReports, ClearReport, ReportMHC, Conflict
  <1>2. Keeps /\ UnmarkedYet'
    BY <1>0, <1>1, NoWriteKeeps
  <1>3. wk[w].pc # "createStatus" \/ w \notin base
    BY DEF CreateInvalid, PreFlight, CreateRefused, UpdateGetInstance,
       UpdateHealthFromReports, ClearReport, ReportMHC, Conflict
  <1>4. CASE PreFlight(w)
    <2>1. wk[w].pc = "create" /\ base' = base
      BY <1>4 DEF PreFlight
    <2> QED
      BY <1>1, <1>2, <1>3, <2>1, Unconcerned
  <1>5. CASE ~PreFlight(w)
    <2>1. wk'[w].pc \notin {"create", "createCall"}
      <3>1. CASE CreateInvalid(w) \/ CreateRefused(w) \/ ReportMHC(w) \/ Conflict(w)
        BY <1>0, <3>1 DEF TypeOK, CreateInvalid, CreateRefused, ReportMHC, Conflict,
           Return, Goto, Idle, WorkType
      <3>2. CASE UpdateGetInstance(w)
        <4>1. CASE UpdateFails(wk[w].o.iid)
          BY <1>0, <3>2, <4>1 DEF TypeOK, UpdateGetInstance, Return, Idle
        <4>2. CASE ~UpdateFails(wk[w].o.iid)
          <5> DEFINE i == wk[w].o.iid
                     pc == IF LabelAfter(wk[w].o, inst[i].host) = wk[w].o.lab
                           THEN AfterLabels(inst[i].host) ELSE "labels"
          <5>1. wk' = [wk EXCEPT ![w].st = inst[i].state, ![w].h = inst[i].host,
                                 ![w].hl = wk[w].o.healthy, ![w].pc = pc]
            BY <3>2, <4>2 DEF UpdateGetInstance
          <5>2. pc \in {"status", "health", "labels"}
            BY DEF AfterLabels
          <5> HIDE DEF pc
          <5>3. wk'[w].pc = pc
            BY <1>0, <5>1 DEF TypeOK, WorkType
          <5> QED
            BY <5>2, <5>3
        <4> QED
          BY <4>1, <4>2
      <3>3. CASE UpdateHealthFromReports(w)
        BY <1>0, <3>3 DEF TypeOK, UpdateHealthFromReports, HealthFound, AfterHealth, WorkType
      <3>4. CASE ClearReport(w)
        BY <1>0, <3>4 DEF TypeOK, ClearReport, Goto, WorkType
      <3> QED
        BY <1>5, <3>1, <3>2, <3>3, <3>4
    <2> QED
      BY <1>1, <1>2, <1>3, <2>1, Unconcerned
  <1> QED
    BY <1>4, <1>5

LEMMA InstanceCallSettles ==
    ASSUME OInv, OneManager, Next, NEW w \in Managers, DeployDpu(w) \/ DeleteInstance(w)
    PROVE  Settles
  <1> USE DEF machineVars
  <1>0. IInv /\ UnmarkedYet /\ TypeOK /\ wk[w] \in WorkType
    BY DEF OInv, IInv, TypeOK
  <1>1. /\ obj' = obj /\ faults' = faults
        /\ wk[w].pc \in {"dpu", "delete"} /\ wk'[w].pc \in {"idle", "unfinalize"}
    BY <1>0 DEF DeployDpu, DeleteInstance, Return, Goto, Idle, TypeOK, WorkType
  <1>2. ASSUME NEW i \in Instances, inst[i].state = "free"
        PROVE  inst'[i].state = "free"
    <2>0. inst[i] \in InstanceType
      BY <1>0 DEF TypeOK
    <2>1. CASE DeployDpu(w)
      <3>1. inst'[i] = inst[i] \/ inst'[i] = [inst[i] EXCEPT !.dpu = TRUE]
        BY <1>0, <2>1 DEF DeployDpu, TypeOK
      <3> QED
        BY <1>2, <2>0, <3>1 DEF InstanceType
    <2>2. CASE DeleteInstance(w)
      <3>1. inst[wk[w].o.iid].state # "free"
        BY <1>0, <2>2, Knows DEF DeleteInstance, StepOK, VersionOK
      <3> QED
        BY <1>0, <1>2, <2>2, <3>1 DEF DeleteInstance, TypeOK
    <2> QED
      BY <2>1, <2>2
  <1>3. Keeps /\ UnmarkedYet'
    BY <1>0, <1>1, NoWriteKeeps
  <1> QED
    BY <1>1, <1>2, <1>3, Unconcerned

\* The writes of a reconcile other than the one that records the instance.
LEMMA WritingSettles ==
    ASSUME OInv, OneManager, Next, NEW w \in Managers,
           \/ PersistBlocked(w) \/ CreateSetProviderID(w)
           \/ UpdateLabels(w) \/ UpdateSetStatus(w) \/ RemoveFinalizer(w)
    PROVE  Settles
  <1> DEFINE o == wk[w].o
             m == wk[w].m
  <1>0. /\ IInv /\ UnmarkedYet /\ TypeOK /\ w \in base /\ inst' = inst /\ faults' = faults
        /\ wk[w].pc \notin {"idle", "createStatus"}
    BY DEF OInv, IInv, PersistBlocked, CreateSetProviderID, UpdateLabels, UpdateSetStatus,
       RemoveFinalizer, WriteAndReturn, WriteAndContinue, nicoVars
  <1>1. /\ m \in Machines /\ o \in MachineType /\ o = obj[m]
        /\ o.life \in {"live", "deleting"} /\ wk[w] \in WorkType
    BY <1>0, Knows
  <1>2. wk'[w].pc \notin {"create", "createCall"}
    <2>1. CASE PersistBlocked(w) \/ UpdateSetStatus(w) \/ RemoveFinalizer(w)
      BY <1>0, <1>1, <2>1 DEF TypeOK, PersistBlocked, UpdateSetStatus, RemoveFinalizer,
         WriteAndReturn, Idle, WorkType
    <2>2. CASE CreateSetProviderID(w) \/ UpdateLabels(w)
      BY <1>0, <1>1, <2>2 DEF TypeOK, CreateSetProviderID, UpdateLabels, WriteAndReturn,
         WriteAndContinue, AfterLabels, Idle, WorkType
    <2> QED
      BY <2>1, <2>2
  <1>3. ASSUME NEW new, Commit(m, new),
               (new.life = o.life /\ new.marked = o.marked) \/ new.life = "gone"
        PROVE  Settles
    <2>1. Keeps /\ UnmarkedYet'
      BY <1>0, <1>1, <1>3, WriteKeeps
    <2> QED
      BY <1>0, <1>2, <2>1, Unconcerned
  <1>4. CASE PersistBlocked(w)
    <2>1. BlockedStatus(o).life = o.life /\ BlockedStatus(o).marked = o.marked
      BY <1>1 DEF BlockedStatus, MachineType
    <2> QED
      BY <1>3, <1>4, <2>1 DEF PersistBlocked, WriteAndReturn
  <1>5. CASE CreateSetProviderID(w)
    <2>1. /\ WithProviderID(o, wk[w].i).life = o.life
          /\ WithProviderID(o, wk[w].i).marked = o.marked
      BY <1>1 DEF WithProviderID, MachineType
    <2> QED
      BY <1>3, <1>5, <2>1 DEF CreateSetProviderID, WriteAndReturn, WriteAndContinue
  <1>6. CASE UpdateLabels(w)
    <2>1. /\ [o EXCEPT !.lab = LabelAfter(o, wk[w].h)].life = o.life
          /\ [o EXCEPT !.lab = LabelAfter(o, wk[w].h)].marked = o.marked
      BY <1>1 DEF MachineType
    <2> QED
      BY <1>3, <1>6, <2>1 DEF UpdateLabels, WriteAndContinue
  <1>7. CASE UpdateSetStatus(w)
    <2>1. PICK reason : WriteAndReturn(w, UpdatedStatus(o, wk[w].st, wk[w].h,
                                                         wk[w].hl, reason))
      BY <1>7 DEF UpdateSetStatus
    <2>2. /\ UpdatedStatus(o, wk[w].st, wk[w].h, wk[w].hl, reason).life = o.life
          /\ UpdatedStatus(o, wk[w].st, wk[w].h, wk[w].hl, reason).marked = o.marked
      BY <1>1 DEF UpdatedStatus, MachineType
    <2> QED
      BY <1>3, <2>1, <2>2 DEF WriteAndReturn
  <1>8. CASE RemoveFinalizer(w)
    <2>1. o.fin \subseteq OwnFinalizers
      BY <1>1 DEF MachineType, OwnFinalizers
    <2>2. Unfinalized(o).life = "gone"
      BY <2>1 DEF Unfinalized, Removed, NoMachine
    <2> QED
      BY <1>3, <1>8, <2>2 DEF RemoveFinalizer, WriteAndReturn
  <1> QED
    BY <1>4, <1>5, <1>6, <1>7, <1>8

\* An instance made by a reconcile that was overtaken is an orphan, and owed;
\* any other has a reconcile that can record it.
LEMMA CreateInstanceSettles ==
    ASSUME OInv, OneManager, Next, NEW w \in Managers, CreateInstance(w)
    PROVE  Settles
  <1>0. IInv /\ OwnersOK /\ UnmarkedYet /\ TypeOK
    BY DEF OInv, IInv
  <1>1. PICK i \in Instances :
          /\ inst' = [inst EXCEPT ![i] = RequestedInstance(wk[w].m)]
          /\ wk' = [wk EXCEPT ![w].pc = "createStatus", ![w].i = i,
                              ![w].h = Target[wk[w].m]]
    BY DEF CreateInstance
  <1>2. /\ wk[w].pc = "createCall" /\ base' = base /\ obj' = obj /\ faults' = faults
        /\ wk'[w].pc = "createStatus" /\ wk'[w].i = i
    BY <1>0, <1>1 DEF CreateInstance, machineVars, TypeOK, WorkType
  <1>3. Keeps /\ UnmarkedYet'
    BY <1>0, <1>2, NoWriteKeeps
  <1>4. Late' = {}
    BY <1>2, NotLate
  <1>5. Orphans' \subseteq Orphans \cup {i}
    <2> SUFFICES ASSUME NEW j \in Orphans', j \notin Orphans PROVE j = i
      OBVIOUS
    <2>1. ~\E v \in base : wk[v].pc = "createStatus"
      BY <1>0, <1>2 DEF OneManager, TypeOK
    <2>2. j \in Instances /\ inst'[j].state # "free" /\ inst[j].state = "free"
      BY <1>0, <2>1, NewOrphan
    <2> QED
      BY <1>0, <1>1, <2>2 DEF TypeOK
  <1>6. CASE w \in base
    <2>1. i \notin Orphans'
      BY <1>2, <1>6 DEF Orphans
    <2>2. Orphans' \subseteq Orphans
      BY <1>5, <2>1
    <2> QED
      BY <1>3, <1>4, <2>2 DEF Settles, Accounted
  <1>7. CASE w \notin base
    <2>1. Late # {}
      BY <1>2, <1>7 DEF Late
    <2> QED
      BY <1>3, <1>4, <1>5, <2>1 DEF Settles, Accounted
  <1> QED
    BY <1>6, <1>7

\* The instance recorded is not an orphan.
LEMMA CreateSetStatusSettles ==
    ASSUME OInv, OneManager, Next, NEW w \in Managers, CreateSetStatus(w)
    PROVE  Settles
  <1> DEFINE o == wk[w].o
             m == wk[w].m
             i == wk[w].i
             new == CreatedStatus(o, i, wk[w].h)
  <1>0. /\ IInv /\ OwnersOK /\ UnmarkedYet /\ TypeOK /\ w \in base
        /\ inst' = inst /\ faults' = faults
        /\ wk[w].pc = "createStatus" /\ Commit(m, new)
    BY DEF OInv, IInv, CreateSetStatus, WriteAndContinue, nicoVars
  <1>1. /\ m \in Machines /\ o \in MachineType /\ o = obj[m]
        /\ o.life \in {"live", "deleting"} /\ wk[w] \in WorkType /\ StepOK(wk[w], inst)
    BY <1>0, Knows
  <1>2. i \in Instances /\ inst[i].owner = m
    BY <1>0, <1>1 DEF StepOK, AfterCall
  <1>3. new.life = o.life /\ new.marked = o.marked /\ new.iid = i
    BY <1>1 DEF CreatedStatus, MachineType
  <1> HIDE DEF new
  <1>4. Keeps /\ UnmarkedYet'
    BY <1>0, <1>1, <1>3, WriteKeeps
  <1>5. wk'[w].pc = "createPid"
    BY <1>0, <1>1 DEF CreateSetStatus, WriteAndContinue, TypeOK, WorkType
  <1>6. Late' = {}
    BY <1>5, NotLate
  <1>7. Orphans' \subseteq Orphans \cup {i}
    BY <1>0, OneOrphaned
  <1>8. obj'[m].iid = i
    BY <1>0, <1>1, <1>3 DEF Commit, TypeOK
  <1>9. i \notin Orphans'
    BY <1>0, <1>2, <1>8 DEF Orphans
  <1> QED
    BY <1>4, <1>6, <1>7, <1>9 DEF Settles, Accounted

\* Whoever stops short of recording an instance leaves one orphan.
LEMMA StopsShort ==
    ASSUME OInv, OneManager, Next, NEW w \in Managers, Keeps, UnmarkedYet', Pays,
           \A i \in Instances : inst[i].state = "free" => inst'[i].state = "free",
           wk[w].pc = "createStatus", wk'[w].pc \in {"idle", "createStatus"}
    PROVE  Settles
  <1>0. IInv /\ OwnersOK
    BY DEF OInv
  <1>1. wk[w].i \in Instances
    BY <1>0, Knows DEF StepOK, AfterCall
  <1>2. Orphans' \subseteq Orphans \cup {wk[w].i}
    BY <1>0, OneOrphaned
  <1>3. Late' = {}
    BY NotLate
  <1> QED
    BY <1>1, <1>2, <1>3 DEF Settles, Accounted

LEMMA FailureSettles ==
    ASSUME OInv, OneManager, Next, NEW w \in Managers, Failure(w)
    PROVE  Settles
  <1> USE DEF machineVars, nicoVars
  <1>0. IInv /\ OwnersOK /\ UnmarkedYet /\ TypeOK
    BY DEF OInv, IInv
  <1>1. obj' = obj /\ inst' = inst /\ faults' = faults + 1
    BY DEF Failure, PreFlightBlind, CreateRejected, UpdateHealthFromJSONB,
       ClearReportFails, ReportMHCFails, CallFails, Crash, Spend
  <1>2. Keeps /\ UnmarkedYet' /\ Pays
    BY <1>0, <1>1, NoWriteKeeps DEF Pays
  <1>3. CASE wk[w].pc # "createStatus"
    <2>1. Orphans' \subseteq Orphans
      BY <1>0, <1>1, <1>3, NoneOrphaned DEF OneManager, TypeOK
    <2> QED
      BY <1>2, <2>1 DEF Settles, Accounted
  <1>4. CASE wk[w].pc = "createStatus"
    <2>1. CallFails(w) \/ Crash(w)
      BY <1>4 DEF Failure, PreFlightBlind, CreateRejected, UpdateHealthFromJSONB,
         ClearReportFails, ReportMHCFails
    <2>2. wk'[w].pc = "idle"
      BY <1>0, <2>1 DEF CallFails, Crash, Return, Idle, TypeOK
    <2> QED
      BY <1>1, <1>2, <1>4, <2>2, StopsShort
  <1> QED
    BY <1>3, <1>4

\* A foreign write that counts pays for the reconcile it overtakes.
LEMMA ForeignSettles ==
    ASSUME OInv, OneManager, Next, NEW m \in Machines, NEW new, ForeignWrite(m, new),
           inst' = inst, Keeps, UnmarkedYet', Pays
    PROVE  Settles
  <1>0. IInv /\ OwnersOK /\ TypeOK /\ wk' = wk /\ base' = base \ WorkersOn(m)
    BY DEF OInv, IInv, ForeignWrite
  <1>1. CASE \E w \in Managers : wk[w].pc = "createStatus"
    BY <1>0, <1>1, StopsShort
  <1>2. CASE ~\E w \in Managers : wk[w].pc = "createStatus"
    <2>1. Orphans' \subseteq Orphans
      BY <1>0, <1>2, NoneOrphaned DEF TypeOK
    <2> QED
      BY <2>1 DEF Settles, Accounted
  <1> QED
    BY <1>1, <1>2

\* Nobody works on a Machine yet to come.
LEMMA NobodyWorks ==
    ASSUME IInv, NEW m \in Machines, obj[m].life = "absent"
    PROVE  WorkersOn(m) = {}
  <1> SUFFICES ASSUME NEW w \in Managers, wk[w].m = m PROVE FALSE
    BY DEF WorkersOn
  <1>1. wk[w].pc # "idle"
    BY NoneAssumption DEF IInv, WorkOK
  <1>2. wk[w].o.life \in {"live", "deleting"} /\ CopyOK(wk[w].o, m, obj[m], inst)
    BY <1>1 DEF IInv, WorkOK, VersionsOK
  <1> QED
    BY <1>2 DEF CopyOK

LEMMA UserSettles ==
    ASSUME OInv, OneManager, Next, NEW m \in Machines, User(m)
    PROVE  Settles
  <1> USE DEF nicoVars
  <1>0. /\ IInv /\ OwnersOK /\ UnmarkedYet /\ TypeOK
        /\ obj[m] \in MachineType /\ faults \in Nat
    BY BoundAssumption DEF OInv, IInv, TypeOK
  <1>1. CASE CreateMachine(m) \/ AdoptMachine(m)
    <2>1. PICK new : new.life = "live" /\ ForeignWrite(m, new)
      BY <1>1 DEF CreateMachine, AdoptMachine, NoMachine
    <2>2. obj[m].life = "absent" /\ faults' = faults /\ ~obj[m].marked
      BY <1>0, <1>1 DEF CreateMachine, AdoptMachine, UnmarkedYet
    <2>3. Keeps /\ UnmarkedYet'
      BY <1>0, <2>1, <2>2, WriteKeeps DEF ForeignWrite
    <2>4. wk' = wk /\ base' = base
      BY <1>0, <2>1, <2>2, NobodyWorks DEF ForeignWrite
    <2>5. Late' = Late
      BY <2>4 DEF Late
    <2>6. ASSUME NEW i \in Orphans', i \notin Orphans
          PROVE  FALSE
      <3>1. ~\E w \in base : wk[w].pc = "createStatus" /\ wk[w].i = i
        BY <2>4, <2>6 DEF Orphans
      <3>2. i \in Instances /\ inst'[i].state # "free" /\ inst[i].state = "free"
        BY <1>0, <2>6, <3>1, NewOrphan
      <3>3. AdoptMachine(m)
        BY <1>1, <3>2 DEF CreateMachine
      <3>4. PICK j \in Instances, h \in Hosts :
              /\ inst' = [inst EXCEPT ![j] = [Unborn EXCEPT
                              !.state = "Ready", !.owner = m, !.host = h]]
              /\ Commit(m, [NoMachine EXCEPT !.life = "live", !.fin = {"legacy"},
                                !.iid = j, !.pid = j, !.mid = h, !.state = "Ready"])
        BY <3>3 DEF AdoptMachine, ForeignWrite
      <3>5. i = j
        BY <1>0, <3>2, <3>4 DEF TypeOK
      <3>6. obj'[m].iid = j
        BY <1>0, <3>4 DEF Commit, NoMachine, TypeOK
      <3>7. inst'[j].owner = m
        BY <1>0, <3>4 DEF Unborn, TypeOK
      <3> QED
        BY <2>6, <3>5, <3>6, <3>7 DEF Orphans
    <2> QED
      BY <2>3, <2>5, <2>6 DEF Settles, Accounted
  <1>2. CASE DeleteMachine(m)
    <2> DEFINE new == IF obj[m].fin = {} THEN Removed ELSE [obj[m] EXCEPT !.life = "deleting"]
    <2>1. obj[m].life = "live" /\ ForeignWrite(m, new) /\ inst' = inst /\ faults' = faults
      BY <1>2 DEF DeleteMachine
    <2>2. new.life = "gone" \/ (new.life = "deleting" /\ new.marked = obj[m].marked)
      <3>1. Removed.life = "gone"
        BY DEF Removed, NoMachine
      <3>2. /\ [obj[m] EXCEPT !.life = "deleting"].life = "deleting"
            /\ [obj[m] EXCEPT !.life = "deleting"].marked = obj[m].marked
        BY <1>0 DEF MachineType
      <3> QED
        BY <3>1, <3>2, Zenon
    <2> HIDE DEF new
    <2>3. Keeps /\ UnmarkedYet'
      BY <1>0, <2>1, <2>2, WriteKeeps DEF ForeignWrite
    <2>4. obj'[m] = new
      BY <1>0, <2>1 DEF ForeignWrite, Commit, TypeOK
    <2>5. m \in Ending' /\ m \notin Ending
      BY <2>1, <2>2, <2>4 DEF Ending
    <2>6. Pays
      BY <2>5 DEF Pays
    <2> QED
      BY <2>1, <2>3, <2>6, ForeignSettles
  <1>3. CASE MarkUnhealthy(m)
    <2> DEFINE new == [obj[m] EXCEPT !.marked = TRUE]
    <2>1. /\ obj[m].life = "live" /\ ~obj[m].marked /\ m \in Remediable
          /\ ForeignWrite(m, new) /\ inst' = inst /\ faults' = faults
      BY <1>3 DEF MarkUnhealthy
    <2>2. new.life = "live" /\ new.marked
      BY <1>0, <2>1 DEF MachineType
    <2> HIDE DEF new
    <2>3. Keeps /\ UnmarkedYet'
      BY <1>0, <2>1, <2>2, WriteKeeps DEF ForeignWrite
    <2>4. obj'[m] = new
      BY <1>0, <2>1 DEF ForeignWrite, Commit, TypeOK
    <2>5. m \in Marked' /\ m \notin Marked
      BY <2>1, <2>2, <2>4 DEF Marked
    <2>6. Pays
      BY <2>5 DEF Pays
    <2> QED
      BY <2>1, <2>3, <2>6, ForeignSettles
  <1>4. CASE Touch(m)
    <2>1. /\ obj[m].life \in {"live", "deleting"}
          /\ ForeignWrite(m, obj[m]) /\ inst' = inst /\ faults' = faults + 1
      BY <1>4 DEF Touch, Spend
    <2>2. Keeps /\ UnmarkedYet'
      BY <1>0, <2>1, WriteKeeps DEF ForeignWrite
    <2>3. Pays
      BY <2>1 DEF Pays
    <2> QED
      BY <2>1, <2>2, <2>3, ForeignSettles
  <1> QED
    BY <1>1, <1>2, <1>3, <1>4 DEF User

\* What happens in NICo and to hosts orphans nothing.
LEMMA NicoSettles ==
    ASSUME OInv, OneManager, Next,
           \/ \E i \in Instances : Nico(i)
           \/ \E h \in Hosts : HostFault(h) \/ HostRepaired(h)
    PROVE  Settles
  <1>0. /\ IInv /\ OwnersOK /\ UnmarkedYet /\ TypeOK
    BY DEF OInv, IInv
  <1>1. /\ obj' = obj /\ wk' = wk /\ base' = base
        /\ faults' \in {faults, faults + 1}
    BY DEF Nico, Allocate, BecomeReady, ProvisioningFails, Terminated, RemovedOutOfBand,
       OnlyInstance, Spend, HostFault, HostRepaired
  <1>2. ASSUME NEW j \in Instances, inst[j].state = "free"
        PROVE  inst'[j].state = "free"
    <2>1. CASE \E h \in Hosts : HostFault(h) \/ HostRepaired(h)
      BY <1>2, <2>1 DEF HostFault, HostRepaired
    <2>2. CASE \E i \in Instances : Nico(i)
      <3>1. PICK i \in Instances : Nico(i)
        BY <2>2
      <3>2. inst[i].state # "free" /\ \E new : inst' = [inst EXCEPT ![i] = new]
        BY <3>1 DEF Nico, Allocate, BecomeReady, ProvisioningFails, Terminated,
           RemovedOutOfBand, OnlyInstance, Alive
      <3> QED
        BY <1>0, <1>2, <3>2 DEF TypeOK
    <2> QED
      BY <2>1, <2>2
  <1>3. Keeps /\ UnmarkedYet'
    BY <1>0, <1>1, NoWriteKeeps
  <1>4. Late' = Late
    BY <1>1 DEF Late
  <1>5. Orphans' \subseteq Orphans
    BY <1>0, <1>1, <1>2, NoneOrphaned
  <1> QED
    BY <1>3, <1>4, <1>5 DEF Settles, Accounted

----------------------------------------------------------------------------
LEMMA InitBalance ==
    ASSUME IsFiniteSet(Machines), Init
    PROVE  OInv
  <1>0. IInv
    BY InitInvariant
  <1>1. OwnersOK
    BY DEF Init, OwnersOK, Unborn
  <1>2. \A m \in Machines : obj[m].life = "absent" /\ ~obj[m].marked
    BY DEF Init, NoMachine
  <1>3. UnmarkedYet /\ Ending = {} /\ Marked = {}
    BY <1>2, SpecAssumption DEF UnmarkedYet, Ending, Marked
  <1>4. Orphans = {} /\ Late = {} /\ faults = 0
    BY DEF Init, Orphans, Alive, Unborn, Late, Idle
  <1> QED
    BY <1>0, <1>1, <1>3, <1>4, FS_EmptySet DEF OInv, Owed, Paid

LEMMA NextBalance ==
    ASSUME IsFiniteSet(Machines), OneManager, ~StaleReads, OInv, [Next]_vars
    PROVE  OInv'
  <1>0. IInv'
    BY NextInvariant DEF OInv
  <1>1. CASE UNCHANGED vars
    <2>1. Orphans' = Orphans /\ Late' = Late /\ Ending' = Ending /\ Marked' = Marked
          /\ faults' = faults
      BY <1>1 DEF vars, Orphans, Alive, Late, Ending, Marked
    <2>2. Owed' = Owed /\ Paid' = Paid
      BY <2>1 DEF Owed, Paid
    <2> QED
      BY <1>0, <1>1, <2>1, <2>2 DEF OInv, OwnersOK, UnmarkedYet, vars
  <1>2. CASE Next
    <2>1. Settles
      <3>1. ASSUME NEW w \in Managers, Step(w) PROVE Settles
        BY <1>2, <3>1, QuietSettles, InstanceCallSettles, WritingSettles,
           CreateInstanceSettles, CreateSetStatusSettles DEF Step
      <3> QED
        BY <1>2, <3>1, ReconcileSettles, FailureSettles, UserSettles, NicoSettles DEF Next
    <2>2. OwnersOK'
      BY <1>2, NextMaps, OwnersStay DEF OInv, Maps
    <2> QED
      BY <1>0, <2>1, <2>2, Balance DEF OInv, Settles
  <1> QED
    BY <1>1, <1>2

\* With one manager that reads its own writes, the running instances nobody
\* records are never more than the failures, deletions and remediations that
\* came between CreateInstance and the status update, for any number of
\* instances and Machines (actuator.go, Create).
THEOREM OrphansBounded ==
    ASSUME IsFiniteSet(Machines), OneManager, ~StaleReads
    PROVE  Spec => []OrphansPaidFor
  <1>1. Init => OInv
    BY InitBalance
  <1>2. OInv /\ [Next]_vars => OInv'
    BY NextBalance
  <1>3. OInv => OrphansPaidFor
    <2> SUFFICES ASSUME OInv PROVE OrphansPaidFor
      OBVIOUS
    <2>1. IsFiniteSet(Orphans) /\ Cardinality(Orphans) + Owed <= Paid
      BY DEF OInv
    <2>2. Ending \in SUBSET Machines /\ Marked \in SUBSET Machines
      BY SpecAssumption DEF Ending, Marked
    <2>3. Cardinality(Orphans) \in Nat /\ Cardinality(Ending) \in Nat
          /\ Cardinality(Marked) \in Nat /\ faults \in Nat
      BY <2>1, <2>2, FS_Subset, FS_CardinalityType, BoundAssumption DEF OInv, IInv, TypeOK
    <2>4. Cardinality(Orphans) <= faults + Cardinality(Ending) + Cardinality(Marked)
      BY <2>1, <2>3 DEF Owed, Paid
    <2> QED
      BY <2>4 DEF OrphansPaidFor, Ending, Marked
  <1> QED
    BY <1>1, <1>2, <1>3, PTL DEF Spec

============================================================================
