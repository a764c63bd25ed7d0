---------------------- MODULE MachineControllerProofs ----------------------
(***************************************************************************)
(* Proofs about MachineController for every value of its constants: the    *)
(* type invariant, ProviderIdSound, RecordedInstanceNotForgotten and       *)
(* LiveMachineKeepsInstance.                                               *)
(***************************************************************************)
EXTENDS MachineController, TLAPS

\* A reconcile under way is about a Machine, and saw it present.
WorkOK ==
    \A w \in Managers :
        /\ wk[w].pc = "idle" <=> wk[w].m = None
        /\ wk[w].pc # "idle" => wk[w].o.life \in {"live", "deleting"}

\* What "current version" means: the copy is the object.
CurrentOK ==
    /\ \A w \in base : wk[w].pc # "idle" /\ wk[w].o = obj[wk[w].m]
    /\ \A w \in Managers, m \in Machines :
        <<w, m>> \in synced => cache[w][m] = obj[m]

\* What every version o of the object of m satisfies, and goes on satisfying
\* although the instances S change.
VersionOK(o, m, S) ==
    /\ o.iid # None => /\ S[o.iid].owner = m
                       /\ S[o.iid].state # "free"
                       /\ o.fin # {}
                       /\ o.life \in {"live", "deleting"}
    /\ o.pid # None => /\ S[o.pid].owner = m
                       /\ S[o.pid].state # "free"
                       /\ o.pid = o.iid \/ S[o.pid].state = "Gone"

\* Once a version o shows the deletion, the object, now cur, can only
\* disappear, and that after its instance has been released.
DeletionSeen(o, cur, S) ==
    o.life = "deleting" =>
        \/ cur.life = "deleting" /\ cur.iid = o.iid
        \/ /\ cur.life = "gone"
           /\ o.iid = None \/ S[o.iid].state \in {"Terminating", "Gone"}

\* Besides, a Machine that was once seen does not become one yet to come.
CopyOK(o, m, cur, S) ==
    /\ VersionOK(o, m, S)
    /\ DeletionSeen(o, cur, S)
    /\ o.life # "absent" => cur.life # "absent"

VersionsOK ==
    /\ \A m \in Machines : VersionOK(obj[m], m, inst)
    /\ \A w \in Managers, m \in Machines : CopyOK(cache[w][m], m, obj[m], inst)
    /\ \A w \in Managers : wk[w].pc # "idle" =>
        CopyOK(wk[w].o, wk[w].m, obj[wk[w].m], inst)

BeforeCreate == {"create", "block", "createCall", "createStatus"}
AfterCall    == {"createStatus", "createPid", "dpu"}
InUpdate     == {"update", "labels", "health", "clear", "status"}
InDelete     == {"report", "delete", "unfinalize"}

\* What each step of a reconcile k knows from the steps before it.
StepOK(k, S) ==
    /\ k.pc \in BeforeCreate => k.o.iid = None \/ S[k.o.iid].state = "Gone"
    /\ k.pc \in BeforeCreate \cup {"createPid", "dpu"} \cup InUpdate =>
        k.o.life = "live" /\ k.o.fin # {}
    /\ k.pc \in AfterCall => /\ k.i \in Instances
                             /\ S[k.i].owner = k.m
                             /\ S[k.i].state # "free"
    /\ k.pc \in {"createPid", "dpu"} => k.o.iid = k.i
    /\ k.pc \in InUpdate => k.o.iid # None
    /\ k.pc \in InDelete => k.o.life = "deleting"
    /\ k.pc \in {"report", "delete"} => k.o.iid # None
    /\ k.pc = "report" => k.o.mid # None
    /\ k.pc = "unfinalize" =>
        k.o.iid = None \/ S[k.o.iid].state \in {"Terminating", "Gone"}

StepsOK == \A w \in Managers : StepOK(wk[w], inst)

IInv == TypeOK /\ WorkOK /\ CurrentOK /\ VersionsOK /\ StepsOK

----------------------------------------------------------------------------
(* How instances, versions and reconciles evolve.                          *)

\* What no step undoes: ownership, birth, release and end of an instance.
Evolves(S, T) ==
    \A i \in Instances : S[i].state # "free" =>
        /\ T[i].owner = S[i].owner
        /\ T[i].state # "free"
        /\ S[i].state = "Gone" => T[i].state = "Gone"
        /\ S[i].state = "Terminating" => T[i].state \in {"Terminating", "Gone"}

\* A Machine is replaced only as DeletionSeen foresees.
Follows(old, new, S) ==
    /\ old.life # "gone"
    /\ new.life # "absent"
    /\ old.life = "deleting" =>
        \/ new.life = "deleting" /\ new.iid = old.iid
        \/ /\ new.life = "gone"
           /\ old.iid = None \/ S[old.iid].state \in {"Terminating", "Gone"}

\* A version stays sound while the instances evolve, and so does what it
\* tells of its object when that is replaced.
LEMMA CopyStays ==
    ASSUME NEW S, NEW T, Evolves(S, T),
           NEW o \in MachineType, NEW m \in Machines, NEW cur, NEW new,
           CopyOK(o, m, cur, S),
           new = cur \/ Follows(cur, new, S)
    PROVE  CopyOK(o, m, new, T)
  BY DEF Evolves, CopyOK, VersionOK, DeletionSeen, Follows, MachineType, Ids

LEMMA VersionStays ==
    ASSUME NEW S, NEW T, Evolves(S, T),
           NEW o \in MachineType, NEW m \in Machines, VersionOK(o, m, S)
    PROVE  VersionOK(o, m, T)
  BY DEF Evolves, VersionOK, MachineType, Ids

\* The object is a sound copy of itself.
LEMMA OwnCopy ==
    ASSUME NEW S, NEW o, NEW m, VersionOK(o, m, S)
    PROVE  CopyOK(o, m, o, S)
  BY DEF CopyOK, DeletionSeen

\* A reconcile that does not move goes on knowing what it knew.
LEMMA StepStays ==
    ASSUME NEW S, NEW T, Evolves(S, T), NEW k \in WorkType, StepOK(k, S)
    PROVE  StepOK(k, T)
  <1>1. k.o.iid \in Ids /\ k.i \in Ids
    BY DEF WorkType, MachineType
  <1>2. k.o.iid # None /\ k.pc \in BeforeCreate => T[k.o.iid].state = "Gone"
    BY <1>1 DEF StepOK, Evolves, Ids
  <1>3. k.pc = "unfinalize" =>
          k.o.iid = None \/ T[k.o.iid].state \in {"Terminating", "Gone"}
    BY <1>1 DEF StepOK, Evolves, Ids
  <1>4. k.pc \in AfterCall => T[k.i].owner = k.m /\ T[k.i].state # "free"
    BY <1>1 DEF StepOK, Evolves, Ids
  <1> QED
    BY <1>2, <1>3, <1>4 DEF StepOK

\* The invariant on versions follows from what happens to each of them: an
\* object stays or is replaced soundly, and every copy was a copy or is the
\* object itself.
LEMMA VersionsStay ==
    ASSUME IInv, Evolves(inst, inst'),
           \A m \in Machines :
              \/ obj'[m] = obj[m]
              \/ Follows(obj[m], obj'[m], inst) /\ VersionOK(obj'[m], m, inst'),
           \A w \in Managers, m \in Machines :
              cache'[w][m] = cache[w][m] \/ cache'[w][m] = obj'[m],
           \A w \in Managers : wk'[w].pc # "idle" =>
              \/ wk[w].pc # "idle" /\ wk'[w].m = wk[w].m /\ wk'[w].o = wk[w].o
              \/ wk'[w].m \in Machines /\ wk'[w].o = obj'[wk'[w].m]
              \/ wk'[w].m \in Machines /\ wk'[w].o = cache[w][wk'[w].m]
    PROVE  VersionsOK'
  <1>1. ASSUME NEW m \in Machines
        PROVE  VersionOK(obj'[m], m, inst')
    <2>1. VersionOK(obj[m], m, inst) /\ obj[m] \in MachineType
      BY DEF IInv, TypeOK, VersionsOK
    <2> QED
      BY <2>1, VersionStays
  <1>2. ASSUME NEW w \in Managers, NEW m \in Machines
        PROVE  CopyOK(cache[w][m], m, obj'[m], inst')
    <2>1. CopyOK(cache[w][m], m, obj[m], inst) /\ cache[w][m] \in MachineType
      BY DEF IInv, TypeOK, VersionsOK
    <2> QED
      BY <2>1, CopyStays
  <1>3. ASSUME NEW w \in Managers, NEW m \in Machines
        PROVE  CopyOK(cache'[w][m], m, obj'[m], inst')
    BY <1>1, <1>2, OwnCopy
  <1>4. ASSUME NEW w \in Managers, wk'[w].pc # "idle"
        PROVE  CopyOK(wk'[w].o, wk'[w].m, obj'[wk'[w].m], inst')
    <2>1. CASE wk[w].pc # "idle" /\ wk'[w].m = wk[w].m /\ wk'[w].o = wk[w].o
      <3>1. /\ CopyOK(wk[w].o, wk[w].m, obj[wk[w].m], inst)
            /\ wk[w].o \in MachineType /\ wk[w].m \in Machines
        BY <2>1 DEF IInv, TypeOK, WorkOK, VersionsOK, WorkType
      <3> QED
        BY <2>1, <3>1, CopyStays
    <2>2. CASE wk'[w].m \in Machines /\ wk'[w].o = obj'[wk'[w].m]
      BY <1>1, <2>2, OwnCopy
    <2>3. CASE wk'[w].m \in Machines /\ wk'[w].o = cache[w][wk'[w].m]
      BY <1>2, <2>3
    <2> QED
      BY <1>4, <2>1, <2>2, <2>3
  <1> QED
    BY <1>1, <1>3, <1>4 DEF VersionsOK

----------------------------------------------------------------------------
(* One lemma for each way a step may use the reconciles and the objects.   *)

\* Reconciles that stand still keep their knowledge.
LEMMA StepsStay ==
    ASSUME IInv, Evolves(inst, inst'),
           \A v \in Managers :
              \/ wk'[v] = wk[v]
              \/ wk'[v] = Idle
              \/ StepOK(wk'[v], inst')
    PROVE  StepsOK'
  <1>1. StepOK(Idle, inst')
    BY DEF StepOK, Idle, BeforeCreate, AfterCall, InUpdate, InDelete
  <1>2. ASSUME NEW v \in Managers PROVE StepOK(wk[v], inst')
    BY StepStays DEF IInv, StepsOK, TypeOK
  <1> QED
    BY <1>1, <1>2 DEF StepsOK

\* A reconcile moves on to its next step; nothing is written to the objects.
LEMMA AdvanceOK ==
    ASSUME IInv, TypeOK', NEW w \in Managers, Evolves(inst, inst'),
           UNCHANGED <<obj, cache, synced, base>>,
           \A v \in Managers \ {w} : wk'[v] = wk[v],
           wk[w].pc # "idle", wk'[w].pc # "idle",
           wk'[w].m = wk[w].m, wk'[w].o = wk[w].o,
           StepOK(wk'[w], inst')
    PROVE  IInv'
  <1>0. WorkOK'
    BY DEF IInv, WorkOK
  <1>1. CurrentOK'
    <2>1. ASSUME NEW v \in base'
          PROVE  wk'[v].pc # "idle" /\ wk'[v].o = obj'[wk'[v].m]
      <3>1. v \in base /\ v \in Managers
        BY DEF IInv, TypeOK
      <3> QED
        BY <3>1 DEF IInv, CurrentOK
    <2>2. \A v \in Managers, m \in Machines :
            <<v, m>> \in synced' => cache'[v][m] = obj'[m]
      BY DEF IInv, CurrentOK
    <2> QED
      BY <2>1, <2>2 DEF CurrentOK
  <1>2. VersionsOK'
    BY VersionsStay
  <1>3. StepsOK'
    BY StepsStay
  <1> QED
    BY <1>0, <1>1, <1>2, <1>3 DEF IInv

\* A reconcile ends without a write; a crash also renews the cache.
LEMMA ReturnOK ==
    ASSUME IInv, TypeOK', NEW w \in Managers, Evolves(inst, inst'),
           Return(w), UNCHANGED obj,
           \A v \in Managers, m \in Machines :
              /\ cache'[v][m] = cache[v][m] \/ cache'[v][m] = obj'[m]
              /\ <<v, m>> \in synced' => cache'[v][m] = obj'[m]
    PROVE  IInv'
  <1>0. wk'[w] = Idle /\ \A v \in Managers \ {w} : wk'[v] = wk[v]
    BY DEF Return, IInv, TypeOK
  <1>1. WorkOK'
    BY <1>0 DEF IInv, WorkOK, Idle
  <1>2. CurrentOK'
    <2>1. ASSUME NEW v \in base'
          PROVE  wk'[v].pc # "idle" /\ wk'[v].o = obj'[wk'[v].m]
      <3>1. v \in base /\ v \in Managers /\ v # w
        BY DEF IInv, TypeOK, Return
      <3> QED
        BY <1>0, <3>1 DEF IInv, CurrentOK
    <2> QED
      BY <2>1 DEF CurrentOK
  <1>3. VersionsOK'
    <2>1. wk'[w].pc = "idle"
      BY <1>0 DEF Idle
    <2>2. \A v \in Managers, m \in Machines :
            cache'[v][m] = cache[v][m] \/ cache'[v][m] = obj'[m]
      OBVIOUS
    <2> QED
      BY <1>0, <2>1, <2>2, VersionsStay
  <1>4. StepsOK'
    BY <1>0, StepsStay
  <1> QED
    BY <1>1, <1>2, <1>3, <1>4 DEF IInv

\* A reconcile begins, from the copy in the cache.
LEMMA StartOK ==
    ASSUME IInv, TypeOK', NEW w \in Managers, NEW m \in Machines, NEW pc \in Steps,
           wk[w].pc = "idle", Start(w, m, pc),
           cache[w][m].life \in {"live", "deleting"},
           StepOK(wk'[w], inst),
           UNCHANGED <<obj, cache, synced, inst>>
    PROVE  IInv'
  <1>0. /\ wk'[w].pc = pc /\ wk'[w].m = m /\ wk'[w].o = cache[w][m]
        /\ \A v \in Managers \ {w} : wk'[v] = wk[v]
    BY DEF Start, IInv, TypeOK, Idle
  <1>a. pc # "idle" /\ m # None /\ Evolves(inst, inst')
    BY NoneAssumption DEF Steps, Evolves
  <1>1. WorkOK'
    BY <1>0, <1>a DEF IInv, WorkOK
  <1>2. CurrentOK'
    BY <1>0, <1>a DEF IInv, CurrentOK, TypeOK, Start
  <1>3. VersionsOK'
    BY <1>0, <1>a, VersionsStay
  <1>4. StepsOK'
    BY <1>0, <1>a, StepsStay
  <1> QED
    BY <1>1, <1>2, <1>3, <1>4 DEF IInv

\* What an accepted write leaves current.
LEMMA CommitCurrent ==
    ASSUME IInv, NEW m \in Machines, NEW new, Commit(m, new), UNCHANGED cache
    PROVE  /\ obj'[m] = new /\ \A n \in Machines \ {m} : obj'[n] = obj[n]
           /\ \A v \in Managers, n \in Machines :
                <<v, n>> \in synced' => cache'[v][n] = obj'[n]
  <1>1. obj'[m] = new /\ \A n \in Machines \ {m} : obj'[n] = obj[n]
    BY DEF Commit, IInv, TypeOK
  <1>2. ASSUME NEW v \in Managers, NEW n \in Machines, <<v, n>> \in synced'
        PROVE  cache'[v][n] = obj'[n]
    <2>1. <<v, n>> \in synced /\ n # m
      BY <1>2 DEF Commit
    <2> QED
      BY <1>1, <2>1 DEF IInv, CurrentOK
  <1> QED
    BY <1>1, <1>2

\* The last write of a reconcile.
LEMMA WriteReturnOK ==
    ASSUME IInv, TypeOK', NEW w \in Managers, NEW new,
           WriteAndReturn(w, new), wk[w].pc # "idle",
           UNCHANGED <<cache, inst>>,
           Follows(wk[w].o, new, inst), VersionOK(new, wk[w].m, inst)
    PROVE  IInv'
  <1> DEFINE m == wk[w].m
  <1>0. /\ wk'[w] = Idle /\ \A v \in Managers \ {w} : wk'[v] = wk[v]
        /\ m \in Machines /\ wk[w].o = obj[m]
    BY DEF WriteAndReturn, IInv, TypeOK, WorkOK, CurrentOK, WorkType
  <1>a. Evolves(inst, inst')
    BY DEF Evolves
  <1>b. /\ obj'[m] = new /\ \A n \in Machines \ {m} : obj'[n] = obj[n]
        /\ \A v \in Managers, n \in Machines :
             <<v, n>> \in synced' => cache'[v][n] = obj'[n]
    BY <1>0, CommitCurrent DEF WriteAndReturn
  <1>1. WorkOK'
    BY <1>0 DEF IInv, WorkOK, Idle
  <1>2. CurrentOK'
    <2>1. ASSUME NEW v \in base'
          PROVE  wk'[v].pc # "idle" /\ wk'[v].o = obj'[wk'[v].m]
      <3>1. v \in base /\ v \in Managers /\ wk[v].m # m
        BY <2>1 DEF WriteAndReturn, WorkersOn, IInv, TypeOK
      <3>2. wk'[v] = wk[v] /\ wk[v].m \in Machines
        BY <1>0, <3>1 DEF IInv, TypeOK, WorkOK, CurrentOK, WorkType
      <3> QED
        BY <1>b, <3>1, <3>2 DEF IInv, CurrentOK
    <2> QED
      BY <1>b, <2>1 DEF CurrentOK
  <1>3. VersionsOK'
    <2>1. Follows(obj[m], obj'[m], inst) /\ VersionOK(obj'[m], m, inst')
      BY <1>0, <1>b
    <2> QED
      BY <1>0, <1>a, <1>b, <2>1, VersionsStay DEF Idle
  <1>4. StepsOK'
    BY <1>0, <1>a, StepsStay
  <1> QED
    BY <1>1, <1>2, <1>3, <1>4 DEF IInv

\* A write after which the reconcile goes on with the new version.
LEMMA WriteContinueOK ==
    ASSUME IInv, TypeOK', NEW w \in Managers, NEW new, NEW pc \in Steps,
           WriteAndContinue(w, new, pc), wk[w].pc # "idle",
           UNCHANGED <<cache, inst>>,
           Follows(wk[w].o, new, inst), VersionOK(new, wk[w].m, inst),
           new.life \in {"live", "deleting"}, StepOK(wk'[w], inst)
    PROVE  IInv'
  <1> DEFINE m == wk[w].m
  <1>0. /\ wk'[w].m = m /\ wk'[w].o = new /\ wk'[w].pc = pc
        /\ \A v \in Managers \ {w} : wk'[v] = wk[v]
        /\ m \in Machines /\ wk[w].o = obj[m]
    BY DEF WriteAndContinue, IInv, TypeOK, WorkOK, CurrentOK, WorkType
  <1>a. Evolves(inst, inst') /\ pc # "idle"
    BY DEF Evolves, Steps
  <1>b. /\ obj'[m] = new /\ \A n \in Machines \ {m} : obj'[n] = obj[n]
        /\ \A v \in Managers, n \in Machines :
             <<v, n>> \in synced' => cache'[v][n] = obj'[n]
    BY <1>0, CommitCurrent DEF WriteAndContinue
  <1>1. WorkOK'
    BY <1>0, <1>a, NoneAssumption DEF IInv, WorkOK
  <1>2. CurrentOK'
    <2>1. ASSUME NEW v \in base', v # w
          PROVE  wk'[v].pc # "idle" /\ wk'[v].o = obj'[wk'[v].m]
      <3>1. v \in base /\ v \in Managers /\ wk[v].m # m
        BY <2>1 DEF WriteAndContinue, WorkersOn, IInv, TypeOK
      <3>2. wk'[v] = wk[v] /\ wk[v].m \in Machines
        BY <1>0, <2>1, <3>1 DEF IInv, TypeOK, WorkOK, CurrentOK, WorkType
      <3> QED
        BY <1>b, <3>1, <3>2 DEF IInv, CurrentOK
    <2> QED
      BY <1>0, <1>a, <1>b, <2>1 DEF CurrentOK
  <1>3. VersionsOK'
    <2>1. Follows(obj[m], obj'[m], inst) /\ VersionOK(obj'[m], m, inst')
      BY <1>0, <1>b
    <2> QED
      BY <1>0, <1>a, <1>b, <2>1, VersionsStay
  <1>4. StepsOK'
    BY <1>0, <1>a, StepsStay
  <1> QED
    BY <1>1, <1>2, <1>3, <1>4 DEF IInv

\* A write between reconciles, of the controller or of somebody else.
LEMMA OutsideWriteOK ==
    ASSUME IInv, TypeOK', NEW m \in Machines, NEW new, Commit(m, new),
           base' = base \ WorkersOn(m),
           UNCHANGED <<cache, wk>>, Evolves(inst, inst'),
           Follows(obj[m], new, inst), VersionOK(new, m, inst')
    PROVE  IInv'
  <1>b. /\ obj'[m] = new /\ \A n \in Machines \ {m} : obj'[n] = obj[n]
        /\ \A v \in Managers, n \in Machines :
             <<v, n>> \in synced' => cache'[v][n] = obj'[n]
    BY CommitCurrent
  <1>1. WorkOK'
    BY DEF IInv, WorkOK
  <1>2. CurrentOK'
    <2>1. ASSUME NEW v \in base'
          PROVE  wk'[v].pc # "idle" /\ wk'[v].o = obj'[wk'[v].m]
      <3>1. v \in base /\ v \in Managers /\ wk[v].m # m
        BY <2>1 DEF WorkersOn, IInv, TypeOK
      <3>2. wk[v].m \in Machines
        BY <3>1 DEF IInv, TypeOK, WorkOK, CurrentOK, WorkType
      <3> QED
        BY <1>b, <3>1, <3>2 DEF IInv, CurrentOK
    <2> QED
      BY <1>b, <2>1 DEF CurrentOK
  <1>3. VersionsOK'
    <2>1. \A n \in Machines :
            \/ obj'[n] = obj[n]
            \/ Follows(obj[n], obj'[n], inst) /\ VersionOK(obj'[n], n, inst')
      BY <1>b
    <2> QED
      BY <2>1, VersionsStay
  <1>4. StepsOK'
    BY StepsStay
  <1> QED
    BY <1>1, <1>2, <1>3, <1>4 DEF IInv

\* NICo moves; the cluster does not see it.
LEMMA InstancesOK ==
    ASSUME IInv, TypeOK', Evolves(inst, inst'),
           UNCHANGED <<obj, cache, synced, wk, base>>
    PROVE  IInv'
  <1>1. WorkOK' /\ CurrentOK'
    BY DEF IInv, WorkOK, CurrentOK
  <1>2. VersionsOK' /\ StepsOK'
    BY VersionsStay, StepsStay
  <1> QED
    BY <1>1, <1>2 DEF IInv

----------------------------------------------------------------------------
(* Type correctness.                                                       *)

LEMMA ConstantTypes ==
    /\ NoMachine \in MachineType
    /\ Removed \in MachineType
    /\ Unborn \in InstanceType
    /\ Idle \in WorkType
  <1>0. 0 \in Attempts
    BY BoundAssumption DEF Attempts
  <1>1. NoMachine \in MachineType /\ Removed \in MachineType
    BY <1>0 DEF NoMachine, Removed, MachineType, Ids, Names, Labels, States,
       Healths, Reasons
  <1>2. Unborn \in InstanceType
    BY DEF Unborn, InstanceType, Names
  <1>3. Idle \in WorkType
    BY <1>1 DEF Idle, WorkType, Ids, Names, States, Healths
  <1> QED
    BY <1>1, <1>2, <1>3

\* The versions the controller and others write are Machines.
LEMMA VersionTypes ==
    ASSUME NEW o \in MachineType
    PROVE  /\ BlockedStatus(o) \in MachineType
           /\ Unfinalized(o) \in MachineType
           /\ [o EXCEPT !.fin = @ \cup {"nico"}] \in MachineType
           /\ [o EXCEPT !.marked = TRUE] \in MachineType
           /\ [o EXCEPT !.life = "deleting"] \in MachineType
           /\ [NoMachine EXCEPT !.life = "live"] \in MachineType
  <1>1. NextAttempt(o) \in Attempts
    <2>1. o.attempts \in Attempts
      BY DEF MachineType
    <2> QED
      BY <2>1, BoundAssumption DEF NextAttempt, Attempts
  <1>2. BlockedStatus(o) \in MachineType
    BY <1>1 DEF BlockedStatus, MachineType, Healths, Reasons
  <1>3. Unfinalized(o) \in MachineType
    BY ConstantTypes DEF Unfinalized, OwnFinalizers, MachineType
  <1>4. /\ [o EXCEPT !.fin = @ \cup {"nico"}] \in MachineType
        /\ [o EXCEPT !.marked = TRUE] \in MachineType
        /\ [o EXCEPT !.life = "deleting"] \in MachineType
        /\ [NoMachine EXCEPT !.life = "live"] \in MachineType
    BY ConstantTypes DEF MachineType
  <1> QED
    BY <1>2, <1>3, <1>4

LEMMA UpdatedType ==
    ASSUME NEW o \in MachineType, NEW h \in Names, NEW st \in States,
           NEW hl \in Healths, NEW reason \in Reasons
    PROVE  /\ UpdatedStatus(o, st, h, hl, reason) \in MachineType
           /\ [o EXCEPT !.lab = LabelAfter(o, h)] \in MachineType
  <1>1. LabelAfter(o, h) \in Labels
    BY DEF LabelAfter, Labels, MachineType
  <1> QED
    BY <1>1 DEF UpdatedStatus, MachineType

LEMMA CreatedTypes ==
    ASSUME NEW o \in MachineType, NEW i \in Instances, NEW h \in Names
    PROVE  /\ CreatedStatus(o, i, h) \in MachineType
           /\ WithProviderID(o, i) \in MachineType
           /\ [NoMachine EXCEPT !.life = "live", !.fin = {"legacy"}, !.iid = i,
                  !.pid = i, !.mid = h, !.state = "Ready"] \in MachineType
  <1>1. 0 \in Attempts
    BY BoundAssumption DEF Attempts
  <1>2. CreatedStatus(o, i, h) \in MachineType
    BY <1>1 DEF CreatedStatus, MachineType, Ids, States, Healths
  <1>3. WithProviderID(o, i) \in MachineType
    BY DEF WithProviderID, MachineType, Ids
  <1>4. [NoMachine EXCEPT !.life = "live", !.fin = {"legacy"}, !.iid = i,
                  !.pid = i, !.mid = h, !.state = "Ready"] \in MachineType
    BY ConstantTypes DEF MachineType, Ids, States
  <1> QED
    BY <1>2, <1>3, <1>4

\* The fields of a reconcile, and of the one a manager is in.
LEMMA WorkFields ==
    ASSUME NEW k \in WorkType
    PROVE  /\ k.pc \in Steps \cup {"idle"} /\ k.m \in Machines \cup {None}
           /\ k.o \in MachineType /\ k.i \in Ids /\ k.st \in States
           /\ k.h \in Names /\ k.hl \in Healths
           /\ k.o.iid \in Ids /\ k.o.pid \in Ids
  BY DEF WorkType, MachineType

----------------------------------------------------------------------------
(* Every action keeps the invariant.                                       *)

\* What the invariant says of a manager that is in a reconcile.
LEMMA Knows ==
    ASSUME IInv, NEW w \in Managers, wk[w].pc # "idle"
    PROVE  /\ wk[w] \in WorkType /\ wk[w].m \in Machines /\ wk[w].o \in MachineType
           /\ wk[w].o.iid \in Ids /\ wk[w].o.pid \in Ids
           /\ wk[w].o.life \in {"live", "deleting"}
           /\ VersionOK(wk[w].o, wk[w].m, inst)
           /\ StepOK(wk[w], inst)
           /\ w \in base => wk[w].o = obj[wk[w].m]
  <1>1. wk[w] \in WorkType
    BY DEF IInv, TypeOK
  <1>2. wk[w].m \in Machines /\ wk[w].o.life \in {"live", "deleting"}
    BY <1>1, WorkFields DEF IInv, WorkOK
  <1> QED
    BY <1>1, <1>2, WorkFields DEF IInv, VersionsOK, CopyOK, StepsOK, CurrentOK

LEMMA BumpType ==
    ASSUME NEW gauge \in [Managers -> Int], NEW w \in Managers, NEW was, NEW is
    PROVE  /\ Bump(gauge, w, 1) \in [Managers -> Int]
           /\ Bump(gauge, w, -1) \in [Managers -> Int]
           /\ Bump(gauge, w, GaugeStep(was, is)) \in [Managers -> Int]
  <1>1. GaugeStep(was, is) \in Int
    BY DEF GaugeStep
  <1>2. ASSUME NEW d \in Int
        PROVE  Bump(gauge, w, d) \in [Managers -> Int]
    BY BoundAssumption DEF Bump, Saturate
  <1> QED
    BY <1>1, <1>2

LEMMA NothingHappens ==
    inst' = inst => Evolves(inst, inst')
  BY DEF Evolves

LEMMA ReconcileStep ==
    ASSUME IInv, NEW w \in Managers, NEW m \in Machines,
           Reconcile(w, m) \/ CacheSync(w, m)
    PROVE  IInv'
  <1> USE DEF machineVars, nicoVars, gauges
  <1>0. /\ TypeOK /\ cache[w][m] \in MachineType
        /\ VersionOK(cache[w][m], m, inst)
        /\ <<w, m>> \in synced => cache[w][m] = obj[m]
    BY DEF IInv, TypeOK, VersionsOK, CopyOK, CurrentOK
  <1>1. CASE AddFinalizer(w, m)
    <2> DEFINE new == [cache[w][m] EXCEPT !.fin = @ \cup {"nico"}]
    <2>1. new \in MachineType /\ cache[w][m] = obj[m]
      BY <1>0, <1>1, VersionTypes DEF AddFinalizer
    <2>2. TypeOK'
      BY <1>0, <1>1, <2>1 DEF AddFinalizer, Commit, TypeOK
    <2>3. Follows(obj[m], new, inst) /\ VersionOK(new, m, inst)
      BY <1>0, <1>1, <2>1 DEF AddFinalizer, Follows, VersionOK, MachineType
    <2> HIDE DEF new
    <2> QED
      BY <1>1, <2>2, <2>3, OutsideWriteOK, NothingHappens
      DEF AddFinalizer, new
  <1>2. CASE Exists(w, m)
    <2> DEFINE pc == IF ExistsAnswer(cache[w][m]) THEN "update" ELSE "create"
    <2>1. pc \in Steps /\ wk[w].pc = "idle" /\ Start(w, m, pc)
      BY <1>2 DEF Exists, Reads, Steps
    <2>2. wk'[w] = [Idle EXCEPT !.pc = pc, !.m = m, !.o = cache[w][m]]
      BY <1>0, <2>1 DEF Start, TypeOK
    <2>3. wk'[w] \in WorkType
      BY <1>0, <2>1, <2>2, ConstantTypes DEF WorkType
    <2>4. TypeOK'
      BY <1>0, <1>2, <2>1, <2>2, <2>3 DEF Exists, Start, TypeOK
    <2>5. wk'[w].pc = pc /\ wk'[w].o = cache[w][m]
      BY <2>2 DEF Idle
    <2>6. StepOK(wk'[w], inst)
      BY <1>0, <1>2, <2>5 DEF Exists, ExistsAnswer, NotFound, StepOK,
         BeforeCreate, AfterCall, InUpdate, InDelete
    <2> HIDE DEF pc
    <2> QED
      BY <1>2, <2>1, <2>4, <2>6, StartOK DEF Exists
  <1>3. CASE ReconcileDelete(w, m)
    <2> DEFINE pc == DeleteStep(cache[w][m])
    <2>1. pc \in Steps /\ wk[w].pc = "idle" /\ Start(w, m, pc)
      BY <1>3 DEF ReconcileDelete, Reads, DeleteStep, Steps
    <2>2. wk'[w] = [Idle EXCEPT !.pc = pc, !.m = m, !.o = cache[w][m]]
      BY <1>0, <2>1 DEF Start, TypeOK
    <2>3. wk'[w] \in WorkType
      BY <1>0, <2>1, <2>2, ConstantTypes DEF WorkType
    <2>4. TypeOK'
      BY <1>0, <1>3, <2>1, <2>2, <2>3 DEF ReconcileDelete, Start, TypeOK
    <2>5. wk'[w].pc = pc /\ wk'[w].o = cache[w][m]
      BY <2>2 DEF Idle
    <2>6. StepOK(wk'[w], inst)
      BY <1>3, <2>5 DEF ReconcileDelete, DeletionRequested, DeleteStep, StepOK,
         BeforeCreate, AfterCall, InUpdate, InDelete
    <2> HIDE DEF pc
    <2> QED
      BY <1>3, <2>1, <2>4, <2>6, StartOK DEF ReconcileDelete, DeletionRequested
  <1>4. CASE CacheSync(w, m)
    <2>1. TypeOK'
      BY <1>0, <1>4 DEF CacheSync, TypeOK
    <2>2. \A v \in Managers, n \in Machines :
            /\ cache'[v][n] = cache[v][n] \/ cache'[v][n] = obj'[n]
            /\ <<v, n>> \in synced' => cache'[v][n] = obj'[n]
      BY <1>0, <1>4 DEF CacheSync, TypeOK, IInv, CurrentOK
    <2>3. WorkOK' /\ CurrentOK'
      BY <1>4, <2>2 DEF CacheSync, IInv, WorkOK, CurrentOK
    <2>4. VersionsOK' /\ StepsOK'
      BY <1>4, <2>2, VersionsStay, StepsStay, NothingHappens DEF CacheSync
    <2> QED
      BY <2>1, <2>3, <2>4 DEF IInv
  <1> QED
    BY <1>1, <1>2, <1>3, <1>4 DEF Reconcile

\* Reconciles that end without having written.
LEMMA ReturningStep ==
    ASSUME IInv, NEW w \in Managers,
           \/ CreateInvalid(w) \/ CreateRefused(w) \/ CreateRejected(w)
           \/ Conflict(w) \/ CallFails(w) \/ Crash(w) \/ DeployDpu(w)
           \/ UpdateGetInstance(w) /\ UpdateFails(wk[w].o.iid)
    PROVE  IInv'
  <1> USE DEF machineVars, nicoVars, gauges
  <1>0. TypeOK /\ Return(w) /\ obj' = obj
    BY DEF IInv, CreateInvalid, CreateRefused, CreateRejected, Conflict,
       CallFails, Crash, DeployDpu, UpdateGetInstance
  <1>1. /\ wk' \in [Managers -> WorkType] /\ base' \subseteq Managers
        /\ obj' \in [Machines -> MachineType]
    BY <1>0, ConstantTypes DEF Return, TypeOK
  <1>2. CASE \/ CreateInvalid(w) \/ CreateRefused(w) \/ Conflict(w) \/ CallFails(w)
             \/ UpdateGetInstance(w) /\ UpdateFails(wk[w].o.iid)
    <2>1. /\ UNCHANGED <<cache, synced, parked, inst, fault, mhc, managed, unhealthy>>
          /\ faults' = faults \/ Spend
      BY <1>2 DEF CreateInvalid, CreateRefused, Conflict, CallFails,
         UpdateGetInstance
    <2>2. TypeOK'
      BY <1>0, <1>1, <2>1, BoundAssumption DEF Spend, TypeOK
    <2> QED
      BY <1>0, <2>1, <2>2, NothingHappens, ReturnOK DEF IInv, CurrentOK
  <1>3. CASE CreateRejected(w)
    <2>1. wk[w].m \in Machines
      BY <1>3, Knows DEF CreateRejected
    <2>2. TypeOK'
      BY <1>0, <1>1, <1>3, <2>1, BoundAssumption DEF CreateRejected, Spend, TypeOK
    <2> QED
      BY <1>0, <1>3, <2>2, NothingHappens, ReturnOK
      DEF CreateRejected, IInv, CurrentOK
  <1>4. CASE Crash(w)
    <2>1. TypeOK'
      BY <1>0, <1>1, <1>4, BoundAssumption DEF Crash, Spend, TypeOK
    <2>2. \A v \in Managers, m \in Machines :
            /\ cache'[v][m] = cache[v][m] \/ cache'[v][m] = obj'[m]
            /\ <<v, m>> \in synced' => cache'[v][m] = obj'[m]
      BY <1>0, <1>4 DEF Crash, TypeOK, IInv, CurrentOK
    <2> QED
      BY <1>0, <1>4, <2>1, <2>2, NothingHappens, ReturnOK DEF Crash
  <1>5. CASE DeployDpu(w)
    <2>1. wk[w].i \in Instances
      BY <1>5, Knows DEF DeployDpu, StepOK, AfterCall
    <2>a. \/ inst' = inst /\ managed' = managed
          \/ /\ inst' = [inst EXCEPT ![wk[w].i].dpu = TRUE]
             /\ managed' = Bump(managed, w, 1)
      BY <1>5 DEF DeployDpu
    <2>2. inst' \in [Instances -> InstanceType] /\ Evolves(inst, inst')
      <3>1. ASSUME inst' = [inst EXCEPT ![wk[w].i].dpu = TRUE]
            PROVE  inst' \in [Instances -> InstanceType] /\ Evolves(inst, inst')
        BY <1>0, <2>1, <3>1 DEF TypeOK, InstanceType, Evolves
      <3> QED
        BY <1>0, <2>a, <3>1, NothingHappens DEF TypeOK
    <2>3. managed' \in [Managers -> Int]
      <3>1. managed \in [Managers -> Int] /\ Bump(managed, w, 1) \in [Managers -> Int]
        BY <1>0, BumpType DEF TypeOK
      <3> QED
        BY <2>a, <3>1
    <2>4. TypeOK'
      BY <1>0, <1>1, <1>5, <2>2, <2>3 DEF DeployDpu, TypeOK
    <2> QED
      BY <1>0, <1>5, <2>2, <2>4, ReturnOK DEF DeployDpu, IInv, CurrentOK
  <1> QED
    BY <1>2, <1>3, <1>4, <1>5

\* The fields of a reconcile that moved.
LEMMA Moved ==
    ASSUME TypeOK, NEW w \in Managers, NEW k \in WorkType,
           wk' = [wk EXCEPT ![w] = k]
    PROVE  /\ wk' \in [Managers -> WorkType] /\ wk'[w] = k
           /\ \A v \in Managers \ {w} : wk'[v] = wk[v]
  BY DEF TypeOK

LEMMA GotoMoves ==
    ASSUME TypeOK, NEW w \in Managers, NEW pc \in Steps, Goto(w, pc)
    PROVE  /\ wk' \in [Managers -> WorkType]
           /\ \A v \in Managers \ {w} : wk'[v] = wk[v]
           /\ wk'[w].pc = pc /\ wk'[w].m = wk[w].m /\ wk'[w].o = wk[w].o
           /\ wk'[w].i = wk[w].i
  <1>1. wk' = [wk EXCEPT ![w] = [wk[w] EXCEPT !.pc = pc]]
    BY DEF Goto, TypeOK
  <1> DEFINE k == [wk[w] EXCEPT !.pc = pc]
  <1>2. wk[w] \in WorkType
    BY DEF TypeOK
  <1>3. /\ k \in WorkType /\ k.pc = pc /\ k.m = wk[w].m /\ k.o = wk[w].o
        /\ k.i = wk[w].i
    BY <1>2 DEF WorkType
  <1> HIDE DEF k
  <1> QED
    BY <1>1, <1>3, Moved DEF k

\* Reconciles that move on by a step that only calls NICo.
LEMMA CallingStep ==
    ASSUME IInv, NEW w \in Managers,
           \/ PreFlight(w) \/ PreFlightBlind(w) \/ ReportMHC(w)
           \/ ReportMHCFails(w) \/ ClearReport(w) \/ ClearReportFails(w)
           \/ DeleteInstance(w)
    PROVE  IInv'
  <1> USE DEF machineVars, nicoVars, gauges
  <1>0. /\ TypeOK /\ wk[w].pc # "idle"
        /\ UNCHANGED <<obj, cache, synced, base, parked, fault, unhealthy>>
        /\ faults' = faults \/ Spend
    BY DEF IInv, PreFlight, PreFlightBlind, ReportMHC, ReportMHCFails,
       ClearReport, ClearReportFails, DeleteInstance
  <1>a. faults' \in 0..MaxFaults
    BY <1>0, BoundAssumption DEF Spend, TypeOK
  <1>b. /\ wk[w].o.life \in {"live", "deleting"} /\ wk[w].o.iid \in Ids
        /\ StepOK(wk[w], inst) /\ wk[w].o \in MachineType
        /\ VersionOK(wk[w].o, wk[w].m, inst)
    BY <1>0, Knows
  <1>1. CASE PreFlight(w) \/ PreFlightBlind(w)
    <2>1. PICK pc \in {"block", "createCall"} : Goto(w, pc)
      BY <1>1 DEF PreFlight, PreFlightBlind
    <2>2. pc \in Steps /\ pc # "idle"
      BY DEF Steps
    <2>3. UNCHANGED <<inst, mhc, managed>> /\ wk[w].pc = "create"
      BY <1>1 DEF PreFlight, PreFlightBlind
    <2>4. TypeOK'
      BY <1>0, <1>a, <2>1, <2>2, <2>3, GotoMoves DEF TypeOK
    <2>5. StepOK(wk'[w], inst')
      BY <1>0, <1>b, <2>1, <2>2, <2>3, GotoMoves
      DEF StepOK, BeforeCreate, AfterCall, InUpdate, InDelete
    <2> QED
      BY <1>0, <2>1, <2>2, <2>3, <2>4, <2>5, GotoMoves, AdvanceOK, NothingHappens
  <1>2. CASE ReportMHC(w) \/ ReportMHCFails(w)
    <2>1. "delete" \in Steps /\ Goto(w, "delete") /\ wk[w].pc = "report"
      BY <1>2 DEF ReportMHC, ReportMHCFails, Steps
    <2>2. UNCHANGED <<inst, managed>> /\ mhc' \subseteq Hosts
      <3>1. wk[w].o.mid \in Hosts
        BY <1>b, <2>1 DEF StepOK, MachineType, Names
      <3> QED
        BY <1>0, <1>2, <3>1 DEF ReportMHC, ReportMHCFails, TypeOK
    <2>3. TypeOK'
      BY <1>0, <1>a, <2>1, <2>2, GotoMoves DEF TypeOK
    <2>4. StepOK(wk'[w], inst')
      BY <1>0, <1>b, <2>1, <2>2, GotoMoves
      DEF StepOK, BeforeCreate, AfterCall, InUpdate, InDelete
    <2> QED
      BY <1>0, <2>1, <2>2, <2>3, <2>4, GotoMoves, AdvanceOK, NothingHappens
  <1>3. CASE DeleteInstance(w)
    <2> DEFINE i == wk[w].o.iid
    <2>1. /\ "unfinalize" \in Steps /\ Goto(w, "unfinalize") /\ wk[w].pc = "delete"
          /\ mhc' = mhc
      BY <1>3 DEF DeleteInstance, Steps
    <2>2. i \in Instances /\ inst[i].state # "free"
      BY <1>b, <2>1 DEF StepOK, VersionOK, Ids
    <2>3. \/ inst' = inst /\ inst[i].state = "Gone"
          \/ /\ inst' = [inst EXCEPT ![i].state = "Terminating"]
             /\ inst[i].state # "Gone"
      BY <1>3 DEF DeleteInstance, NotFound
    <2>4. /\ inst' \in [Instances -> InstanceType] /\ Evolves(inst, inst')
          /\ inst'[i].state \in {"Terminating", "Gone"}
      <3>1. CASE inst' = inst /\ inst[i].state = "Gone"
        BY <1>0, <3>1, NothingHappens DEF TypeOK
      <3>2. CASE /\ inst' = [inst EXCEPT ![i].state = "Terminating"]
                 /\ inst[i].state # "Gone"
        <4> HIDE DEF i
        <4> QED
          BY <1>0, <2>2, <3>2 DEF TypeOK, InstanceType, States, Evolves
      <3> QED
        BY <2>3, <3>1, <3>2
    <2>5. managed' \in [Managers -> Int]
      BY <1>0, <1>3, BumpType DEF DeleteInstance, TypeOK
    <2>6. TypeOK'
      BY <1>0, <1>a, <2>1, <2>4, <2>5, GotoMoves DEF TypeOK
    <2>7. StepOK(wk'[w], inst')
      BY <1>0, <1>b, <2>1, <2>4, GotoMoves
      DEF StepOK, BeforeCreate, AfterCall, InUpdate, InDelete
    <2> QED
      BY <1>0, <2>1, <2>4, <2>6, <2>7, GotoMoves, AdvanceOK
  <1>4. CASE ClearReport(w) \/ ClearReportFails(w)
    <2>1. "status" \in Steps /\ Goto(w, "status") /\ wk[w].pc = "clear"
      BY <1>4 DEF ClearReport, ClearReportFails, Steps
    <2>2. UNCHANGED <<inst, managed>> /\ mhc' \subseteq Hosts
      BY <1>0, <1>4 DEF ClearReport, ClearReportFails, TypeOK
    <2>3. TypeOK'
      BY <1>0, <1>a, <2>1, <2>2, GotoMoves DEF TypeOK
    <2>4. StepOK(wk'[w], inst')
      BY <1>0, <1>b, <2>1, <2>2, GotoMoves
      DEF StepOK, BeforeCreate, AfterCall, InUpdate, InDelete
    <2> QED
      BY <1>0, <2>1, <2>2, <2>3, <2>4, GotoMoves, AdvanceOK, NothingHappens
  <1> QED
    BY <1>1, <1>2, <1>3, <1>4

\* Reconciles that keep what NICo answered.
LEMMA AnsweredStep ==
    ASSUME IInv, NEW w \in Managers,
           \/ CreateInstance(w)
           \/ UpdateGetInstance(w) /\ ~UpdateFails(wk[w].o.iid)
           \/ UpdateHealthFromReports(w) \/ UpdateHealthFromJSONB(w)
    PROVE  IInv'
  <1> USE DEF machineVars, nicoVars, gauges
  <1>0. /\ TypeOK /\ wk[w].pc # "idle"
        /\ UNCHANGED <<obj, cache, synced, base, parked, fault, managed>>
        /\ faults' = faults \/ Spend
    BY DEF IInv, CreateInstance, UpdateGetInstance, UpdateHealthFromReports,
       UpdateHealthFromJSONB
  <1>a. faults' \in 0..MaxFaults
    BY <1>0, BoundAssumption DEF Spend, TypeOK
  <1>b. /\ wk[w] \in WorkType /\ wk[w].m \in Machines
        /\ wk[w].o.life \in {"live", "deleting"} /\ wk[w].o.iid \in Ids
        /\ StepOK(wk[w], inst) /\ wk[w].o \in MachineType
        /\ VersionOK(wk[w].o, wk[w].m, inst)
    BY <1>0, Knows
  <1>1. CASE CreateInstance(w)
    <2>1. PICK i \in Instances :
            /\ inst[i].state = "free"
            /\ inst' = [inst EXCEPT ![i] = RequestedInstance(wk[w].m)]
            /\ wk' = [wk EXCEPT ![w].pc = "createStatus", ![w].i = i,
                                ![w].h = Target[wk[w].m]]
      BY <1>1 DEF CreateInstance
    <2> DEFINE k == [wk[w] EXCEPT !.pc = "createStatus", !.i = i,
                                  !.h = Target[wk[w].m]]
               new == RequestedInstance(wk[w].m)
    <2>2. Target[wk[w].m] \in Names
      BY <1>b, SpecAssumption DEF Names
    <2>3. /\ new \in InstanceType /\ new.state = "Starting" /\ new.owner = wk[w].m
      BY <1>b, <2>2 DEF RequestedInstance, InstanceType, Unborn, Names, States
    <2>4. /\ inst' \in [Instances -> InstanceType] /\ Evolves(inst, inst')
          /\ inst'[i] = new
      BY <1>0, <2>1, <2>3 DEF TypeOK, Evolves
    <2>5. /\ k \in WorkType /\ k.pc = "createStatus" /\ k.m = wk[w].m
          /\ k.o = wk[w].o /\ k.i = i
      BY <1>b, <2>2 DEF WorkType, Ids, Steps
    <2>6. wk' = [wk EXCEPT ![w] = k]
      BY <1>0, <2>1 DEF TypeOK
    <2>7. /\ wk' \in [Managers -> WorkType] /\ wk'[w] = k
          /\ \A v \in Managers \ {w} : wk'[v] = wk[v]
      BY <1>0, <2>5, <2>6, Moved
    <2> HIDE DEF k, new
    <2>8. wk[w].pc = "createCall" /\ UNCHANGED <<mhc, unhealthy>>
      BY <1>1 DEF CreateInstance
    <2>9. StepOK(k, inst')
      <3>1. wk[w].o.iid # None => inst'[wk[w].o.iid].state = "Gone"
        BY <1>b, <2>4, <2>8 DEF StepOK, BeforeCreate, Ids, Evolves
      <3>2. wk[w].o.life = "live" /\ wk[w].o.fin # {}
        BY <1>b, <2>8 DEF StepOK, BeforeCreate
      <3> QED
        BY <2>3, <2>4, <2>5, <3>1, <3>2
        DEF StepOK, BeforeCreate, AfterCall, InUpdate, InDelete
    <2>10. TypeOK'
      BY <1>0, <1>a, <2>4, <2>7, <2>8 DEF TypeOK
    <2> QED
      BY <1>0, <2>4, <2>5, <2>7, <2>9, <2>10, AdvanceOK
  <1>2. CASE UpdateGetInstance(w) /\ ~UpdateFails(wk[w].o.iid)
    <2> DEFINE i == wk[w].o.iid
               pc == IF LabelAfter(wk[w].o, inst[i].host) = wk[w].o.lab
                     THEN AfterLabels(inst[i].host) ELSE "labels"
               k == [wk[w] EXCEPT !.st = inst[i].state, !.h = inst[i].host,
                                  !.hl = wk[w].o.healthy, !.pc = pc]
    <2>1. wk[w].pc = "update" /\ UNCHANGED <<inst, mhc, unhealthy>>
      BY <1>2 DEF UpdateGetInstance
    <2>2. i \in Instances /\ inst[i].state # "free" /\ inst[i].state # "Gone"
      BY <1>2, <1>b, <2>1 DEF StepOK, InUpdate, VersionOK, Ids, UpdateFails, NotFound
    <2>3. /\ inst[i].state \in States /\ inst[i].host \in Names
          /\ wk[w].o.healthy \in Healths /\ pc \in Steps /\ pc \in InUpdate \ {"update"}
      BY <1>0, <1>b, <2>2 DEF TypeOK, InstanceType, MachineType, States, Steps,
         InUpdate, AfterLabels
    <2>4. wk' = [wk EXCEPT ![w] = k]
      BY <1>0, <1>2 DEF UpdateGetInstance, TypeOK
    <2> HIDE DEF pc
    <2>5. k \in WorkType /\ k.pc = pc /\ k.m = wk[w].m /\ k.o = wk[w].o
      BY <1>b, <2>3 DEF WorkType
    <2>6. /\ wk' \in [Managers -> WorkType] /\ wk'[w] = k
          /\ \A v \in Managers \ {w} : wk'[v] = wk[v]
      BY <1>0, <2>4, <2>5, Moved
    <2> HIDE DEF k
    <2>7. StepOK(k, inst)
      BY <1>b, <2>1, <2>3, <2>5
      DEF StepOK, BeforeCreate, AfterCall, InUpdate, InDelete
    <2>8. TypeOK'
      BY <1>0, <1>a, <2>1, <2>6 DEF TypeOK
    <2>9. pc # "idle"
      BY <2>3 DEF InUpdate
    <2> QED
      BY <1>0, <2>1, <2>5, <2>6, <2>7, <2>8, <2>9, AdvanceOK, NothingHappens
  <1>3. CASE UpdateHealthFromReports(w) \/ UpdateHealthFromJSONB(w)
    <2>1. PICK is \in Healths, pc \in {"clear", "status"} : HealthFound(w, is, pc)
      <3>1. CASE UpdateHealthFromReports(w)
        BY <3>1 DEF UpdateHealthFromReports, HealthOf, Healths, AfterHealth
      <3>2. CASE UpdateHealthFromJSONB(w)
        BY <3>2, <1>b, WorkFields DEF UpdateHealthFromJSONB, HealthOf, Healths
      <3> QED
        BY <1>3, <3>1, <3>2
    <2> DEFINE k == [wk[w] EXCEPT !.hl = is, !.pc = pc]
    <2>2. wk[w].pc = "health" /\ UNCHANGED <<inst, mhc>>
      BY <1>3 DEF UpdateHealthFromReports, UpdateHealthFromJSONB
    <2>3. k \in WorkType /\ k.pc = pc /\ k.m = wk[w].m /\ k.o = wk[w].o
      BY <1>b DEF WorkType, Steps
    <2>4. wk' = [wk EXCEPT ![w] = k]
      BY <1>0, <2>1 DEF HealthFound, TypeOK
    <2>5. /\ wk' \in [Managers -> WorkType] /\ wk'[w] = k
          /\ \A v \in Managers \ {w} : wk'[v] = wk[v]
      BY <1>0, <2>3, <2>4, Moved
    <2> HIDE DEF k
    <2>6. unhealthy' \in [Managers -> Int]
      BY <1>0, <2>1, BumpType DEF HealthFound, TypeOK
    <2>7. StepOK(k, inst)
      BY <1>b, <2>2, <2>3
      DEF StepOK, BeforeCreate, AfterCall, InUpdate, InDelete
    <2>8. TypeOK'
      BY <1>0, <1>a, <2>2, <2>5, <2>6 DEF TypeOK
    <2> QED
      BY <1>0, <2>2, <2>3, <2>5, <2>7, <2>8, AdvanceOK, NothingHappens
  <1> QED
    BY <1>1, <1>2, <1>3

\* A version that a reconcile writes with its instance and deletion kept.
LEMMA KeepsVersion ==
    ASSUME NEW o, NEW new, NEW m, NEW S, VersionOK(o, m, S),
           o.life \in {"live", "deleting"},
           new.life = o.life, new.iid = o.iid, new.pid = o.pid, new.fin = o.fin
    PROVE  Follows(o, new, S) /\ VersionOK(new, m, S)
  BY DEF Follows, VersionOK

\* What a write of the working copy leaves well-typed.
LEMMA WriteTypes ==
    ASSUME TypeOK, NEW w \in Managers, NEW new \in MachineType, NEW pc \in Steps,
           wk[w].m \in Machines,
           WriteAndReturn(w, new) \/ WriteAndContinue(w, new, pc)
    PROVE  /\ obj' \in [Machines -> MachineType]
           /\ synced' \subseteq Managers \X Machines
           /\ base' \subseteq Managers
           /\ wk' \in [Managers -> WorkType]
           /\ WriteAndContinue(w, new, pc) =>
                /\ wk'[w].pc = pc /\ wk'[w].o = new
                /\ wk'[w].m = wk[w].m /\ wk'[w].i = wk[w].i
  <1>1. /\ obj' \in [Machines -> MachineType]
        /\ synced' \subseteq Managers \X Machines
        /\ base' \subseteq Managers
    BY DEF WriteAndReturn, WriteAndContinue, Commit, TypeOK
  <1>2. CASE WriteAndReturn(w, new) /\ ~WriteAndContinue(w, new, pc)
    BY <1>1, <1>2, ConstantTypes DEF WriteAndReturn, TypeOK
  <1>3. CASE WriteAndContinue(w, new, pc)
    <2> DEFINE k == [wk[w] EXCEPT !.o = new, !.pc = pc]
    <2>1. wk[w] \in WorkType /\ wk' = [wk EXCEPT ![w] = k]
      BY <1>3 DEF WriteAndContinue, TypeOK
    <2>2. /\ k \in WorkType /\ k.pc = pc /\ k.o = new
          /\ k.m = wk[w].m /\ k.i = wk[w].i
      BY <2>1 DEF WorkType
    <2> HIDE DEF k
    <2> QED
      BY <1>1, <2>1, <2>2, Moved
  <1> QED
    BY <1>2, <1>3

\* Reconciles that write the status or the labels and keep the instance.
LEMMA StatusStep ==
    ASSUME IInv, NEW w \in Managers,
           PersistBlocked(w) \/ UpdateLabels(w) \/ UpdateSetStatus(w)
    PROVE  IInv'
  <1> USE DEF machineVars, nicoVars, gauges
  <1>0. /\ TypeOK /\ wk[w].pc # "idle"
        /\ UNCHANGED <<cache, parked, inst, fault, mhc, managed, unhealthy, faults>>
    BY DEF IInv, PersistBlocked, UpdateLabels, UpdateSetStatus
  <1>b. /\ wk[w] \in WorkType /\ wk[w].m \in Machines
        /\ wk[w].o.life \in {"live", "deleting"}
        /\ StepOK(wk[w], inst) /\ wk[w].o \in MachineType
        /\ VersionOK(wk[w].o, wk[w].m, inst)
    BY <1>0, Knows
  <1>1. CASE PersistBlocked(w)
    <2> DEFINE new == BlockedStatus(wk[w].o)
    <2>1. new \in MachineType /\ WriteAndReturn(w, new)
      BY <1>b, <1>1, VersionTypes DEF PersistBlocked
    <2>2. /\ new.life = wk[w].o.life /\ new.iid = wk[w].o.iid
          /\ new.pid = wk[w].o.pid /\ new.fin = wk[w].o.fin
      BY <1>b DEF BlockedStatus, MachineType
    <2> HIDE DEF new
    <2>3. Follows(wk[w].o, new, inst) /\ VersionOK(new, wk[w].m, inst)
      BY <1>b, <2>2, KeepsVersion
    <2>4. "create" \in Steps
      BY DEF Steps
    <2>5. TypeOK'
      BY <1>0, <1>b, <2>1, <2>4, WriteTypes DEF TypeOK
    <2> QED
      BY <1>0, <2>1, <2>3, <2>5, WriteReturnOK
  <1>2. CASE UpdateSetStatus(w)
    <2>1. PICK reason \in ReasonsAfter(wk[w].o, wk[w].st) :
            WriteAndReturn(w, UpdatedStatus(wk[w].o, wk[w].st, wk[w].h,
                                            wk[w].hl, reason))
      BY <1>2 DEF UpdateSetStatus
    <2> DEFINE new == UpdatedStatus(wk[w].o, wk[w].st, wk[w].h, wk[w].hl, reason)
    <2>a. reason \in Reasons
      BY <1>b DEF ReasonsAfter, MachineType, Reasons
    <2>b. new \in MachineType
      BY <1>b, <2>a, WorkFields, UpdatedType
    <2>2. /\ new.life = wk[w].o.life /\ new.iid = wk[w].o.iid
          /\ new.pid = wk[w].o.pid /\ new.fin = wk[w].o.fin
      BY <1>b DEF UpdatedStatus, MachineType
    <2>3. WriteAndReturn(w, new)
      BY <2>1
    <2> HIDE DEF new
    <2>4. Follows(wk[w].o, new, inst) /\ VersionOK(new, wk[w].m, inst)
      BY <1>b, <2>2, KeepsVersion
    <2>5. "create" \in Steps
      BY DEF Steps
    <2>6. TypeOK'
      BY <1>0, <1>b, <2>b, <2>3, <2>5, WriteTypes DEF TypeOK
    <2> QED
      BY <1>0, <2>3, <2>4, <2>6, WriteReturnOK
  <1>3. CASE UpdateLabels(w)
    <2> DEFINE new == [wk[w].o EXCEPT !.lab = LabelAfter(wk[w].o, wk[w].h)]
               pc == AfterLabels(wk[w].h)
    <2>1. WriteAndContinue(w, new, pc) /\ wk[w].pc = "labels"
      BY <1>3 DEF UpdateLabels
    <2>b. /\ new \in MachineType
          /\ pc \in Steps /\ pc \in {"health", "status"}
      <3>1. wk[w].h \in Names /\ wk[w].st \in States /\ wk[w].hl \in Healths
        BY <1>b, WorkFields
      <3>2. "none" \in Reasons
        BY DEF Reasons
      <3> QED
        BY <1>b, <3>1, <3>2, UpdatedType DEF AfterLabels, Steps
    <2>2. /\ new.life = wk[w].o.life /\ new.iid = wk[w].o.iid
          /\ new.pid = wk[w].o.pid /\ new.fin = wk[w].o.fin
      BY <1>b DEF MachineType
    <2> HIDE DEF new, pc
    <2>3. Follows(wk[w].o, new, inst) /\ VersionOK(new, wk[w].m, inst)
      BY <1>b, <2>2, KeepsVersion
    <2>4. /\ TypeOK' /\ wk'[w].pc = pc /\ wk'[w].o = new
      BY <1>0, <1>b, <2>b, <2>1, WriteTypes DEF TypeOK
    <2>5. StepOK(wk'[w], inst)
      BY <1>b, <2>1, <2>b, <2>2, <2>4
      DEF StepOK, BeforeCreate, AfterCall, InUpdate, InDelete
    <2> QED
      BY <1>0, <1>b, <2>1, <2>b, <2>2, <2>3, <2>4, <2>5, WriteContinueOK
  <1> QED
    BY <1>1, <1>2, <1>3

\* Reconciles that record an instance, and the one that lets the object go.
LEMMA RecordStep ==
    ASSUME IInv, NEW w \in Managers,
           CreateSetStatus(w) \/ CreateSetProviderID(w) \/ RemoveFinalizer(w)
    PROVE  IInv'
  <1> USE DEF machineVars, nicoVars, gauges
  <1>0. /\ TypeOK /\ wk[w].pc # "idle"
        /\ UNCHANGED <<cache, parked, inst, fault, mhc, unhealthy, faults>>
    BY DEF IInv, CreateSetStatus, CreateSetProviderID, RemoveFinalizer
  <1>b. /\ wk[w] \in WorkType /\ wk[w].m \in Machines
        /\ wk[w].o.iid \in Ids /\ wk[w].o.pid \in Ids
        /\ StepOK(wk[w], inst) /\ wk[w].o \in MachineType
        /\ VersionOK(wk[w].o, wk[w].m, inst)
    BY <1>0, Knows
  <1>c. /\ wk[w].h \in Names
        /\ "create" \in Steps /\ "createPid" \in Steps /\ "dpu" \in Steps
    BY <1>b, WorkFields DEF Steps
  <1>1. CASE CreateSetStatus(w)
    <2> DEFINE new == CreatedStatus(wk[w].o, wk[w].i, wk[w].h)
    <2>1. WriteAndContinue(w, new, "createPid") /\ wk[w].pc = "createStatus"
          /\ managed' = managed
      BY <1>1 DEF CreateSetStatus
    <2>2. /\ wk[w].o.iid = None \/ inst[wk[w].o.iid].state = "Gone"
          /\ wk[w].o.life = "live" /\ wk[w].o.fin # {}
          /\ wk[w].i \in Instances
          /\ inst[wk[w].i].owner = wk[w].m /\ inst[wk[w].i].state # "free"
      BY <1>b, <2>1 DEF StepOK, BeforeCreate, AfterCall
    <2>3. /\ new \in MachineType /\ new.iid = wk[w].i /\ new.pid = wk[w].o.pid
          /\ new.life = "live" /\ new.fin = wk[w].o.fin
      BY <1>b, <1>c, <2>2, CreatedTypes DEF CreatedStatus, MachineType
    <2> HIDE DEF new
    <2>4. Follows(wk[w].o, new, inst) /\ VersionOK(new, wk[w].m, inst)
      BY <1>b, <2>2, <2>3 DEF Follows, VersionOK
    <2>5. /\ TypeOK' /\ wk'[w].pc = "createPid" /\ wk'[w].o = new
          /\ wk'[w].m = wk[w].m /\ wk'[w].i = wk[w].i
      BY <1>0, <1>b, <1>c, <2>1, <2>3, WriteTypes DEF TypeOK
    <2>6. StepOK(wk'[w], inst)
      BY <2>2, <2>3, <2>5 DEF StepOK, BeforeCreate, AfterCall, InUpdate, InDelete
    <2> QED
      BY <1>0, <1>c, <2>1, <2>3, <2>4, <2>5, <2>6, WriteContinueOK
  <1>2. CASE CreateSetProviderID(w)
    <2> DEFINE new == WithProviderID(wk[w].o, wk[w].i)
    <2>1. wk[w].pc = "createPid"
      BY <1>2 DEF CreateSetProviderID
    <2>2. /\ wk[w].o.iid = wk[w].i
          /\ wk[w].o.life = "live" /\ wk[w].o.fin # {}
          /\ wk[w].i \in Instances
          /\ inst[wk[w].i].owner = wk[w].m /\ inst[wk[w].i].state # "free"
      BY <1>b, <2>1 DEF StepOK, BeforeCreate, AfterCall
    <2>3. /\ new \in MachineType /\ new.iid = wk[w].i /\ new.pid = wk[w].i
          /\ new.life = "live" /\ new.fin = wk[w].o.fin
      BY <1>b, <1>c, <2>2, CreatedTypes DEF WithProviderID, MachineType
    <2>4. \/ WriteAndContinue(w, new, "dpu") /\ managed' = managed
          \/ WriteAndReturn(w, new) /\ managed' = Bump(managed, w, 1)
      BY <1>2 DEF CreateSetProviderID
    <2> HIDE DEF new
    <2>5. Follows(wk[w].o, new, inst) /\ VersionOK(new, wk[w].m, inst)
      BY <2>2, <2>3 DEF Follows, VersionOK
    <2>6. managed' \in [Managers -> Int]
      <3>1. managed \in [Managers -> Int] /\ Bump(managed, w, 1) \in [Managers -> Int]
        BY <1>0, BumpType DEF TypeOK
      <3> QED
        BY <2>4, <3>1
    <2>7. TypeOK'
      BY <1>0, <1>b, <1>c, <2>3, <2>4, <2>6, WriteTypes DEF TypeOK
    <2>8. CASE WriteAndContinue(w, new, "dpu")
      <3>1. /\ wk'[w].pc = "dpu" /\ wk'[w].o = new
            /\ wk'[w].m = wk[w].m /\ wk'[w].i = wk[w].i
        BY <1>0, <1>b, <1>c, <2>3, <2>8, WriteTypes
      <3>2. StepOK(wk'[w], inst)
        BY <2>2, <2>3, <3>1 DEF StepOK, BeforeCreate, AfterCall, InUpdate, InDelete
      <3> QED
        BY <1>0, <1>c, <2>3, <2>5, <2>7, <2>8, <3>2, WriteContinueOK
    <2>9. CASE WriteAndReturn(w, new)
      BY <1>0, <2>5, <2>7, <2>9, WriteReturnOK
    <2> QED
      BY <2>4, <2>8, <2>9
  <1>3. CASE RemoveFinalizer(w)
    <2> DEFINE new == Unfinalized(wk[w].o)
    <2>1. WriteAndReturn(w, new) /\ wk[w].pc = "unfinalize" /\ managed' = managed
      BY <1>3 DEF RemoveFinalizer
    <2>2. /\ wk[w].o.life = "deleting"
          /\ wk[w].o.iid = None \/ inst[wk[w].o.iid].state \in {"Terminating", "Gone"}
      BY <1>b, <2>1 DEF StepOK, InDelete
    <2>3. new = Removed
      BY <1>b DEF Unfinalized, OwnFinalizers, MachineType
    <2>4. /\ new \in MachineType /\ new.life = "gone" /\ new.iid = None
          /\ new.pid = None
      BY <2>3, ConstantTypes DEF Removed, NoMachine
    <2> HIDE DEF new
    <2>5. Follows(wk[w].o, new, inst) /\ VersionOK(new, wk[w].m, inst)
      BY <2>2, <2>4 DEF Follows, VersionOK
    <2>6. TypeOK'
      BY <1>0, <1>b, <1>c, <2>1, <2>4, WriteTypes DEF TypeOK
    <2> QED
      BY <1>0, <2>1, <2>5, <2>6, WriteReturnOK
  <1> QED
    BY <1>1, <1>2, <1>3

\* Other writers of Machines.
LEMMA OutsideStep ==
    ASSUME IInv, NEW m \in Machines, User(m)
    PROVE  IInv'
  <1> USE DEF machineVars, nicoVars, gauges
  <1>0. /\ TypeOK /\ obj[m] \in MachineType /\ VersionOK(obj[m], m, inst)
    BY DEF IInv, TypeOK, VersionsOK
  <1>a. ASSUME NEW new, ForeignWrite(m, new), new \in MachineType, inst' = inst,
               Follows(obj[m], new, inst), VersionOK(new, m, inst),
               UNCHANGED <<fault, mhc, managed, unhealthy>>,
               faults' = faults \/ Spend
        PROVE  IInv'
    <2>1. faults' \in 0..MaxFaults
      BY <1>0, <1>a, BoundAssumption DEF Spend, TypeOK
    <2>2. TypeOK'
      BY <1>0, <1>a, <2>1 DEF ForeignWrite, Commit, TypeOK
    <2> QED
      BY <1>a, <2>2, OutsideWriteOK, NothingHappens DEF ForeignWrite
  <1>1. CASE CreateMachine(m)
    <2> DEFINE new == [NoMachine EXCEPT !.life = "live"]
    <2>1. new \in MachineType /\ new.iid = None /\ new.pid = None /\ new.life = "live"
      BY <1>0, VersionTypes DEF NoMachine
    <2>2. Follows(obj[m], new, inst) /\ VersionOK(new, m, inst)
      BY <1>1, <2>1 DEF CreateMachine, Follows, VersionOK
    <2> QED
      BY <1>1, <1>a, <2>1, <2>2 DEF CreateMachine
  <1>2. CASE AdoptMachine(m)
    <2>1. PICK i \in Instances, h \in Hosts :
        /\ inst[i].state = "free"
        /\ inst' = [inst EXCEPT ![i] = [Unborn EXCEPT
                        !.state = "Ready", !.owner = m, !.host = h]]
        /\ ForeignWrite(m, [NoMachine EXCEPT !.life = "live", !.fin = {"legacy"},
                               !.iid = i, !.pid = i, !.mid = h, !.state = "Ready"])
      BY <1>2 DEF AdoptMachine
    <2> DEFINE new == [NoMachine EXCEPT !.life = "live", !.fin = {"legacy"},
                               !.iid = i, !.pid = i, !.mid = h, !.state = "Ready"]
               I == [Unborn EXCEPT !.state = "Ready", !.owner = m, !.host = h]
    <2>2. /\ new \in MachineType /\ new.iid = i /\ new.pid = i
          /\ new.life = "live" /\ new.fin = {"legacy"}
      BY <1>0, CreatedTypes DEF NoMachine, Names
    <2>3. I \in InstanceType /\ I.state = "Ready" /\ I.owner = m
      BY DEF Unborn, InstanceType, Names, States
    <2>4. ForeignWrite(m, new) /\ inst' = [inst EXCEPT ![i] = I]
      BY <2>1
    <2> HIDE DEF new, I
    <2>5. /\ inst' \in [Instances -> InstanceType] /\ Evolves(inst, inst')
          /\ inst'[i] = I
      BY <1>0, <2>1, <2>3, <2>4 DEF TypeOK, Evolves
    <2>6. Follows(obj[m], new, inst) /\ VersionOK(new, m, inst')
      BY <1>2, <2>2, <2>3, <2>5 DEF AdoptMachine, Follows, VersionOK
    <2>7. TypeOK'
      BY <1>0, <1>2, <2>2, <2>4, <2>5 DEF AdoptMachine, ForeignWrite, Commit, TypeOK
    <2> QED
      BY <2>4, <2>5, <2>6, <2>7, OutsideWriteOK DEF ForeignWrite
  <1>3. CASE DeleteMachine(m)
    <2>1. obj[m].life = "live"
      BY <1>3 DEF DeleteMachine
    <2>2. CASE obj[m].fin = {}
      <3>1. Removed \in MachineType /\ Follows(obj[m], Removed, inst)
        BY <2>1, ConstantTypes DEF Follows, Removed, NoMachine
      <3>2. VersionOK(Removed, m, inst)
        BY DEF VersionOK, Removed, NoMachine
      <3> QED
        BY <1>3, <1>a, <2>2, <3>1, <3>2 DEF DeleteMachine
    <2>3. CASE obj[m].fin # {}
      <3> DEFINE new == [obj[m] EXCEPT !.life = "deleting"]
      <3>1. /\ new \in MachineType /\ new.iid = obj[m].iid /\ new.pid = obj[m].pid
            /\ new.fin = obj[m].fin /\ new.life = "deleting"
        BY <1>0, VersionTypes DEF MachineType
      <3>2. ForeignWrite(m, new) /\ UNCHANGED <<inst, fault, mhc, managed, unhealthy, faults>>
        BY <1>3, <2>3 DEF DeleteMachine
      <3> HIDE DEF new
      <3>3. Follows(obj[m], new, inst) /\ VersionOK(new, m, inst)
        BY <1>0, <2>1, <3>1 DEF Follows, VersionOK
      <3> QED
        BY <1>a, <3>1, <3>2, <3>3
    <2> QED
      BY <2>2, <2>3
  <1>4. CASE MarkUnhealthy(m)
    <2> DEFINE new == [obj[m] EXCEPT !.marked = TRUE]
    <2>1. /\ new \in MachineType /\ new.iid = obj[m].iid /\ new.pid = obj[m].pid
          /\ new.fin = obj[m].fin /\ new.life = obj[m].life
      BY <1>0, VersionTypes DEF MachineType
    <2>2. /\ ForeignWrite(m, new) /\ obj[m].life = "live"
          /\ UNCHANGED <<inst, fault, mhc, managed, unhealthy, faults>>
      BY <1>4 DEF MarkUnhealthy
    <2> HIDE DEF new
    <2>3. Follows(obj[m], new, inst) /\ VersionOK(new, m, inst)
      BY <1>0, <2>1, <2>2, KeepsVersion
    <2> QED
      BY <1>a, <2>1, <2>2, <2>3
  <1>5. CASE Touch(m)
    <2>1. Follows(obj[m], obj[m], inst)
      BY <1>0, <1>5, KeepsVersion DEF Touch
    <2> QED
      BY <1>0, <1>5, <1>a, <2>1 DEF Touch
  <1> QED
    BY <1>1, <1>2, <1>3, <1>4, <1>5 DEF User

\* NICo's own steps keep the invariant.
LEMMA NicoStep ==
    ASSUME IInv,
           \/ \E i \in Instances : Nico(i)
           \/ \E h \in Hosts : HostFault(h) \/ HostRepaired(h)
    PROVE  IInv'
  <1> USE DEF gauges
  <1>0. TypeOK
    BY DEF IInv
  <1>1. ASSUME NEW i \in Instances, Nico(i)
        PROVE  IInv'
    <2>1. PICK new \in InstanceType :
            /\ OnlyInstance(i, new)
            /\ faults' = faults \/ Spend
            /\ new.owner = inst[i].owner
            /\ new.state # "free"
            /\ inst[i].state # "Gone"
            /\ inst[i].state = "Terminating" => new.state = "Gone"
      <3>0. inst[i] \in InstanceType
        BY <1>0 DEF TypeOK
      <3>1. CASE Allocate(i)
        <4>1. PICK h \in Hosts : OnlyInstance(i, [inst[i] EXCEPT !.host = h])
          BY <3>1 DEF Allocate
        <4>2. /\ [inst[i] EXCEPT !.host = h] \in InstanceType
              /\ [inst[i] EXCEPT !.host = h].state = "Starting"
              /\ [inst[i] EXCEPT !.host = h].owner = inst[i].owner
          BY <3>0, <3>1 DEF Allocate, InstanceType, Names
        <4> QED
          BY <3>1, <4>1, <4>2 DEF Allocate
      <3>2. CASE BecomeReady(i)
        <4>1. /\ [inst[i] EXCEPT !.state = "Ready"] \in InstanceType
              /\ [inst[i] EXCEPT !.state = "Ready"].state = "Ready"
              /\ [inst[i] EXCEPT !.state = "Ready"].owner = inst[i].owner
          BY <3>0 DEF InstanceType, States
        <4> QED
          BY <3>2, <4>1 DEF BecomeReady
      <3>3. CASE ProvisioningFails(i)
        <4>1. /\ [inst[i] EXCEPT !.state = "Error"] \in InstanceType
              /\ [inst[i] EXCEPT !.state = "Error"].state = "Error"
              /\ [inst[i] EXCEPT !.state = "Error"].owner = inst[i].owner
          BY <3>0 DEF InstanceType, States
        <4> QED
          BY <3>3, <4>1 DEF ProvisioningFails
      <3>4. CASE Terminated(i) \/ RemovedOutOfBand(i)
        <4>1. /\ Departed(i) \in InstanceType /\ Departed(i).state = "Gone"
              /\ Departed(i).owner = inst[i].owner
          BY <3>0 DEF Departed, Unborn, InstanceType, Names
        <4> QED
          BY <3>4, <4>1 DEF Terminated, RemovedOutOfBand, Alive
      <3> QED
        BY <1>1, <3>1, <3>2, <3>3, <3>4 DEF Nico
    <2>2. inst' \in [Instances -> InstanceType] /\ Evolves(inst, inst')
      BY <1>0, <2>1 DEF OnlyInstance, TypeOK, Evolves
    <2>3. faults' \in 0..MaxFaults
      BY <1>0, <2>1, BoundAssumption DEF Spend, TypeOK
    <2>4. TypeOK'
      BY <1>0, <2>1, <2>2, <2>3 DEF OnlyInstance, TypeOK
    <2> QED
      BY <2>1, <2>2, <2>4, InstancesOK DEF OnlyInstance
  <1>2. ASSUME NEW h \in Hosts, HostFault(h) \/ HostRepaired(h)
        PROVE  IInv'
    <2>1. faults' \in 0..MaxFaults
      BY <1>0, <1>2, BoundAssumption DEF HostFault, HostRepaired, Spend, TypeOK
    <2>2. fault' \in [Hosts -> {"none", "warning", "critical", "invalid"}]
      BY <1>0, <1>2, SpecAssumption DEF HostFault, HostRepaired, TypeOK
    <2>3. /\ TypeOK' /\ UNCHANGED <<obj, cache, synced, wk, base, inst>>
      BY <1>0, <1>2, <2>1, <2>2 DEF HostFault, HostRepaired, TypeOK
    <2> QED
      BY <2>3, InstancesOK, NothingHappens
  <1> QED
    BY <1>1, <1>2

----------------------------------------------------------------------------
(* The theorems.                                                           *)

LEMMA InitInvariant == Init => IInv
  <1> SUFFICES ASSUME Init PROVE IInv
    OBVIOUS
  <1>1. /\ NoMachine.iid = None /\ NoMachine.pid = None /\ NoMachine.life = "absent"
        /\ Idle.pc = "idle" /\ Idle.m = None
    BY DEF NoMachine, Idle
  <1>2. TypeOK
    BY ConstantTypes, BoundAssumption DEF Init, TypeOK
  <1>a. /\ \A m \in Machines : obj[m] = NoMachine
        /\ \A w \in Managers, m \in Machines : cache[w][m] = NoMachine
        /\ \A w \in Managers : wk[w] = Idle
        /\ base = {}
    BY DEF Init
  <1>3. WorkOK /\ CurrentOK
    BY <1>1, <1>a DEF WorkOK, CurrentOK
  <1>4. \A m \in Machines : VersionOK(NoMachine, m, inst)
                             /\ CopyOK(NoMachine, m, NoMachine, inst)
    BY <1>1 DEF VersionOK, CopyOK, DeletionSeen
  <1>5. VersionsOK
    BY <1>1, <1>a, <1>4 DEF VersionsOK
  <1>6. StepOK(Idle, inst)
    BY <1>1 DEF StepOK, BeforeCreate, AfterCall, InUpdate, InDelete
  <1>7. StepsOK
    BY <1>a, <1>6 DEF StepsOK
  <1> QED
    BY <1>2, <1>3, <1>5, <1>7 DEF IInv

LEMMA NextInvariant == IInv /\ [Next]_vars => IInv'
  <1> SUFFICES ASSUME IInv, [Next]_vars PROVE IInv'
    OBVIOUS
  <1>1. CASE Next
    <2>1. ASSUME NEW w \in Managers, Step(w) \/ Failure(w)
          PROVE  IInv'
      BY <2>1, ReturningStep, CallingStep, AnsweredStep, StatusStep, RecordStep
      DEF Step, Failure
    <2> QED
      BY <1>1, <2>1, ReconcileStep, OutsideStep, NicoStep DEF Next
  <1>2. CASE UNCHANGED vars
    BY <1>2 DEF vars, IInv, TypeOK, WorkOK, CurrentOK, VersionsOK, StepsOK
  <1> QED
    BY <1>1, <1>2

\* The inductive invariant: what copies, caches and half-done reconciles may
\* rely on, whatever else has happened since they were made.
THEOREM Invariance == Spec => []IInv
  BY InitInvariant, NextInvariant, PTL DEF Spec

\* The controller's state keeps its type: in particular no reconcile copies
\* into a status the state of an instance it was told does not exist, and the
\* counter of blocked attempts stays within its maximum.
THEOREM TypeCorrect == Spec => []TypeOK
  <1>1. IInv => TypeOK
    BY DEF IInv
  <1> QED
    BY <1>1, Invariance, PTL

\* The provider ID of a Machine names an instance created for that Machine,
\* which is the one its status tracks unless it no longer exists.
THEOREM ProviderIdCorrect == Spec => []ProviderIdSound
  <1>1. IInv => ProviderIdSound
    BY DEF IInv, VersionsOK, VersionOK, ProviderIdSound, NotFound
  <1> QED
    BY <1>1, Invariance, PTL

\* A step that writes at most the object of m forgets no instance if that
\* write does not.
LEMMA OneWrite ==
    ASSUME TypeOK, NEW m \in Machines, NEW new, Commit(m, new),
           obj[m].iid = None \/ new.iid = obj[m].iid
              \/ inst'[obj[m].iid].state \in {"Terminating", "Gone"},
           NEW n \in Machines, obj[n].iid # None, obj'[n].iid # obj[n].iid
    PROVE  inst'[obj[n].iid].state \in {"Terminating", "Gone"}
  BY DEF Commit, TypeOK

LEMMA StepRemembers ==
    ASSUME IInv, Next, NEW n \in Machines,
           obj[n].iid # None, obj'[n].iid # obj[n].iid
    PROVE  inst'[obj[n].iid].state \in {"Terminating", "Gone"}
  <1> USE DEF machineVars, nicoVars, gauges
  <1>0. TypeOK /\ obj' # obj
    BY DEF IInv
  <1>1. ASSUME NEW w \in Managers, NEW m \in Machines,
               Reconcile(w, m) \/ CacheSync(w, m)
        PROVE  inst'[obj[n].iid].state \in {"Terminating", "Gone"}
    <2>1. AddFinalizer(w, m)
      BY <1>0, <1>1 DEF Reconcile, Exists, ReconcileDelete, CacheSync
    <2>2. cache[w][m] = obj[m] /\ obj[m] \in MachineType
      BY <2>1 DEF AddFinalizer, IInv, CurrentOK, TypeOK
    <2>3. [cache[w][m] EXCEPT !.fin = @ \cup {"nico"}].iid = obj[m].iid
      BY <2>2 DEF MachineType
    <2> QED
      BY <1>0, <2>1, <2>3, OneWrite DEF AddFinalizer
  <1>2. ASSUME NEW w \in Managers, Step(w) \/ Failure(w)
        PROVE  inst'[obj[n].iid].state \in {"Terminating", "Gone"}
    <2>0. /\ wk[w].pc # "idle" /\ inst' = inst
          /\ \/ PersistBlocked(w) \/ CreateSetStatus(w) \/ CreateSetProviderID(w)
             \/ UpdateLabels(w) \/ UpdateSetStatus(w) \/ RemoveFinalizer(w)
      BY <1>0, <1>2 DEF Step, Failure, CreateInvalid, PreFlight, PreFlightBlind,
         PersistBlocked, CreateInstance, CreateRefused, CreateRejected,
         CreateSetStatus, CreateSetProviderID, DeployDpu, UpdateGetInstance,
         UpdateLabels, UpdateHealthFromReports, UpdateHealthFromJSONB,
         ClearReport, ClearReportFails, UpdateSetStatus, ReportMHC, ReportMHCFails, DeleteInstance,
         RemoveFinalizer, Conflict, CallFails, Crash
    <2> DEFINE o == wk[w].o
               m == wk[w].m
    <2>1. m \in Machines /\ o \in MachineType /\ StepOK(wk[w], inst)
      BY <2>0, Knows
    <2>a. ASSUME NEW new, Commit(m, new), w \in base,
                 o.iid = None \/ new.iid = o.iid
                    \/ inst[o.iid].state \in {"Terminating", "Gone"}
          PROVE  inst'[obj[n].iid].state \in {"Terminating", "Gone"}
      <3>1. o = obj[m]
        BY <2>a, <2>0, Knows
      <3> QED
        BY <1>0, <2>0, <2>1, <2>a, <3>1, OneWrite
    <2>2. CASE PersistBlocked(w)
      <3>1. BlockedStatus(o).iid = o.iid
        BY <2>1 DEF BlockedStatus, MachineType
      <3> QED
        BY <2>2, <2>a, <3>1 DEF PersistBlocked, WriteAndReturn
    <2>3. CASE CreateSetStatus(w)
      <3>1. o.iid = None \/ inst[o.iid].state = "Gone"
        BY <2>1, <2>3 DEF CreateSetStatus, StepOK, BeforeCreate
      <3> QED
        BY <2>3, <2>a, <3>1 DEF CreateSetStatus, WriteAndContinue
    <2>4. CASE CreateSetProviderID(w)
      <3>1. WithProviderID(o, wk[w].i).iid = o.iid
        BY <2>1 DEF WithProviderID, MachineType
      <3> QED
        BY <2>4, <2>a, <3>1 DEF CreateSetProviderID, WriteAndReturn, WriteAndContinue
    <2>5. CASE UpdateLabels(w)
      <3>1. [o EXCEPT !.lab = LabelAfter(o, wk[w].h)].iid = o.iid
        BY <2>1 DEF MachineType
      <3> QED
        BY <2>5, <2>a, <3>1 DEF UpdateLabels, WriteAndContinue
    <2>6. CASE UpdateSetStatus(w)
      <3>1. PICK reason : WriteAndReturn(w, UpdatedStatus(o, wk[w].st, wk[w].h,
                                                           wk[w].hl, reason))
        BY <2>6 DEF UpdateSetStatus
      <3>2. UpdatedStatus(o, wk[w].st, wk[w].h, wk[w].hl, reason).iid = o.iid
        BY <2>1 DEF UpdatedStatus, MachineType
      <3> QED
        BY <2>a, <3>1, <3>2 DEF WriteAndReturn
    <2>7. CASE RemoveFinalizer(w)
      <3>1. o.iid = None \/ inst[o.iid].state \in {"Terminating", "Gone"}
        BY <2>1, <2>7 DEF RemoveFinalizer, StepOK
      <3> QED
        BY <2>7, <2>a, <3>1 DEF RemoveFinalizer, WriteAndReturn
    <2> QED
      BY <2>0, <2>2, <2>3, <2>4, <2>5, <2>6, <2>7
  <1>3. ASSUME NEW m \in Machines, User(m)
        PROVE  inst'[obj[n].iid].state \in {"Terminating", "Gone"}
    <2>1. obj[m] \in MachineType /\ VersionOK(obj[m], m, inst)
      BY DEF IInv, TypeOK, VersionsOK
    <2>2. CASE CreateMachine(m) \/ AdoptMachine(m)
      <3>1. obj[m].iid = None
        BY <2>1, <2>2 DEF CreateMachine, AdoptMachine, VersionOK
      <3> QED
        BY <1>0, <2>2, <3>1, OneWrite DEF CreateMachine, AdoptMachine, ForeignWrite
    <2>3. CASE DeleteMachine(m)
      <3>1. \/ obj[m].iid = None
            \/ obj[m].fin # {} /\ [obj[m] EXCEPT !.life = "deleting"].iid = obj[m].iid
        BY <2>1 DEF VersionOK, MachineType
      <3> QED
        BY <1>0, <2>3, <3>1, OneWrite DEF DeleteMachine, ForeignWrite
    <2>4. CASE MarkUnhealthy(m)
      <3>1. [obj[m] EXCEPT !.marked = TRUE].iid = obj[m].iid
        BY <2>1 DEF MachineType
      <3> QED
        BY <1>0, <2>4, <3>1, OneWrite DEF MarkUnhealthy, ForeignWrite
    <2>5. CASE Touch(m)
      BY <1>0, <2>5, OneWrite DEF Touch, ForeignWrite
    <2> QED
      BY <1>3, <2>2, <2>3, <2>4, <2>5 DEF User
  <1>4. ~\E i \in Instances : Nico(i)
    BY <1>0 DEF Nico, Allocate, BecomeReady, ProvisioningFails, Terminated,
       RemovedOutOfBand, OnlyInstance
  <1>5. ~\E h \in Hosts : HostFault(h) \/ HostRepaired(h)
    BY <1>0 DEF HostFault, HostRepaired
  <1> QED
    BY <1>1, <1>2, <1>3, <1>4, <1>5 DEF Next

\* An instance id that was recorded leaves the status only after NICo has the
\* instance released, for any number of managers, crashes and stale reads.
THEOREM NothingForgotten == Spec => RecordedInstanceNotForgotten
  <1>1. IInv /\ [Next]_vars =>
          [\A m \in Machines : LET i == obj[m].iid IN
             i # None /\ obj'[m].iid # i =>
                inst'[i].state \in {"Terminating", "Gone"}]_vars
    BY StepRemembers
  <1> QED
    BY <1>1, Invariance, PTL DEF Spec, RecordedInstanceNotForgotten

LEMMA StepReleases ==
    ASSUME IInv, Next, NEW i \in Instances,
           Alive(i), inst'[i].state = "Terminating"
    PROVE  obj[inst[i].owner].life = "deleting"
  <1> USE DEF machineVars, nicoVars, gauges
  <1>0. TypeOK /\ inst'[i].state # inst[i].state
    BY DEF IInv, Alive
  <1>1. PICK w \in Managers : DeleteInstance(w)
    <2>1. ~\E w \in Managers, m \in Machines : Reconcile(w, m) \/ CacheSync(w, m)
      BY <1>0 DEF Reconcile, AddFinalizer, Exists, ReconcileDelete, CacheSync
    <2>2. ~\E m \in Machines : User(m)
      <3>1. ASSUME NEW m \in Machines, AdoptMachine(m) PROVE FALSE
        BY <1>0, <3>1 DEF AdoptMachine, TypeOK, Unborn
      <3> QED
        BY <1>0, <3>1 DEF User, CreateMachine, DeleteMachine, MarkUnhealthy, Touch
    <2>3. ~\E j \in Instances : Nico(j)
      <3>1. ASSUME NEW j \in Instances, Nico(j) PROVE FALSE
        <4>1. PICK new : inst' = [inst EXCEPT ![j] = new] /\ new.state # "Terminating"
          <5>0. inst[j] \in InstanceType
            BY <1>0 DEF TypeOK
          <5>1. CASE Allocate(j)
            <6>1. PICK h \in Hosts : inst' = [inst EXCEPT ![j] = [inst[j] EXCEPT !.host = h]]
              BY <5>1 DEF Allocate, OnlyInstance
            <6>2. [inst[j] EXCEPT !.host = h].state = "Starting"
              BY <5>0, <5>1 DEF Allocate, InstanceType
            <6> QED
              BY <6>1, <6>2
          <5>2. CASE BecomeReady(j) \/ ProvisioningFails(j)
            <6>1. [inst[j] EXCEPT !.state = "Ready"].state = "Ready"
                  /\ [inst[j] EXCEPT !.state = "Error"].state = "Error"
              BY <5>0 DEF InstanceType
            <6> QED
              BY <5>2, <6>1 DEF BecomeReady, ProvisioningFails, OnlyInstance
          <5>3. CASE Terminated(j) \/ RemovedOutOfBand(j)
            <6>1. Departed(j).state = "Gone"
              BY DEF Departed, Unborn
            <6> QED
              BY <5>3, <6>1 DEF Terminated, RemovedOutOfBand, OnlyInstance
          <5> QED
            BY <3>1, <5>1, <5>2, <5>3 DEF Nico
        <4> QED
          BY <1>0, <4>1 DEF TypeOK
      <3> QED
        BY <3>1
    <2>4. ~\E h \in Hosts : HostFault(h) \/ HostRepaired(h)
      BY <1>0 DEF HostFault, HostRepaired
    <2>5. ASSUME NEW w \in Managers, Step(w) \/ Failure(w), ~DeleteInstance(w)
          PROVE  FALSE
      <3>1. CreateInstance(w) \/ (DeployDpu(w) /\ inst' # inst)
        BY <1>0, <2>5 DEF Step, Failure, CreateInvalid, PreFlight, PreFlightBlind,
           PersistBlocked, CreateRefused, CreateRejected,
           CreateSetStatus, CreateSetProviderID, UpdateGetInstance,
           UpdateLabels, UpdateHealthFromReports, UpdateHealthFromJSONB,
           ClearReport, ClearReportFails, UpdateSetStatus, ReportMHC, ReportMHCFails,
           RemoveFinalizer, Conflict, CallFails, Crash
      <3>2. CASE CreateInstance(w)
        BY <1>0, <3>2 DEF CreateInstance, RequestedInstance, TypeOK, Unborn
      <3>3. CASE DeployDpu(w) /\ inst' # inst
        BY <1>0, <3>3 DEF DeployDpu, TypeOK, InstanceType
      <3> QED
        BY <3>1, <3>2, <3>3
    <2> QED
      BY <2>1, <2>2, <2>3, <2>4, <2>5 DEF Next
  <1>2. /\ wk[w].pc = "delete"
        /\ inst' = inst \/ inst' = [inst EXCEPT ![wk[w].o.iid].state = "Terminating"]
    BY <1>1 DEF DeleteInstance
  <1>3. i = wk[w].o.iid
    BY <1>0, <1>2 DEF TypeOK
  <1>4. /\ wk[w].o.life = "deleting" /\ wk[w].o.iid # None
        /\ inst[i].owner = wk[w].m
        /\ DeletionSeen(wk[w].o, obj[wk[w].m], inst)
    <2>1. VersionOK(wk[w].o, wk[w].m, inst) /\ StepOK(wk[w], inst)
          /\ DeletionSeen(wk[w].o, obj[wk[w].m], inst)
      BY <1>2, Knows DEF IInv, VersionsOK, CopyOK
    <2> QED
      BY <1>2, <1>3, <2>1 DEF StepOK, VersionOK, InDelete
  <1> QED
    BY <1>3, <1>4 DEF DeletionSeen, Alive

\* Only the instances of Machines being deleted are ever released by the
\* controller, whichever version of the Machine the reconcile works from.
THEOREM OnlyDeletionReleases == Spec => LiveMachineKeepsInstance
  <1>1. IInv /\ [Next]_vars =>
          [\A i \in Instances : Alive(i) /\ inst'[i].state = "Terminating" =>
             obj[inst[i].owner].life = "deleting"]_vars
    BY StepReleases
  <1> QED
    BY <1>1, Invariance, PTL DEF Spec, LiveMachineKeepsInstance

============================================================================
