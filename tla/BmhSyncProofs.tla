--------------------------- MODULE BmhSyncProofs ---------------------------
(***************************************************************************)
(* Proofs about BmhSync for every value of its constants: the type         *)
(* invariant, NoFirmwareWithoutHost and NeverGoesBack.                     *)
(***************************************************************************)
EXTENDS BmhSync, TLAPS

\* NICo's versions count its changes.
VersionsCounted ==
    \A h \in Hosts : /\ nico[h].machine <= changes + 1
                     /\ nico[h].sku <= changes + 1
                     /\ nico[h].fw <= changes + 1

FirmwareSteps == {"hfc", "hfcStatus"}

\* A sync turns to the firmware of a host only after it wrote the host.
HostFirst ==
    \A w \in Managers : sync[w].pc \in FirmwareSteps =>
        sync[w].h \in Hosts /\ bmh[sync[w].h] # None

\* Nobody is ahead of NICo: neither what a sync was told nor what is written.
NothingNewer ==
    \A h \in Hosts :
        /\ \A w \in Managers : sync[w].machine[h] <= nico[h].machine
        /\ bmh[h] # None => bmh[h].machine <= nico[h].machine

\* A sync that is alone is not behind the objects it has still to write.
AloneUpToDate ==
    ~overlap => \A w \in Managers : sync[w].pc # "idle" =>
        /\ \A v \in Managers \ {w} : sync[v].pc = "idle"
        /\ \A h \in sync[w].todo :
            bmh[h] # None => bmh[h].machine <= sync[w].machine[h]

BInv ==
    /\ TypeOK /\ VersionsCounted /\ HostFirst /\ NoFirmwareWithoutHost
    /\ NothingNewer /\ AloneUpToDate

\* What NeverGoesBack says of a step.
NoStepBack ==
    \A h \in Hosts : bmh[h] # None /\ ~overlap => bmh'[h].machine >= bmh[h].machine

----------------------------------------------------------------------------
(* Types.                                                                  *)

LEMMA IdleType == Idle \in SyncType /\ Nothing \in Maps
  BY SyncAssumption DEF Idle, SyncType, Nothing, Maps, Versions

LEMMA WithFields ==
    ASSUME NEW s \in SyncType, NEW todo \in SUBSET Hosts,
           NEW machine \in Maps, NEW sku \in Maps, NEW fw \in Maps,
           NEW old \in SUBSET (Hosts \X {"bmh", "hfc"})
    PROVE  [s EXCEPT !.pc = "hosts", !.todo = todo, !.h = None, !.machine = machine,
                     !.sku = sku, !.fw = fw, !.old = old] \in SyncType
  BY DEF SyncType

\* What a sync has left to do once h is dealt with.
LEMMA RestOK ==
    ASSUME TypeOK, NEW w \in Managers, NEW h \in Hosts
    PROVE  /\ Rest(w, h) \in SyncType
           /\ Rest(w, h).pc \in {"idle", "hosts"}
           /\ Rest(w, h).pc # "idle" => \A k \in Rest(w, h).todo :
                /\ k \in sync[w].todo
                /\ Rest(w, h).machine[k] = sync[w].machine[k]
           /\ \A k \in Hosts : Rest(w, h).machine[k] <= sync[w].machine[k]
  <1> DEFINE s == sync[w]
             rest == s.todo \ {h}
             r == [s EXCEPT !.pc = "hosts", !.todo = rest, !.h = None,
                            !.machine[h] = 0, !.sku[h] = 0, !.fw[h] = 0,
                            !.old = {o \in @ : o[1] # h}]
  <1>0. s \in SyncType /\ MaxChanges \in Nat
    BY SyncAssumption DEF TypeOK
  <1>1. CASE rest = {}
    <2>1. Rest(w, h) = Idle
      BY <1>1 DEF Rest
    <2>2. Idle.pc = "idle" /\ \A k \in Hosts : Idle.machine[k] = 0
      BY DEF Idle, Nothing
    <2>3. \A k \in Hosts : s.machine[k] \in Nat
      BY <1>0 DEF SyncType, Maps, Versions
    <2> QED
      BY <2>1, <2>2, <2>3, IdleType
  <1>2. CASE rest # {}
    <2>1. Rest(w, h) = r
      BY <1>2 DEF Rest
    <2>2. /\ r.pc = "hosts" /\ r.todo = rest /\ r.h = None
          /\ r.machine = [s.machine EXCEPT ![h] = 0]
          /\ r.sku = [s.sku EXCEPT ![h] = 0]
          /\ r.fw = [s.fw EXCEPT ![h] = 0]
          /\ r.old = {o \in s.old : o[1] # h}
      BY <1>0 DEF SyncType
    <2>3. /\ s.machine \in Maps /\ s.sku \in Maps /\ s.fw \in Maps
          /\ s.todo \in SUBSET Hosts /\ s.old \in SUBSET (Hosts \X {"bmh", "hfc"})
      BY <1>0 DEF SyncType
    <2>4. r.machine \in Maps /\ r.sku \in Maps /\ r.fw \in Maps
      BY <1>0, <2>2, <2>3 DEF Maps, Versions
    <2>5. r \in SyncType
      <3> DEFINE ma == [s.machine EXCEPT ![h] = 0]
                 sk == [s.sku EXCEPT ![h] = 0]
                 fi == [s.fw EXCEPT ![h] = 0]
                 ol == {o \in s.old : o[1] # h}
      <3>1. r = [s EXCEPT !.pc = "hosts", !.todo = rest, !.h = None, !.machine = ma,
                          !.sku = sk, !.fw = fi, !.old = ol]
        BY <1>0 DEF SyncType
      <3>2. rest \in SUBSET Hosts /\ ol \in SUBSET (Hosts \X {"bmh", "hfc"})
        BY <2>3
      <3>3. ma \in Maps /\ sk \in Maps /\ fi \in Maps
        BY <2>2, <2>4
      <3> HIDE DEF r, rest, s, ma, sk, fi, ol
      <3> QED
        BY <1>0, <3>1, <3>2, <3>3, WithFields
    <2>6. \A k \in Hosts : /\ r.machine[k] <= s.machine[k]
                           /\ k # h => r.machine[k] = s.machine[k]
      BY <1>0, <2>2, <2>3 DEF Maps, Versions
    <2> QED
      BY <2>1, <2>2, <2>3, <2>5, <2>6
  <1> QED
    BY <1>1, <1>2

\* Two syncs that differ only in what others have written since.
Alike(a, b) == /\ a.pc = b.pc /\ a.todo = b.todo /\ a.h = b.h
               /\ a.machine = b.machine /\ a.sku = b.sku /\ a.fw = b.fw

LEMMA WrittenOK ==
    ASSUME TypeOK, NEW w, NEW h \in Hosts, NEW kind \in {"bmh", "hfc"},
           NEW next, Written(w, h, kind, next), w \in Managers => next \in SyncType
    PROVE  /\ sync' \in [Managers -> SyncType]
           /\ w \in Managers => sync'[w] = next
           /\ \A v \in Managers \ {w} : Alike(sync[v], sync'[v])
  <1>1. ASSUME NEW v \in Managers \ {w}
        PROVE  sync'[v] \in SyncType /\ Alike(sync[v], sync'[v])
    <2>1. sync[v] \in SyncType
      BY DEF TypeOK
    <2>2. \/ sync'[v] = sync[v]
          \/ sync'[v] = [sync[v] EXCEPT !.old = @ \cup {<<h, kind>>}]
      BY DEF Written
    <2>3. sync[v].old \cup {<<h, kind>>} \in SUBSET (Hosts \X {"bmh", "hfc"})
      BY <2>1 DEF SyncType
    <2> QED
      BY <2>1, <2>2, <2>3 DEF SyncType, Alike
  <1>2. w \in Managers => sync'[w] = next
    BY DEF Written
  <1>3. sync' = [v \in Managers |-> sync'[v]]
    BY DEF Written
  <1> QED
    BY <1>1, <1>2, <1>3

----------------------------------------------------------------------------
(* What the steps of a sync do to the invariant.                           *)

\* The object that a sync writes.
LEMMA DesiredOK ==
    ASSUME TypeOK, NEW w \in Managers, NEW h \in Hosts
    PROVE  /\ DesiredBMH(w, h) \in BMHType /\ DesiredBMH(w, h) # None
           /\ DesiredBMH(w, h).machine = sync[w].machine[h]
           /\ DesiredHFC(w, h) \in HFCType /\ DesiredHFC(w, h) # None
  <1>1. sync[w] \in SyncType
    BY DEF TypeOK
  <1>2. /\ sync[w].machine[h] \in Versions /\ sync[w].sku[h] \in Versions
        /\ sync[w].fw[h] \in Versions
    BY <1>1 DEF SyncType, Maps
  <1>3. DesiredBMH(w, h) \in BMHType /\ DesiredHFC(w, h) \in HFCType
    BY <1>2 DEF DesiredBMH, DesiredHFC, HardwareOf, BMHType, HFCType
  <1>4. DesiredBMH(w, h).machine = sync[w].machine[h]
    BY DEF DesiredBMH
  <1> QED
    BY <1>3, <1>4, NoneAssumption

LEMMA Numbers ==
    ASSUME TypeOK, NEW h \in Hosts
    PROVE  /\ MaxChanges \in Nat /\ changes \in Nat
           /\ nico[h].machine \in Nat /\ nico[h].sku \in Nat /\ nico[h].fw \in Nat
           /\ bmh[h] # None => bmh[h].machine \in Nat
           /\ \A w \in Managers : sync[w].machine[h] \in Nat
  <1>1. MaxChanges \in Nat /\ changes \in Nat
    BY SyncAssumption DEF TypeOK
  <1>2. nico[h] \in NicoType /\ (bmh[h] # None => bmh[h] \in BMHType)
    BY DEF TypeOK
  <1>3. ASSUME NEW w \in Managers PROVE sync[w].machine[h] \in Nat
    <2>1. sync[w] \in SyncType
      BY DEF TypeOK
    <2> QED
      BY <1>1, <2>1 DEF SyncType, Maps, Versions
  <1> QED
    BY <1>1, <1>2, <1>3 DEF NicoType, BMHType, Versions

\* A sync goes on, ends, or is cut short.  It may have written an object of a
\* host it still had to do, and others only see that their copies are old.
LEMMA SyncMoves ==
    ASSUME BInv, TypeOK', NEW w \in Managers, UNCHANGED <<nico, overlap, changes>>,
           \A v \in Managers \ {w} : Alike(sync[v], sync'[v]),
           \A k \in Hosts : sync'[w].machine[k] <= sync[w].machine[k],
           sync'[w].pc # "idle" =>
              /\ sync[w].pc # "idle"
              /\ \A k \in sync'[w].todo :
                   k \in sync[w].todo /\ sync'[w].machine[k] = sync[w].machine[k],
           sync'[w].pc \in FirmwareSteps =>
              sync'[w].h \in Hosts /\ bmh'[sync'[w].h] # None,
           \A k \in Hosts :
              \/ bmh'[k] = bmh[k]
              \/ /\ sync[w].pc # "idle" /\ k \in sync[w].todo
                 /\ bmh'[k] # None /\ bmh'[k].machine = sync[w].machine[k],
           \A k \in Hosts : hfc'[k] # None => hfc[k] # None \/ bmh[k] # None
    PROVE  BInv' /\ NoStepBack
  <1>0. TypeOK /\ \A k \in Hosts : bmh[k] # None => bmh'[k] # None
    BY DEF BInv
  <1>1. VersionsCounted'
    BY DEF BInv, VersionsCounted
  <1>2. HostFirst'
    <2>1. ASSUME NEW v \in Managers, sync'[v].pc \in FirmwareSteps
          PROVE  sync'[v].h \in Hosts /\ bmh'[sync'[v].h] # None
      BY <1>0, <2>1 DEF BInv, HostFirst, Alike
    <2> QED
      BY <2>1 DEF HostFirst
  <1>3. NoFirmwareWithoutHost'
    BY <1>0 DEF BInv, NoFirmwareWithoutHost
  <1>4. NothingNewer'
    <2>1. ASSUME NEW h \in Hosts, NEW v \in Managers
          PROVE  sync'[v].machine[h] <= nico'[h].machine
      <3>1. sync[v].machine[h] <= nico[h].machine /\ nico'[h].machine = nico[h].machine
        BY DEF BInv, NothingNewer
      <3>2. sync'[v].machine[h] <= sync[v].machine[h] \/ sync'[v].machine = sync[v].machine
        BY DEF Alike
      <3>3. sync'[v].machine[h] \in Nat
        <4>1. sync'[v] \in SyncType
          BY DEF TypeOK
        <4> QED
          BY <1>0, <4>1, Numbers DEF SyncType, Maps, Versions
      <3> QED
        BY <1>0, <3>1, <3>2, <3>3, Numbers
    <2>2. ASSUME NEW h \in Hosts, bmh'[h] # None
          PROVE  bmh'[h].machine <= nico'[h].machine
      BY <2>2 DEF BInv, NothingNewer
    <2> QED
      BY <2>1, <2>2 DEF NothingNewer
  <1>5. ASSUME ~overlap, NEW v \in Managers, sync'[v].pc # "idle"
        PROVE  /\ \A u \in Managers \ {v} : sync'[u].pc = "idle"
               /\ \A h \in sync'[v].todo :
                    bmh'[h] # None => bmh'[h].machine <= sync'[v].machine[h]
    <2>1. sync[v].pc # "idle"
      BY <1>5 DEF Alike
    <2>2. /\ \A u \in Managers \ {v} : sync[u].pc = "idle"
          /\ \A h \in sync[v].todo :
               bmh[h] # None => bmh[h].machine <= sync[v].machine[h]
      BY <1>5, <2>1 DEF BInv, AloneUpToDate
    <2>3. \A u \in Managers \ {v} : sync'[u].pc = "idle"
      BY <2>2 DEF Alike
    <2>4. ASSUME NEW h \in sync'[v].todo, bmh'[h] # None
          PROVE  bmh'[h].machine <= sync'[v].machine[h]
      <3>1. h \in sync[v].todo /\ sync'[v].machine[h] = sync[v].machine[h]
        BY <1>5 DEF Alike
      <3>2. h \in Hosts
        BY <1>0, <3>1 DEF TypeOK, SyncType
      <3>3. CASE bmh'[h] = bmh[h]
        BY <2>2, <2>4, <3>1, <3>3
      <3>4. CASE bmh'[h] # bmh[h]
        <4>1. sync[w].pc # "idle" /\ bmh'[h].machine = sync[w].machine[h]
          BY <3>2, <3>4
        <4>2. v = w
          BY <2>2, <4>1
        <4> QED
          BY <1>0, <3>1, <3>2, <4>1, <4>2, Numbers
      <3> QED
        BY <3>3, <3>4
    <2> QED
      BY <2>3, <2>4
  <1>6. AloneUpToDate'
    BY <1>5 DEF AloneUpToDate
  <1>7. NoStepBack
    <2>1. ASSUME NEW h \in Hosts, bmh[h] # None, ~overlap
          PROVE  bmh'[h].machine >= bmh[h].machine
      <3>1. CASE bmh'[h] = bmh[h]
        BY <1>0, <2>1, <3>1, Numbers
      <3>2. CASE bmh'[h] # bmh[h]
        <4>1. /\ sync[w].pc # "idle" /\ h \in sync[w].todo
              /\ bmh'[h].machine = sync[w].machine[h]
          BY <3>2
        <4>2. bmh[h].machine <= sync[w].machine[h]
          BY <2>1, <4>1 DEF BInv, AloneUpToDate
        <4> QED
          BY <1>0, <2>1, <4>1, <4>2, Numbers
      <3> QED
        BY <3>1, <3>2
    <2> QED
      BY <2>1 DEF NoStepBack
  <1> QED
    BY <1>1, <1>2, <1>3, <1>4, <1>6, <1>7 DEF BInv

----------------------------------------------------------------------------
(* Every action keeps the invariant, and takes no host back.               *)

LEMMA ListMachinesOK ==
    ASSUME BInv, NEW w \in Managers, ListMachines(w)
    PROVE  BInv' /\ NoStepBack
  <1> DEFINE s == [Idle EXCEPT !.pc = "maps", !.todo = {h \in Hosts : nico[h].listed},
                               !.machine = Listing(w)]
  <1> USE DEF objects, caches
  <1>0. /\ TypeOK /\ UNCHANGED <<nico, bmh, hfc, skus, valid, changes, faults>>
        /\ sync' = [sync EXCEPT ![w] = s]
        /\ overlap' = (overlap \/ \E v \in Managers \ {w} : sync[v].pc # "idle")
    BY DEF ListMachines, BInv
  <1>1. Listing(w) \in Maps
    BY <1>0 DEF Listing, Maps, TypeOK, NicoType
  <1>2. s \in SyncType /\ s.pc = "maps" /\ s.machine = Listing(w)
    BY <1>1, IdleType DEF SyncType
  <1> HIDE DEF s
  <1>3. sync'[w] = s /\ \A v \in Managers \ {w} : sync'[v] = sync[v]
    BY <1>0 DEF TypeOK
  <1>4. TypeOK'
    BY <1>0, <1>2 DEF TypeOK
  <1>5. VersionsCounted' /\ NoFirmwareWithoutHost'
    BY <1>0 DEF BInv, VersionsCounted, NoFirmwareWithoutHost
  <1>6. HostFirst'
    BY <1>0, <1>2, <1>3 DEF BInv, HostFirst, FirmwareSteps
  <1>7. \A h \in Hosts : s.machine[h] = nico[h].machine
    BY <1>2 DEF Listing
  <1>8. NothingNewer'
    BY <1>0, <1>3, <1>7, Numbers DEF BInv, NothingNewer
  <1>9. AloneUpToDate'
    <2> SUFFICES ASSUME ~overlap', NEW v \in Managers, sync'[v].pc # "idle"
                 PROVE  /\ \A u \in Managers \ {v} : sync'[u].pc = "idle"
                        /\ \A h \in sync'[v].todo :
                             bmh'[h] # None => bmh'[h].machine <= sync'[v].machine[h]
      BY DEF AloneUpToDate
    <2>1. v = w /\ \A u \in Managers \ {w} : sync[u].pc = "idle"
      BY <1>0, <1>3
    <2>2. ASSUME NEW h \in sync'[w].todo, bmh'[h] # None
          PROVE  bmh'[h].machine <= sync'[w].machine[h]
      <3>1. h \in Hosts
        BY <1>2, <1>3 DEF SyncType
      <3> QED
        BY <1>0, <1>3, <1>7, <2>2, <3>1 DEF BInv, NothingNewer
    <2> QED
      BY <1>3, <2>1, <2>2
  <1>10. NoStepBack
    BY <1>0, Numbers DEF NoStepBack
  <1> QED
    BY <1>4, <1>5, <1>6, <1>8, <1>9, <1>10 DEF BInv

LEMMA GetMapsOK ==
    ASSUME BInv, NEW w \in Managers, NEW a \in BOOLEAN, NEW b \in BOOLEAN,
           GetMaps(w, a, b), faults' \in 0..MaxFaults
    PROVE  BInv' /\ NoStepBack
  <1> USE DEF objects, caches
  <1>0. /\ TypeOK /\ sync[w] \in SyncType /\ sync[w].pc = "maps"
        /\ UNCHANGED <<nico, bmh, hfc, overlap, changes>>
    BY DEF BInv, TypeOK, GetMaps
  <1>a. \A f \in BOOLEAN : SkuMap(w, f) \in Maps /\ FirmwareMap(f) \in Maps
    <2>1. /\ [h \in Hosts |-> nico[h].sku] \in Maps
          /\ [h \in Hosts |-> nico[h].fw] \in Maps
      BY <1>0 DEF TypeOK, NicoType, Maps
    <2> QED
      BY <1>0, <2>1, IdleType DEF SkuMap, FirmwareMap, SkuCacheValid, TypeOK
  <1> DEFINE s == [sync[w] EXCEPT !.pc = "hosts", !.sku = SkuMap(w, a),
                                  !.fw = FirmwareMap(b)]
  <1>1. /\ s \in SyncType /\ s.pc = "hosts"
        /\ s.todo = sync[w].todo /\ s.machine = sync[w].machine
    BY <1>0, <1>a DEF SyncType
  <1>2. sync' = [sync EXCEPT ![w] = Idle] \/ sync' = [sync EXCEPT ![w] = s]
    BY <1>0 DEF GetMaps, TypeOK
  <1> HIDE DEF s
  <1>3. /\ sync'[w] = Idle \/ sync'[w] = s
        /\ \A v \in Managers \ {w} : sync'[v] = sync[v]
        /\ sync' \in [Managers -> SyncType]
    BY <1>0, <1>1, <1>2, IdleType DEF TypeOK
  <1>4. skus' \in [Managers -> {None} \cup Maps] /\ valid' \subseteq Managers
    BY <1>0, <1>a DEF GetMaps, TypeOK
  <1>5. TypeOK'
    BY <1>0, <1>3, <1>4 DEF TypeOK
  <1>6. Idle.pc = "idle" /\ \A k \in Hosts : Idle.machine[k] = 0
    BY DEF Idle, Nothing
  <1>7. \A k \in Hosts : sync'[w].machine[k] <= sync[w].machine[k]
    BY <1>0, <1>1, <1>3, <1>6, Numbers
  <1>8. sync'[w].pc \in {"idle", "hosts"}
    BY <1>1, <1>3, <1>6
  <1>9. sync'[w].pc # "idle" => /\ sync'[w].todo = sync[w].todo
                                /\ sync'[w].machine = sync[w].machine
    BY <1>1, <1>3, <1>6
  <1>10. \A v \in Managers \ {w} : Alike(sync[v], sync'[v])
    BY <1>3 DEF Alike
  <1> QED
    BY <1>0, <1>5, <1>7, <1>8, <1>9, <1>10, SyncMoves DEF FirmwareSteps

\* A host is given up, and nothing is written.
LEMMA DropOK ==
    ASSUME BInv, NEW w \in Managers, NEW h \in Hosts, sync[w].pc # "idle",
           sync' = [sync EXCEPT ![w] = AfterFailure(w, h)],
           UNCHANGED <<nico, objects, caches, overlap, changes>>,
           faults' \in 0..MaxFaults
    PROVE  BInv' /\ NoStepBack
  <1> USE DEF objects, caches
  <1>0. TypeOK
    BY DEF BInv
  <1>1. /\ sync'[w] = Rest(w, h)
        /\ \A v \in Managers \ {w} : sync'[v] = sync[v]
        /\ sync' \in [Managers -> SyncType]
    BY <1>0, RestOK DEF TypeOK, AfterFailure
  <1>2. TypeOK'
    BY <1>0, <1>1 DEF TypeOK
  <1>3. \A v \in Managers \ {w} : Alike(sync[v], sync'[v])
    BY <1>1 DEF Alike
  <1>4. sync'[w].pc \notin FirmwareSteps
    BY <1>0, <1>1, RestOK DEF FirmwareSteps
  <1> QED
    BY <1>0, <1>1, <1>2, <1>3, <1>4, RestOK, SyncMoves

LEMMA WriteBMHOK ==
    ASSUME BInv, NEW w \in Managers, NEW h \in Hosts, WriteBMH(w, h)
    PROVE  BInv' /\ NoStepBack
  <1> USE DEF objects, caches
  <1> DEFINE s == [sync[w] EXCEPT !.pc = "hfc", !.h = h]
             next == IF sync[w].fw[h] = 0 THEN Rest(w, h) ELSE s
  <1>0. /\ TypeOK /\ sync[w] \in SyncType /\ sync[w].pc = "hosts" /\ h \in sync[w].todo
        /\ UNCHANGED <<nico, hfc, skus, valid, overlap, changes, faults>>
        /\ bmh' = [bmh EXCEPT ![h] = DesiredBMH(w, h)]
        /\ Written(w, h, "bmh", next)
    BY DEF BInv, TypeOK, WriteBMH
  <1>1. /\ s \in SyncType /\ s.pc = "hfc" /\ s.h = h
        /\ s.todo = sync[w].todo /\ s.machine = sync[w].machine
    BY <1>0 DEF SyncType
  <1>2. next = Rest(w, h) \/ next = s
    OBVIOUS
  <1>3. next \in SyncType
    BY <1>0, <1>1, <1>2, RestOK
  <1> HIDE DEF next, s
  <1>4. /\ sync' \in [Managers -> SyncType] /\ sync'[w] = next
        /\ \A v \in Managers \ {w} : Alike(sync[v], sync'[v])
    BY <1>0, <1>3, WrittenOK
  <1>5. TypeOK'
    BY <1>0, <1>4, DesiredOK DEF TypeOK
  <1>6. \A k \in Hosts : sync'[w].machine[k] <= sync[w].machine[k]
    BY <1>0, <1>1, <1>2, <1>4, RestOK, Numbers
  <1>7. /\ bmh'[h] # None /\ bmh'[h].machine = sync[w].machine[h]
        /\ \A k \in Hosts \ {h} : bmh'[k] = bmh[k]
    BY <1>0, DesiredOK DEF TypeOK
  <1>8. sync'[w].pc # "idle" => \A k \in sync'[w].todo :
          k \in sync[w].todo /\ sync'[w].machine[k] = sync[w].machine[k]
    BY <1>0, <1>1, <1>2, <1>4, RestOK
  <1>9. sync'[w].pc \in FirmwareSteps => sync'[w].h = h
    BY <1>0, <1>1, <1>2, <1>4, RestOK DEF FirmwareSteps
  <1> QED
    BY <1>0, <1>4, <1>5, <1>6, <1>7, <1>8, <1>9, SyncMoves

LEMMA FirmwareOK ==
    ASSUME BInv, NEW w \in Managers, CreateHFC(w) \/ WriteHFCStatus(w)
    PROVE  BInv' /\ NoStepBack
  <1> USE DEF objects, caches
  <1>0. /\ TypeOK /\ sync[w] \in SyncType /\ sync[w].pc \in FirmwareSteps
        /\ UNCHANGED <<nico, bmh, skus, valid, overlap, changes, faults>>
    BY DEF BInv, TypeOK, CreateHFC, WriteHFCStatus, FirmwareSteps
  <1>1. PICK h \in Hosts : h = sync[w].h /\ bmh[h] # None
    BY <1>0 DEF BInv, HostFirst
  <1> DEFINE s == [sync[w] EXCEPT !.pc = "hfcStatus"]
             new == [machine |-> 0, fw |-> 0]
  <1>2. /\ s \in SyncType /\ s.pc = "hfcStatus" /\ s.h = h
        /\ s.todo = sync[w].todo /\ s.machine = sync[w].machine
    BY <1>0, <1>1 DEF SyncType
  <1>3. new \in HFCType
    BY SyncAssumption DEF HFCType, Versions
  <1>4. PICK next \in {Rest(w, h), s}, o \in HFCType :
          hfc' = [hfc EXCEPT ![h] = o] /\ Written(w, h, "hfc", next)
    <2>1. CASE CreateHFC(w)
      BY <1>1, <1>3, <2>1 DEF CreateHFC
    <2>2. CASE WriteHFCStatus(w)
      BY <1>0, <1>1, <2>2, DesiredOK DEF WriteHFCStatus
    <2> QED
      BY <2>1, <2>2
  <1> HIDE DEF s, new
  <1>5. next \in SyncType
    BY <1>0, <1>2, RestOK
  <1>6. /\ sync' \in [Managers -> SyncType] /\ sync'[w] = next
        /\ \A v \in Managers \ {w} : Alike(sync[v], sync'[v])
    BY <1>0, <1>4, <1>5, WrittenOK
  <1>7. TypeOK'
    BY <1>0, <1>4, <1>6 DEF TypeOK
  <1>8. \A k \in Hosts : sync'[w].machine[k] <= sync[w].machine[k]
    BY <1>0, <1>2, <1>6, RestOK, Numbers
  <1>9. sync'[w].pc # "idle" => \A k \in sync'[w].todo :
          k \in sync[w].todo /\ sync'[w].machine[k] = sync[w].machine[k]
    BY <1>0, <1>2, <1>6, RestOK
  <1>10. sync'[w].pc \in FirmwareSteps => sync'[w].h = h
    BY <1>0, <1>2, <1>6, RestOK DEF FirmwareSteps
  <1>11. \A k \in Hosts : hfc'[k] # None => hfc[k] # None \/ bmh[k] # None
    BY <1>0, <1>1, <1>4 DEF TypeOK
  <1>12. sync[w].pc # "idle"
    BY <1>0 DEF FirmwareSteps
  <1> QED
    BY <1>0, <1>1, <1>6, <1>7, <1>8, <1>9, <1>10, <1>11, <1>12, SyncMoves

LEMMA FailureOK ==
    ASSUME BInv, NEW w \in Managers,
           \/ CallFails(w) \/ Crash(w) \/ WriteHFCRefused(w)
           \/ \E h \in Hosts : WriteBMHRefused(w, h)
    PROVE  BInv' /\ NoStepBack
  <1> USE DEF objects, caches
  <1>a. TypeOK /\ sync[w] \in SyncType /\ faults \in 0..MaxFaults
    BY DEF BInv, TypeOK
  <1>b. faults' = faults \/ Spend
    BY DEF CallFails, Crash, WriteHFCRefused, WriteBMHRefused
  <1>0. TypeOK /\ sync[w] \in SyncType /\ faults' \in 0..MaxFaults
    BY <1>a, <1>b, SyncAssumption DEF Spend
  <1>1. CASE Crash(w)
    <2>1. /\ sync'[w] = Idle /\ \A v \in Managers \ {w} : sync'[v] = sync[v]
          /\ sync' \in [Managers -> SyncType]
          /\ UNCHANGED <<nico, bmh, hfc, overlap, changes>>
      BY <1>0, <1>1, IdleType DEF Crash, TypeOK
    <2>2. TypeOK'
      BY <1>0, <1>1, <2>1 DEF Crash, TypeOK
    <2>3. Idle.pc = "idle" /\ \A k \in Hosts : Idle.machine[k] = 0
      BY DEF Idle, Nothing
    <2>4. \A v \in Managers \ {w} : Alike(sync[v], sync'[v])
      BY <2>1 DEF Alike
    <2>5. \A k \in Hosts : sync'[w].machine[k] <= sync[w].machine[k]
      BY <1>0, <2>1, <2>3, Numbers
    <2> QED
      BY <2>1, <2>2, <2>3, <2>4, <2>5, SyncMoves DEF FirmwareSteps
  <1>2. CASE CallFails(w) /\ sync' = sync
    <2>1. UNCHANGED <<nico, bmh, hfc, sync, skus, valid, overlap, changes>>
      BY <1>2 DEF CallFails
    <2>2. TypeOK'
      BY <1>0, <2>1 DEF TypeOK
    <2>3. NoStepBack
      BY <1>0, <2>1, Numbers DEF NoStepBack
    <2> QED
      BY <2>1, <2>2, <2>3 DEF BInv, VersionsCounted, HostFirst,
         NoFirmwareWithoutHost, NothingNewer, AloneUpToDate
  <1>3. CASE /\ \/ CallFails(w) \/ WriteHFCRefused(w)
                \/ \E h \in Hosts : WriteBMHRefused(w, h)
             /\ sync' # sync
    <2>1. PICK h \in Hosts : /\ sync[w].pc # "idle"
                             /\ sync' = [sync EXCEPT ![w] = AfterFailure(w, h)]
      <3>1. sync[w].todo \subseteq Hosts
        BY <1>0 DEF SyncType
      <3>2. sync[w].pc \in FirmwareSteps => sync[w].h \in Hosts
        BY DEF BInv, HostFirst
      <3> QED
        BY <1>3, <3>1, <3>2 DEF CallFails, WriteHFCRefused, WriteBMHRefused,
           FirmwareSteps
    <2>2. UNCHANGED <<nico, objects, caches, overlap, changes>>
      BY <1>3 DEF CallFails, WriteHFCRefused, WriteBMHRefused
    <2> QED
      BY <1>0, <2>1, <2>2, DropOK
  <1>4. CASE /\ WriteHFCRefused(w) \/ \E h \in Hosts : WriteBMHRefused(w, h)
             /\ sync' = sync
    <2>1. /\ UNCHANGED <<nico, bmh, hfc, sync, skus, valid, overlap, changes, faults>>
      BY <1>4 DEF WriteHFCRefused, WriteBMHRefused
    <2>2. TypeOK'
      BY <1>0, <2>1 DEF TypeOK
    <2>3. NoStepBack
      BY <1>0, <2>1, Numbers DEF NoStepBack
    <2> QED
      BY <2>1, <2>2, <2>3 DEF BInv, VersionsCounted, HostFirst,
         NoFirmwareWithoutHost, NothingNewer, AloneUpToDate
  <1> QED
    BY <1>1, <1>2, <1>3, <1>4

LEMMA ForeignWriteOK ==
    ASSUME BInv, NEW h \in Hosts, ForeignWrite(h)
    PROVE  BInv' /\ NoStepBack
  <1> USE DEF objects, caches
  <1>0. /\ TypeOK /\ bmh[h] \in BMHType /\ faults' \in 0..MaxFaults
        /\ UNCHANGED <<nico, hfc, skus, valid, overlap, changes>>
        /\ bmh' = [bmh EXCEPT ![h].foreign = TRUE]
    BY SyncAssumption DEF BInv, TypeOK, ForeignWrite, Spend
  <1>1. /\ bmh'[h] \in BMHType /\ bmh'[h].machine = bmh[h].machine
        /\ \A k \in Hosts \ {h} : bmh'[k] = bmh[k]
    BY <1>0 DEF TypeOK, BMHType
  <1>2. /\ bmh'[h] # None /\ bmh[h] # None
    BY <1>0, <1>1, NoneAssumption
  <1>3. /\ sync' \in [Managers -> SyncType]
        /\ \A v \in Managers : Alike(sync[v], sync'[v])
    <2>1. None \notin Managers /\ Written(None, h, "bmh", Idle)
      BY NoneAssumption DEF ForeignWrite
    <2> QED
      BY <1>0, <2>1, WrittenOK
  <1>4. TypeOK'
    BY <1>0, <1>1, <1>3 DEF TypeOK
  <1>5. VersionsCounted' /\ NoFirmwareWithoutHost'
    BY <1>0, <1>1, <1>2 DEF BInv, VersionsCounted, NoFirmwareWithoutHost
  <1>6. HostFirst'
    BY <1>1, <1>2, <1>3 DEF BInv, HostFirst, Alike
  <1>7. NothingNewer'
    BY <1>0, <1>1, <1>2, <1>3 DEF BInv, NothingNewer, Alike
  <1>8. AloneUpToDate'
    <2>1. \A k \in Hosts : /\ bmh'[k] # None <=> bmh[k] # None
                           /\ bmh'[k].machine = bmh[k].machine
      BY <1>1, <1>2
    <2>2. \A v \in Managers : sync[v].todo \subseteq Hosts
      BY <1>0 DEF TypeOK, SyncType
    <2> QED
      BY <1>0, <1>3, <2>1, <2>2 DEF BInv, AloneUpToDate, Alike
  <1>9. NoStepBack
    BY <1>0, <1>1, Numbers DEF NoStepBack
  <1> QED
    BY <1>4, <1>5, <1>6, <1>7, <1>8, <1>9 DEF BInv

LEMMA NicoChangesOK ==
    ASSUME BInv, NEW h \in Hosts, NicoChanges(h)
    PROVE  BInv' /\ NoStepBack
  <1> USE DEF objects, caches
  <1>0. /\ TypeOK /\ nico[h] \in NicoType
        /\ MaxChanges \in Nat /\ changes \in 0..MaxChanges /\ changes < MaxChanges
        /\ changes' = changes + 1
        /\ UNCHANGED <<bmh, hfc, sync, skus, valid, overlap, faults>>
    BY SyncAssumption DEF BInv, TypeOK, NicoChanges
  <1>1. /\ nico[h].machine \in Nat /\ nico[h].machine <= changes + 1
        /\ nico[h].sku \in Nat /\ nico[h].sku <= changes + 1
        /\ nico[h].fw \in Nat /\ nico[h].fw <= changes + 1
    BY <1>0, Numbers DEF BInv, VersionsCounted
  <1>2. PICK new : /\ nico' = [nico EXCEPT ![h] = new]
                   /\ \/ new = [nico[h] EXCEPT !.machine = @ + 1]
                      \/ new = [nico[h] EXCEPT !.sku = @ + 1]
                      \/ new = [nico[h] EXCEPT !.fw = @ + 1]
                      \/ new = [nico[h] EXCEPT !.fw = 0]
                      \/ new = [nico[h] EXCEPT !.listed = ~@]
    BY <1>0 DEF NicoChanges, TypeOK
  <1>3. /\ new.machine \in {nico[h].machine, nico[h].machine + 1}
        /\ new.sku \in {nico[h].sku, nico[h].sku + 1}
        /\ new.fw \in {nico[h].fw, nico[h].fw + 1, 0}
    BY <1>0, <1>2 DEF NicoType
  <1>4. new \in NicoType
    <2>1. /\ nico[h].machine + 1 \in Versions /\ nico[h].sku + 1 \in Versions
          /\ nico[h].fw + 1 \in Versions /\ 0 \in Versions
      BY <1>0, <1>1 DEF Versions
    <2> QED
      BY <1>0, <1>2, <2>1 DEF NicoType
  <1>5. nico'[h] = new /\ \A k \in Hosts \ {h} : nico'[k] = nico[k]
    BY <1>0, <1>2 DEF TypeOK
  <1>6. TypeOK'
    BY <1>0, <1>2, <1>4 DEF TypeOK
  <1>7. VersionsCounted'
    <2>1. ASSUME NEW k \in Hosts
          PROVE  /\ nico'[k].machine <= changes' + 1
                 /\ nico'[k].sku <= changes' + 1
                 /\ nico'[k].fw <= changes' + 1
      <3>1. CASE k = h
        BY <1>0, <1>1, <1>3, <1>5, <3>1
      <3>2. CASE k # h
        BY <1>0, <1>5, <3>2, Numbers DEF BInv, VersionsCounted
      <3> QED
        BY <3>1, <3>2
    <2> QED
      BY <2>1 DEF VersionsCounted
  <1>8. HostFirst' /\ NoFirmwareWithoutHost' /\ AloneUpToDate'
    BY <1>0 DEF BInv, HostFirst, NoFirmwareWithoutHost, AloneUpToDate
  <1>9. NothingNewer'
    <2>1. ASSUME NEW k \in Hosts
          PROVE  /\ nico[k].machine \in Nat /\ nico'[k].machine \in Nat
                 /\ nico[k].machine <= nico'[k].machine
      BY <1>0, <1>1, <1>3, <1>5, Numbers
    <2> QED
      BY <1>0, <2>1, Numbers DEF BInv, NothingNewer
  <1>10. NoStepBack
    BY <1>0, Numbers DEF NoStepBack
  <1> QED
    BY <1>6, <1>7, <1>8, <1>9, <1>10 DEF BInv

\* Nothing happens but that a cache expires.
LEMMA QuietOK ==
    ASSUME BInv, UNCHANGED vars \/ \E w \in Managers : SkuCacheExpires(w)
    PROVE  BInv' /\ NoStepBack
  <1> USE DEF objects, caches
  <1>0. /\ TypeOK /\ UNCHANGED <<nico, bmh, hfc, sync, skus, overlap, changes, faults>>
        /\ valid' \subseteq Managers
    BY DEF BInv, TypeOK, vars, SkuCacheExpires
  <1>1. TypeOK'
    BY <1>0 DEF TypeOK
  <1>2. NoStepBack
    BY <1>0, Numbers DEF NoStepBack
  <1> QED
    BY <1>0, <1>1, <1>2 DEF BInv, VersionsCounted, HostFirst,
       NoFirmwareWithoutHost, NothingNewer, AloneUpToDate

LEMMA NextOK ==
    ASSUME BInv, [Next]_vars
    PROVE  BInv' /\ NoStepBack
  <1>1. ASSUME NEW w \in Managers, Step(w) PROVE BInv' /\ NoStepBack
    <2>1. CASE GetMaps(w, FALSE, FALSE) /\ UNCHANGED faults
      <3>1. faults' \in 0..MaxFaults
        BY <2>1 DEF BInv, TypeOK
      <3> QED
        BY <2>1, <3>1, GetMapsOK
    <2> QED
      BY <1>1, <2>1, ListMachinesOK, WriteBMHOK, FirmwareOK, FailureOK DEF Step
  <1>2. ASSUME NEW w \in Managers, Failure(w) PROVE BInv' /\ NoStepBack
    <2>1. CASE Spend /\ \E a, b \in BOOLEAN : (a \/ b) /\ GetMaps(w, a, b)
      <3>1. faults' \in 0..MaxFaults
        BY <2>1, SyncAssumption DEF BInv, TypeOK, Spend
      <3> QED
        BY <2>1, <3>1, GetMapsOK
    <2> QED
      BY <1>2, <2>1, FailureOK DEF Failure
  <1> QED
    BY <1>1, <1>2, ForeignWriteOK, NicoChangesOK, QuietOK DEF Next

LEMMA InitOK == Init => BInv
  <1> SUFFICES ASSUME Init PROVE BInv
    OBVIOUS
  <1>0. PICK fw \in {0, 1} :
          nico = [h \in Hosts |-> [listed |-> TRUE, machine |-> 1, sku |-> 1, fw |-> fw]]
    BY DEF Init
  <1>1. \A h \in Hosts : /\ nico[h].machine = 1 /\ nico[h].sku = 1
                         /\ nico[h].fw \in {0, 1}
    BY <1>0
  <1>2. Idle.pc = "idle" /\ \A k \in Hosts : Idle.machine[k] = 0
    BY DEF Idle, Nothing
  <1>3. \A w \in Managers : sync[w] = Idle
    BY DEF Init
  <1>4. TypeOK
    <2>1. nico \in [Hosts -> NicoType]
      BY <1>0, SyncAssumption DEF NicoType, Versions
    <2>2. 0 \in 0..MaxChanges /\ 0 \in 0..MaxFaults
      BY SyncAssumption
    <2>3. sync \in [Managers -> SyncType] /\ skus \in [Managers -> {None} \cup Maps]
      BY IdleType DEF Init
    <2>4. bmh \in [Hosts -> {None} \cup BMHType] /\ hfc \in [Hosts -> {None} \cup HFCType]
      BY DEF Init
    <2>5. valid \subseteq Managers /\ overlap \in BOOLEAN /\ changes = 0 /\ faults = 0
      BY DEF Init
    <2> QED
      BY <2>1, <2>2, <2>3, <2>4, <2>5 DEF TypeOK
  <1>5. VersionsCounted
    BY <1>1 DEF Init, VersionsCounted
  <1>6. NothingNewer
    BY <1>1, <1>2, <1>3 DEF Init, NothingNewer
  <1>7. HostFirst /\ NoFirmwareWithoutHost /\ AloneUpToDate
    BY <1>2, <1>3 DEF Init, HostFirst, NoFirmwareWithoutHost, AloneUpToDate,
       FirmwareSteps
  <1> QED
    BY <1>4, <1>5, <1>6, <1>7 DEF BInv

\* The inductive invariant: types and version counts, the host before its
\* firmware, nobody ahead of NICo, and a lone sync not behind the objects.
THEOREM SyncInvariance == Spec => []BInv
  <1>1. BInv /\ [Next]_vars => BInv'
    BY NextOK
  <1> QED
    BY <1>1, InitOK, PTL DEF Spec

\* A host's firmware object is never there without its BareMetalHost, for any
\* number of managers, hosts, failures and crashes (controller.go, syncMachine).
THEOREM FirmwareAfterHost == Spec => []NoFirmwareWithoutHost
  <1>1. BInv => NoFirmwareWithoutHost
    BY DEF BInv
  <1> QED
    BY <1>1, SyncInvariance, PTL

\* Without overlapping syncs, what a BareMetalHost says of its machine never
\* becomes older (controller.go, Start and sync).
THEOREM HostsNeverGoBack == Spec => NeverGoesBack
  <1>1. BInv /\ [Next]_vars =>
          [\A h \in Hosts : bmh[h] # None /\ ~overlap =>
             bmh'[h].machine >= bmh[h].machine]_vars
    BY NextOK DEF NoStepBack
  <1> QED
    BY <1>1, SyncInvariance, PTL DEF Spec, NeverGoesBack

============================================================================
