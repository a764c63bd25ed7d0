------------------------------ MODULE BmhSync ------------------------------
(***************************************************************************)
(* The BareMetalHost synchronisation (pkg/controllers/baremetalhost): each *)
(* manager polls NICo and writes, host by host, a BareMetalHost and, when  *)
(* firmware is known, a HostFirmwareComponents object.  SKUs are cached.   *)
(*                                                                         *)
(* What NICo knows of a host is a version number for each of its sources:  *)
(* the machine itself, its SKU and its firmware report; 0 means that there *)
(* is no SKU or no report.  A version 0 in an object likewise.  Objects    *)
(* are read through the informer cache, which has caught up by the time a  *)
(* sync begins; a write from a copy that someone else's write has made     *)
(* old since is refused, as is creating what already exists.               *)
(***************************************************************************)
EXTENDS Naturals, FiniteSets

CONSTANTS
    Managers,    \* processes that synchronise
    Hosts,       \* machines NICo may list
    Broken,      \* hosts whose BareMetalHost the API server always refuses
    None,
    MaxChanges,  \* bound on changes in NICo
    MaxFaults    \* bound on failures, crashes and foreign writes

ASSUME SyncAssumption ==
    /\ Broken \subseteq Hosts
    /\ MaxChanges \in Nat
    /\ MaxFaults \in Nat

VARIABLES
    nico,     \* nico[h]: is h listed, and the versions NICo holds
    bmh,      \* the BareMetalHost of h, or None
    hfc,      \* the HostFirmwareComponents of h, or None
    sync,     \* the sync manager w is in the middle of
    skus,     \* skuCache of w: versions by host, or None
    valid,    \* managers whose skuCacheExpiry has not passed
    overlap,  \* history: have two syncs ever been under way at once?
    changes,
    faults

vars == <<nico, bmh, hfc, sync, skus, valid, overlap, changes, faults>>

objects == <<bmh, hfc>>
caches  == <<skus, valid>>

Versions == 0..(MaxChanges + 1)
Maps     == [Hosts -> Versions]

\* A map that knows of no host, also what a nil map answers.
Nothing == [h \in Hosts |-> 0]

\* The local variables of sync: the machines still to do, the answers of the
\* three calls, the host whose firmware is being written, and the objects that
\* others wrote since the sync began.
Idle == [pc |-> "idle", todo |-> {}, machine |-> Nothing, sku |-> Nothing,
         fw |-> Nothing, h |-> None, old |-> {}]

NicoType == [listed: BOOLEAN, machine: Versions, sku: Versions, fw: Versions]
BMHType  == [machine: Versions, sku: Versions, foreign: BOOLEAN]
HFCType  == [machine: Versions, fw: Versions]
SyncType == [pc: {"idle", "maps", "hosts", "hfc", "hfcStatus"},
             todo: SUBSET Hosts, machine: Maps, sku: Maps, fw: Maps,
             h: Hosts \cup {None}, old: SUBSET (Hosts \X {"bmh", "hfc"})]

ASSUME NoneAssumption ==
    None \notin Hosts \cup Managers \cup Maps \cup BMHType \cup HFCType

TypeOK ==
    /\ nico \in [Hosts -> NicoType]
    /\ bmh \in [Hosts -> {None} \cup BMHType]
    /\ hfc \in [Hosts -> {None} \cup HFCType]
    /\ sync \in [Managers -> SyncType]
    /\ skus \in [Managers -> {None} \cup Maps]
    /\ valid \subseteq Managers
    /\ overlap \in BOOLEAN
    /\ changes \in 0..MaxChanges
    /\ faults \in 0..MaxFaults

Init ==
    /\ \E fw \in {0, 1} :
        nico = [h \in Hosts |-> [listed |-> TRUE, machine |-> 1, sku |-> 1, fw |-> fw]]
    /\ bmh = [h \in Hosts |-> None]
    /\ hfc = [h \in Hosts |-> None]
    /\ sync = [w \in Managers |-> Idle]
    /\ skus = [w \in Managers |-> None]
    /\ valid = {}
    /\ overlap = FALSE
    /\ changes = 0
    /\ faults = 0

Spend ==
    /\ faults < MaxFaults
    /\ faults' = faults + 1

\* What remains of a sync once h is dealt with, whether written or not; what
\* the lists said of h is not needed any more.
Rest(w, h) ==
    LET rest == sync[w].todo \ {h} IN
    IF rest = {} THEN Idle
    ELSE [sync[w] EXCEPT !.pc = "hosts", !.todo = rest, !.h = None,
                         !.machine[h] = 0, !.sku[h] = 0, !.fw[h] = 0,
                         !.old = {o \in @ : o[1] # h}]

\* A write of h's object takes w's sync on to next, and makes the copies of
\* the syncs that still have h to do old.
Written(w, h, kind, next) ==
    sync' = [v \in Managers |->
                IF v = w THEN next
                ELSE IF h \in sync[v].todo
                THEN [sync[v] EXCEPT !.old = @ \cup {<<h, kind>>}]
                ELSE sync[v]]

----------------------------------------------------------------------------
(* sync: the three lists                                                   *)

\* Mutant: the machines are cached with the process, as the SKUs are.
Listing_Cached(w) ==
    [h \in Hosts |-> IF bmh[h] # None /\ skus[w] # None THEN 1 ELSE nico[h].machine]

Listing(w) == [h \in Hosts |-> nico[h].machine]

ListMachines(w) ==
    LET listed == {h \in Hosts : nico[h].listed} IN
    /\ sync[w].pc = "idle"
    /\ sync' = [sync EXCEPT ![w] = [Idle EXCEPT !.pc = "maps", !.todo = listed,
                                                !.machine = Listing(w)]]
    /\ overlap' = (overlap \/ \E v \in Managers \ {w} : sync[v].pc # "idle")
    /\ UNCHANGED <<nico, objects, caches, changes, faults>>

\* Mutant: what was once fetched is used for ever.
SkuCacheValid_Always(w) == skus[w] # None

SkuCacheValid(w) == skus[w] # None /\ w \in valid

\* What getSkuMap answers: the cache, or what NICo has; when that call fails
\* a nil map, although the cache may still hold an expired one.
SkuMap(w, fails) ==
    IF SkuCacheValid(w) THEN skus[w]
    ELSE IF fails THEN Nothing ELSE [h \in Hosts |-> nico[h].sku]

\* What getFirmwareMap answers: hosts without a report are not in it.
FirmwareMap(fails) == IF fails THEN Nothing ELSE [h \in Hosts |-> nico[h].fw]

\* getSkuMap and getFirmwareMap.  Their sources are independent, so nothing
\* that happens between the two calls can be told from something before.
GetMaps(w, skuFails, fwFails) ==
    /\ sync[w].pc = "maps"
    /\ skuFails => ~SkuCacheValid(w)
    /\ IF SkuCacheValid(w) \/ skuFails THEN UNCHANGED caches
       ELSE /\ skus' = [skus EXCEPT ![w] = SkuMap(w, FALSE)]
            /\ valid' = valid \cup {w}
    /\ sync' = [sync EXCEPT ![w] = IF @.todo = {} THEN Idle
                ELSE [@ EXCEPT !.pc = "hosts", !.sku = SkuMap(w, skuFails),
                               !.fw = FirmwareMap(fwFails)]]
    /\ UNCHANGED <<nico, objects, overlap, changes>>

----------------------------------------------------------------------------
(* syncMachine and syncFirmwareComponents                                  *)

\* buildHardwareDetails: CPUs, memory and storage are those of the SKU, and
\* missing without one.
HardwareOf(w, h) == sync[w].sku[h]

\* MachineToBaremetalHost: all of the object follows from the machine and its
\* SKU; annotations, labels and spec fields of others are overwritten.
DesiredBMH(w, h) ==
    [machine |-> sync[w].machine[h], sku |-> HardwareOf(w, h), foreign |-> FALSE]

\* FirmwareToHostFirmwareComponents: the reported versions, and those of BMC
\* and GPUs, which come with the machine.
DesiredHFC(w, h) == [machine |-> sync[w].machine[h], fw |-> sync[w].fw[h]]

WriteBMH(w, h) ==
    /\ sync[w].pc = "hosts"
    /\ h \in sync[w].todo \ Broken
    /\ bmh' = [bmh EXCEPT ![h] = DesiredBMH(w, h)]
    /\ Written(w, h, "bmh", IF sync[w].fw[h] = 0 THEN Rest(w, h)
                            ELSE [sync[w] EXCEPT !.pc = "hfc", !.h = h])
    /\ UNCHANGED <<nico, hfc, caches, overlap, changes, faults>>

\* Mutant: the error of one machine ends the sync.
AfterFailure_Aborts(w, h) == Idle

\* Mutant: firmware is written although the host was not.
AfterFailure_GoesOn(w, h) ==
    IF sync[w].pc # "hosts" \/ sync[w].fw[h] = 0 THEN Rest(w, h)
    ELSE [sync[w] EXCEPT !.pc = "hfc", !.h = h]

\* The error is logged, and the next machine gets its turn.
AfterFailure(w, h) == Rest(w, h)

\* Refused: the copy is old and the watch has not brought the new one, or the
\* object is not acceptable.
WriteBMHRefused(w, h) ==
    /\ sync[w].pc = "hosts"
    /\ h \in sync[w].todo
    /\ h \in Broken \/ <<h, "bmh">> \in sync[w].old
    /\ sync' = [sync EXCEPT ![w] = AfterFailure(w, h)]
    /\ UNCHANGED <<nico, objects, caches, overlap, changes, faults>>

\* Create keeps no status; the answer carries the resourceVersion on.
CreateHFC(w) ==
    LET h == sync[w].h IN
    /\ sync[w].pc = "hfc"
    /\ hfc[h] = None
    /\ hfc' = [hfc EXCEPT ![h] = [machine |-> 0, fw |-> 0]]
    /\ Written(w, h, "hfc", [sync[w] EXCEPT !.pc = "hfcStatus"])
    /\ UNCHANGED <<nico, bmh, caches, overlap, changes, faults>>

\* The status update, of an object found or of the one just created.
WriteHFCStatus(w) ==
    LET h == sync[w].h IN
    /\ \/ sync[w].pc = "hfc" /\ hfc[h] # None
       \/ sync[w].pc = "hfcStatus" /\ <<h, "hfc">> \notin sync[w].old
    /\ hfc' = [hfc EXCEPT ![h] = DesiredHFC(w, h)]
    /\ Written(w, h, "hfc", Rest(w, h))
    /\ UNCHANGED <<nico, bmh, caches, overlap, changes, faults>>

WriteHFCRefused(w) ==
    LET h == sync[w].h IN
    /\ sync[w].pc \in {"hfc", "hfcStatus"}
    /\ <<h, "hfc">> \in sync[w].old
    /\ sync' = [sync EXCEPT ![w] = AfterFailure(w, h)]
    /\ UNCHANGED <<nico, objects, caches, overlap, changes, faults>>

----------------------------------------------------------------------------
(* Failures and the passage of time                                        *)

\* A list of machines or a read or write of an object fails.
CallFails(w) ==
    /\ Spend
    /\ \/ sync[w].pc = "idle" /\ sync' = sync
       \/ /\ sync[w].pc = "hosts"
          /\ \E h \in sync[w].todo : sync' = [sync EXCEPT ![w] = AfterFailure(w, h)]
       \/ /\ sync[w].pc \in {"hfc", "hfcStatus"}
          /\ sync' = [sync EXCEPT ![w] = AfterFailure(w, sync[w].h)]
    /\ UNCHANGED <<nico, objects, caches, overlap, changes>>

\* The process starts again, with nothing cached but the objects as they are.
Crash(w) ==
    /\ Spend
    /\ sync' = [sync EXCEPT ![w] = Idle]
    /\ skus' = [skus EXCEPT ![w] = None]
    /\ valid' = valid \ {w}
    /\ UNCHANGED <<nico, objects, overlap, changes>>

SkuCacheExpires(w) ==
    /\ w \in valid
    /\ valid' = valid \ {w}
    /\ UNCHANGED <<nico, objects, sync, skus, overlap, changes, faults>>

\* The baremetal operator, or a user, sets something of its own.
ForeignWrite(h) ==
    /\ bmh[h] # None
    /\ Spend
    /\ bmh' = [bmh EXCEPT ![h].foreign = TRUE]
    /\ Written(None, h, "bmh", Idle)
    /\ UNCHANGED <<nico, hfc, caches, overlap, changes>>

\* NICo learns something new of a host, or lists it no longer, or again.  Of
\* the hosts in Broken nothing is ever written, so what changes is not seen.
NicoChanges(h) ==
    /\ changes < MaxChanges
    /\ changes' = changes + 1
    /\ \/ nico' = [nico EXCEPT ![h].machine = @ + 1]
       \/ nico' = [nico EXCEPT ![h].sku = @ + 1]
       \/ nico' = [nico EXCEPT ![h].fw = @ + 1]
       \/ nico[h].fw # 0 /\ nico' = [nico EXCEPT ![h].fw = 0]
       \/ nico' = [nico EXCEPT ![h].listed = ~@]
    /\ UNCHANGED <<objects, sync, caches, overlap, faults>>

----------------------------------------------------------------------------
Step(w) ==
    \/ ListMachines(w)
    \/ GetMaps(w, FALSE, FALSE) /\ UNCHANGED faults
    \/ \E h \in Hosts : WriteBMH(w, h) \/ WriteBMHRefused(w, h)
    \/ CreateHFC(w) \/ WriteHFCStatus(w) \/ WriteHFCRefused(w)

Failure(w) ==
    \/ Spend /\ \E skuFails, fwFails \in BOOLEAN :
                    (skuFails \/ fwFails) /\ GetMaps(w, skuFails, fwFails)
    \/ CallFails(w)
    \/ Crash(w)

Next ==
    \/ \E w \in Managers :
        Step(w) \/ Failure(w) \/ SkuCacheExpires(w)
    \/ \E h \in Hosts \ Broken : ForeignWrite(h) \/ NicoChanges(h)

Spec == Init /\ [][Next]_vars

\* The ticker fires, calls return and time passes.
FairSpec ==
    /\ Spec
    /\ \A w \in Managers : WF_vars(Step(w)) /\ WF_vars(SkuCacheExpires(w))

----------------------------------------------------------------------------
\* Firmware is published only for hosts that are: of a host's two objects the
\* second is never there without the first (controller.go, syncMachine).
NoFirmwareWithoutHost == \A h \in Hosts : hfc[h] # None => bmh[h] # None

\* What a BareMetalHost says of its machine never becomes older, unless syncs
\* of two managers have overlapped (controller.go, Start and sync).
NeverGoesBack ==
    [][\A h \in Hosts : bmh[h] # None /\ ~overlap =>
        bmh'[h].machine >= bmh[h].machine]_vars

InSync(h) ==
    /\ bmh[h] = [machine |-> nico[h].machine, sku |-> nico[h].sku, foreign |-> FALSE]
    /\ nico[h].fw # 0 =>
        hfc[h] = [machine |-> nico[h].machine, fw |-> nico[h].fw]

\* Once NICo and the failures come to rest, the objects of every host listed
\* say what NICo says, for good: whatever was half written, read from an
\* expired cache or overwritten is made up for, and a host that cannot be
\* written does not keep the others from it (controller.go, sync).
HostsConverge == \A h \in Hosts \ Broken : <>[](nico[h].listed => InSync(h))

============================================================================
