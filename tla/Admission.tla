----------------------------- MODULE Admission -----------------------------
(***************************************************************************)
(* The validating webhook (MachineValidator) together with what depends on *)
(* the spec it guards: the finalizer, the instance of the Machine and its  *)
(* provider ID, over any sequence of changes of the providerSpec.          *)
(*                                                                         *)
(* One Machine.  The webhook sees every create and update of the Machine,  *)
(* those of the controller included, but not status updates.  It is off    *)
(* while the manager runs without certificates.  The interleavings and     *)
(* failures of the calls of a reconcile are the matter of                  *)
(* MachineController; here a reconcile happens at once.                    *)
(***************************************************************************)
EXTENDS Naturals, Sequences, SequencesExt

CONSTANTS
    Specs,      \* the providerSpecs users write
    Instances,  \* ids NICo hands out: UUIDs
    Sites,      \* sites as NICo names them in its answers
    None        \* absence of an id, an organisation, a site or an object

\* A name is the sequence of its segments: "a/b" is <<"a", "b">>, and the
\* empty string is <<"">>.
Empty == <<"">>

\* What matters of a providerSpec: is there a value, does it unmarshal; the
\* names of site and tenant; how much of vpcId and subnetId is given; how many
\* of instanceTypeId and machineId; are there more than ten additional
\* subnets; is every id that is given a UUID; and the organisation its
\* credentials secret leads to, None when there is no such secret.
SpecType == [value: BOOLEAN, decodes: BOOLEAN,
             site: Seq(STRING), tenant: Seq(STRING),
             net: {"none", "some", "all"}, choice: 0..2, crowded: BOOLEAN,
             uuids: BOOLEAN, org: {None} \cup Seq(STRING)]

\* Every name has a segment, and a UUID only one.  Nothing is assumed of the
\* organisation: the secret may say anything.
ASSUME SpecsAssumption == \A s \in Specs :
    /\ s \in SpecType
    /\ Len(s.site) > 0 /\ Len(s.tenant) > 0
    /\ s.org # None => Len(s.org) > 0
    /\ s.uuids => Len(s.site) = 1 /\ Len(s.tenant) = 1

\* The parts of a provider ID, once parsed; older ones have no tenant.
ParsedType == [org: STRING, tenant: STRING \cup {""}, site: STRING, id: Instances]

ASSUME NoneAssumption ==
    None \notin Instances \cup Sites \cup Seq(STRING) \cup SpecType \cup ParsedType

VARIABLES
    hook,   \* does the webhook answer?
    life,   \* "absent", "live", "deleting" or "gone"
    fin,    \* its finalizers, of this release or an older one
    spec,   \* its providerSpec
    iid,    \* status.instanceId
    pid,    \* spec.providerID
    zone,   \* the label topology.kubernetes.io/zone
    inst,   \* the instances, as NICo holds them
    lapse   \* history: was some spec stored without the webhook, or empty?

vars == <<hook, life, fin, spec, iid, pid, zone, inst, lapse>>

\* No value at all.
NoSpec == [value |-> FALSE, decodes |-> FALSE, site |-> Empty, tenant |-> Empty,
           net |-> "none", choice |-> 0, crowded |-> FALSE, uuids |-> FALSE,
           org |-> None]

\* An instance has the organisation and the tenant it was asked for with; named
\* is the site in the spec of that moment, site the one that NICo answers.
Unborn == [state |-> "free", org |-> None, tenant |-> Empty, named |-> Empty,
           site |-> None]

Init ==
    /\ hook \in BOOLEAN
    /\ life = "absent"
    /\ fin = {}
    /\ spec = NoSpec
    /\ iid = None
    /\ pid = None
    /\ zone = None
    /\ inst = [i \in Instances |-> Unborn]
    /\ lapse = FALSE

----------------------------------------------------------------------------
(* MachineValidator.Handle                                                 *)

\* No identifying field is set: a spec of some other provider.
NotNicoSpec(s) == /\ s.site = Empty /\ s.tenant = Empty
                  /\ s.net = "none" /\ s.choice = 0

ValidateProviderSpec(s) ==
    /\ s.choice = 1
    /\ s.site # Empty
    /\ s.tenant # Empty
    /\ s.net = "all"
    /\ ~s.crowded

ValidateUUIDs(s) == s.uuids

\* Mutant: the tenant may change.
ValidateImmutableFields_SiteOnly(old, new) == old.site = new.site

\* Mutant: the comparison mixes up the two fields.
ValidateImmutableFields_Swapped(old, new) == old.site = new.tenant

ValidateImmutableFields(old, new) ==
    /\ old.site = new.site
    /\ old.tenant = new.tenant

\* old is None when the Machine is created.
Handle(old, new) ==
    \/ ~new.value
    \/ /\ new.decodes
       /\ \/ NotNicoSpec(new)
          \/ /\ ValidateProviderSpec(new)
             /\ ValidateUUIDs(new)
             /\ old # None /\ old.value /\ old.decodes
                    => ValidateImmutableFields(old, new)

Admitted(old, new) == hook => Handle(old, new)

\* The controller writes the Machine with the spec as it is.
OwnWriteAdmitted == Admitted(spec, spec)

----------------------------------------------------------------------------
(* Provider IDs                                                            *)

\* ProviderID.String
Format(org, tenant, site, i) ==
    [prefix |-> "nico", parts |-> org \o tenant \o site \o <<i>>]

\* What older releases wrote.
LegacyFormat(org, site, i) ==
    [prefix |-> "nvidia-carbide", parts |-> org \o site \o <<i>>]

\* Mutant: the site is the second segment in both formats.
ParseProviderID_SiteSecond(p) ==
    IF Len(p.parts) \notin {3, 4} THEN None
    ELSE [org |-> p.parts[1],
          tenant |-> IF Len(p.parts) = 3 THEN "" ELSE p.parts[3],
          site |-> p.parts[2], id |-> Last(p.parts)]

\* None stands for an error; the id is always the last of 3 or 4 segments.
ParseProviderID(p) ==
    IF \/ p.prefix \notin {"nico", "nvidia-carbide"}
       \/ Len(p.parts) \notin {3, 4}
       \/ Last(p.parts) \notin Instances
    THEN None
    ELSE [org |-> p.parts[1],
          tenant |-> IF Len(p.parts) = 3 THEN "" ELSE p.parts[2],
          site |-> p.parts[Len(p.parts) - 1],
          id |-> Last(p.parts)]

----------------------------------------------------------------------------
(* Users                                                                   *)

\* Storing s is a lapse when the webhook does not see it, or sees no value.
Store(s) ==
    /\ spec' = s
    /\ lapse' = (lapse \/ ~hook \/ ~s.value)

CreateMachine(s) ==
    /\ life = "absent"
    /\ Admitted(None, s)
    /\ life' = "live"
    /\ Store(s)
    /\ UNCHANGED <<hook, fin, iid, pid, zone, inst>>

\* A Machine of an older release, with its finalizer, whose provider ID names
\* no tenant.
AdoptMachine(s, i, z) ==
    /\ life = "absent"
    /\ ~hook
    /\ s.value /\ s.decodes /\ s.org # None /\ s.site # Empty
    /\ life' = "live"
    /\ fin' = {"legacy"}
    /\ iid' = i
    /\ pid' = LegacyFormat(s.org, s.site, i)
    /\ inst' = [inst EXCEPT ![i] = [state |-> "running", org |-> s.org,
                                    tenant |-> Empty, named |-> s.site,
                                    site |-> z]]
    /\ Store(s)
    /\ UNCHANGED <<hook, zone>>

UpdateSpec(s) ==
    /\ life \in {"live", "deleting"}
    /\ s # spec
    /\ Admitted(spec, s)
    /\ Store(s)
    /\ UNCHANGED <<hook, life, fin, iid, pid, zone, inst>>

DeleteMachine ==
    /\ life = "live"
    /\ life' = IF fin = {} THEN "gone" ELSE "deleting"
    /\ UNCHANGED <<hook, fin, spec, iid, pid, zone, inst, lapse>>

\* The manager starts again and finds certificates, or does not.
RestartManager ==
    /\ hook' = ~hook
    /\ UNCHANGED <<life, fin, spec, iid, pid, zone, inst, lapse>>

----------------------------------------------------------------------------
(* Reconciles, whole                                                       *)

\* getProviderSpec succeeds.
Readable == spec.value /\ spec.decodes

\* getNicoClient too: there is a client for some organisation.
Reachable == Readable /\ spec.org # None

\* GetInstance finds the recorded instance, in the organisation asked.
Found == inst[iid].state \in {"running", "releasing"} /\ inst[iid].org = spec.org

AddFinalizer ==
    /\ life = "live"
    /\ "nico" \notin fin
    /\ OwnWriteAdmitted
    /\ fin' = fin \cup {"nico"}
    /\ UNCHANGED <<hook, life, spec, iid, pid, zone, inst, lapse>>

\* Create, because there is no instance id or NICo does not know it.  The
\* status is written without the webhook, then the provider ID with it, of
\* which the site is that of the spec.  The request names tenant, VPC and
\* subnets but no site: where the instance comes to run, and whether the answer
\* says so, is up to NICo.
CreateInstance(i, z) ==
    /\ life = "live" /\ "nico" \in fin
    /\ Reachable
    /\ iid # None => ~Found
    /\ ValidateProviderSpec(spec)
    /\ inst[i].state = "free"
    /\ inst' = [inst EXCEPT ![i] = [state |-> "running", org |-> spec.org,
                                    tenant |-> spec.tenant, named |-> spec.site,
                                    site |-> z]]
    /\ iid' = i
    /\ pid' = IF OwnWriteAdmitted
              THEN Format(spec.org, spec.tenant, spec.site, i) ELSE pid
    /\ UNCHANGED <<hook, life, fin, spec, zone, lapse>>

\* Mutant: a label that is there is kept.
ZoneLabel_Once == IF zone = None THEN inst[iid].site ELSE zone

\* The zone label follows the site in NICo's answer, and stays as it is when
\* there is none.
ZoneLabel == IF inst[iid].site = None THEN zone ELSE inst[iid].site

\* Update writes the Machine when its labels change, here that of the zone.
UpdateLabels ==
    /\ life = "live" /\ "nico" \in fin
    /\ Reachable
    /\ iid # None /\ Found
    /\ ZoneLabel # zone
    /\ OwnWriteAdmitted
    /\ zone' = ZoneLabel
    /\ UNCHANGED <<hook, life, fin, spec, iid, pid, inst, lapse>>

\* Mutant: a Machine without provider ID is taken to have no instance.
Deprovisioned_ByProviderID == IF pid # None /\ iid # None /\ Found
                              THEN [inst EXCEPT ![iid].state = "releasing"] ELSE inst

\* DeleteInstance; 404 counts as success.
Deprovisioned == IF iid # None /\ Found
                 THEN [inst EXCEPT ![iid].state = "releasing"] ELSE inst

\* Delete, then the finalizer goes, if the webhook lets it.
ReconcileDelete ==
    /\ life = "deleting"
    /\ Readable
    /\ iid # None => Reachable
    /\ inst' = Deprovisioned
    /\ IF OwnWriteAdmitted
       THEN life' = "gone" /\ fin' = {} /\ iid' = None /\ pid' = None
       ELSE UNCHANGED <<life, fin, iid, pid>>
    /\ UNCHANGED <<hook, spec, zone, lapse>>

\* NICo completes a release, or loses an instance.
Depart(i) ==
    /\ inst[i].state \in {"running", "releasing"}
    /\ inst' = [inst EXCEPT ![i].state = "gone"]
    /\ UNCHANGED <<hook, life, fin, spec, iid, pid, zone, lapse>>

Reconcile ==
    \/ AddFinalizer \/ UpdateLabels \/ ReconcileDelete
    \/ \E i \in Instances, z \in Sites \cup {None} : CreateInstance(i, z)

Next ==
    \/ \E s \in Specs : CreateMachine(s) \/ UpdateSpec(s)
    \/ \E s \in Specs, i \in Instances, z \in Sites \cup {None} : AdoptMachine(s, i, z)
    \/ DeleteMachine \/ RestartManager
    \/ Reconcile
    \/ \E i \in Instances : Depart(i)

Spec == Init /\ [][Next]_vars

\* The work queue serves the Machine; users and NICo promise nothing.
FairSpec == Spec /\ WF_vars(Reconcile)

----------------------------------------------------------------------------
\* A provider ID ends in the id of an instance that was made, after any changes
\* of the spec.  Parsed, it names that instance, its organisation and tenant,
\* and the site its spec named, or it does not parse: that it is taken apart in
\* the wrong places never happens, although nothing keeps a slash out of the
\* organisation, nor out of the ids while the webhook is off.  It parses when no
\* name has a slash.  Of the older format, without tenant, only the latter holds:
\* the part of an organisation after its slash would pass for a tenant
\* (providerid.go, String and ParseProviderID; actuator.go, Create).
ProviderIdNamesInstance ==
    pid # None =>
        LET i == Last(pid.parts)
            made == inst[i]
            p == ParseProviderID(pid)
            slashless == Len(made.org) = 1 /\ Len(made.tenant) = 1 /\ Len(made.named) = 1
            named == /\ p.id = i
                     /\ <<p.org>> = made.org /\ <<p.tenant>> = made.tenant
                     /\ <<p.site>> = made.named
        IN  /\ made.state # "free"
            /\ slashless => p # None /\ named
            /\ pid.prefix = "nico" /\ p # None => named

\* While the webhook sees every spec and none is empty, the spec keeps the
\* tenant and the site it had when the instance was asked for, which are those
\* in the provider ID, or becomes none of NICo's (webhook.go, Handle).  Where
\* NICo put the instance is another matter.
SpecKeepsPlace ==
    iid # None /\ ~lapse =>
        \/ NotNicoSpec(spec)
        \/ spec.site = inst[iid].named /\ spec.tenant = inst[iid].tenant

\* The zone label comes to name the site where NICo says the instance runs, also
\* after another instance was made at another site, unless NICo does not say,
\* the Machine or the instance goes, its spec no longer leads to it, or the
\* webhook refuses the spec (actuator.go, setTopologyLabels).
ZoneFollowsInstance ==
    []<>(\/ life # "live" \/ iid = None
         \/ ~Reachable \/ ~Found \/ ~OwnWriteAdmitted
         \/ inst[iid].site \in {zone, None})

\* A running instance is forgotten, with its Machine or for another one, only
\* when the spec leads to another organisation than the one it was made in
\* (actuator.go, getNicoClient, Exists and Delete).
OnlyRepointingForgets ==
    [][iid # None /\ iid' # iid /\ inst'[iid].state = "running"
        => spec.org # inst[iid].org]_vars

\* The webhook never holds back the removal of the finalizer from a Machine
\* whose spec it would accept: deletion completes, unless the spec becomes
\* unreadable or is one that the webhook refuses (webhook.go, Handle;
\* controller.go, reconcileDelete).
DeletionPassesWebhook ==
    life = "deleting" ~> \/ life = "gone"
                         \/ ~Readable \/ (iid # None /\ ~Reachable)
                         \/ hook /\ ~Handle(None, spec)

============================================================================
