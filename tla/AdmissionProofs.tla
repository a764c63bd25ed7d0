-------------------------- MODULE AdmissionProofs --------------------------
(***************************************************************************)
(* Proofs about Admission for every set of provider specs and instances:   *)
(* ProviderIdNamesInstance, SpecKeepsPlace and OnlyRepointingForgets.      *)
(***************************************************************************)
EXTENDS Admission, TLAPS

Names == Seq(STRING) \cup {Empty}

InstanceType == [state: {"free", "running", "releasing", "gone"},
                 org: {None} \cup Names, tenant: Names, named: Names,
                 site: Sites \cup {None}]

TypeOK ==
    /\ hook \in BOOLEAN
    /\ life \in {"absent", "live", "deleting", "gone"}
    /\ fin \subseteq {"nico", "legacy"}
    /\ life # "absent" => spec \in Specs
    /\ iid \in Instances \cup {None}
    /\ inst \in [Instances -> InstanceType]
    /\ lapse \in BOOLEAN

\* An instance that was made has an organisation, and its spec named a site;
\* the one that the status records was made.
InstancesMade ==
    /\ \A i \in Instances : inst[i].state # "free" =>
        /\ inst[i].named \in Seq(STRING) /\ Len(inst[i].named) > 0
        /\ inst[i].org \in Seq(STRING) /\ Len(inst[i].org) > 0
    /\ iid # None => inst[iid].state # "free"

\* The provider ID p was formatted, by this release or an older one, from what
\* instance i of S was asked for with.
FormattedFrom(p, i, S) ==
    /\ S[i].state # "free"
    /\ \/ /\ p = Format(S[i].org, S[i].tenant, S[i].named, i)
          /\ S[i].tenant \in Seq(STRING) /\ Len(S[i].tenant) > 0
       \/ /\ p = LegacyFormat(S[i].org, S[i].named, i)
          /\ S[i].tenant = Empty

PidFormatted == pid # None => \E i \in Instances : FormattedFrom(pid, i, inst)

\* Before the Machine there is nothing.
Before == life = "absent" => iid = None /\ pid = None

\* Without a lapse the spec passed the webhook.
SpecPassed == life # "absent" /\ ~lapse => spec.value /\ spec.decodes

AInv ==
    /\ TypeOK /\ InstancesMade /\ PidFormatted /\ Before /\ SpecPassed
    /\ SpecKeepsPlace

----------------------------------------------------------------------------
(* Provider IDs.                                                           *)

\* The instance id is the last segment, whatever the names before it.
LEMMA FormatLast ==
    ASSUME NEW org \in Seq(STRING), NEW tenant \in Seq(STRING),
           NEW site \in Seq(STRING), NEW i
    PROVE  Last(Format(org, tenant, site, i).parts) = i
  BY DEF Format, Last

LEMMA LegacyFormatLast ==
    ASSUME NEW org \in Seq(STRING), NEW site \in Seq(STRING), NEW i
    PROVE  Last(LegacyFormat(org, site, i).parts) = i
  BY DEF LegacyFormat, Last

\* A name of one segment, and the sequences of such names.
LEMMA OneSegment ==
    ASSUME NEW n \in Seq(STRING), Len(n) = 1
    PROVE  \E x \in STRING : n = <<x>>
  <1>1. n[1] \in STRING
    OBVIOUS
  <1>2. n = <<n[1]>>
    OBVIOUS
  <1> QED
    BY <1>1, <1>2

LEMMA Listed ==
    ASSUME NEW S, NEW s \in Seq(S)
    PROVE  /\ Len(s) = 3 => s = <<s[1], s[2], s[3]>>
           /\ Len(s) = 4 => s = <<s[1], s[2], s[3], s[4]>>
  <1>1. Len(s) = 3 => s = <<s[1], s[2], s[3]>>
    OBVIOUS
  <1>2. Len(s) = 4 => s = <<s[1], s[2], s[3], s[4]>>
    OBVIOUS
  <1> QED
    BY <1>1, <1>2

LEMMA Appended ==
    ASSUME NEW S, NEW s \in Seq(S), NEW x \in S
    PROVE  /\ s \o <<x>> \in Seq(S) /\ Len(s \o <<x>>) = Len(s) + 1
           /\ \A k \in 1..Len(s) : (s \o <<x>>)[k] = s[k]
           /\ (s \o <<x>>)[Len(s) + 1] = x
  OBVIOUS

LEMMA Segments ==
    ASSUME NEW a, NEW b, NEW c, NEW i
    PROVE  /\ <<a>> \o <<b>> \o <<i>> = <<a, b, i>>
           /\ <<a>> \o <<b>> \o <<c>> \o <<i>> = <<a, b, c, i>>
  <1> DEFINE S == {a, b, c, i}
             s1 == <<a>>
             s2 == s1 \o <<b>>
             t == s2 \o <<i>>
             s3 == s2 \o <<c>>
             s4 == s3 \o <<i>>
  <1>0. a \in S /\ b \in S /\ c \in S /\ i \in S
    OBVIOUS
  <1>1. s1 \in Seq(S) /\ Len(s1) = 1 /\ s1[1] = a
    OBVIOUS
  <1> HIDE DEF S, s1
  <1>2. /\ s2 \in Seq(S) /\ Len(s2) = Len(s1) + 1
        /\ \A k \in 1..Len(s1) : s2[k] = s1[k]
        /\ s2[Len(s1) + 1] = b
    BY <1>0, <1>1, Appended
  <1> HIDE DEF s2
  <1>3. Len(s2) = 2 /\ s2[1] = a /\ s2[2] = b
    BY <1>1, <1>2
  <1>4. /\ t \in Seq(S) /\ Len(t) = Len(s2) + 1
        /\ \A k \in 1..Len(s2) : t[k] = s2[k]
        /\ t[Len(s2) + 1] = i
    BY <1>0, <1>2, Appended
  <1>5. /\ s3 \in Seq(S) /\ Len(s3) = Len(s2) + 1
        /\ \A k \in 1..Len(s2) : s3[k] = s2[k]
        /\ s3[Len(s2) + 1] = c
    BY <1>0, <1>2, Appended
  <1> HIDE DEF t, s3
  <1>6. Len(t) = 3 /\ t[1] = a /\ t[2] = b /\ t[3] = i
    BY <1>3, <1>4
  <1>7. Len(s3) = 3 /\ s3[1] = a /\ s3[2] = b /\ s3[3] = c
    BY <1>3, <1>5
  <1>8. /\ s4 \in Seq(S) /\ Len(s4) = Len(s3) + 1
        /\ \A k \in 1..Len(s3) : s4[k] = s3[k]
        /\ s4[Len(s3) + 1] = i
    BY <1>0, <1>5, Appended
  <1> HIDE DEF s4
  <1>9. Len(s4) = 4 /\ s4[1] = a /\ s4[2] = b /\ s4[3] = c /\ s4[4] = i
    BY <1>7, <1>8
  <1>10. t = <<a, b, i>>
    <2>1. t = <<t[1], t[2], t[3]>>
      BY <1>4, <1>6, Listed
    <2> QED
      BY <1>6, <2>1
  <1>11. s4 = <<a, b, c, i>>
    <2>1. s4 = <<s4[1], s4[2], s4[3], s4[4]>>
      BY <1>8, <1>9, Listed
    <2> QED
      BY <1>9, <2>1
  <1> QED
    BY <1>10, <1>11 DEF s1, s2, s3, s4, t

\* Parsing is the inverse of formatting, for names without a slash.
LEMMA ParseFormat ==
    ASSUME NEW org \in Seq(STRING), NEW tenant \in Seq(STRING),
           NEW site \in Seq(STRING), NEW i \in Instances,
           Len(org) = 1, Len(tenant) = 1, Len(site) = 1
    PROVE  LET p == ParseProviderID(Format(org, tenant, site, i)) IN
           /\ p # None /\ p.id = i
           /\ <<p.org>> = org /\ <<p.tenant>> = tenant /\ <<p.site>> = site
  <1>1. PICK a \in STRING, b \in STRING, c \in STRING :
          org = <<a>> /\ tenant = <<b>> /\ site = <<c>>
    BY OneSegment
  <1> DEFINE f == [prefix |-> "nico", parts |-> <<a, b, c, i>>]
             p == [org |-> a, tenant |-> b, site |-> c, id |-> i]
  <1>2. Format(org, tenant, site, i) = f
    BY <1>1, Segments DEF Format
  <1>3. ParseProviderID(f) = p
    BY DEF ParseProviderID, Last
  <1>4. p \in ParsedType
    BY DEF ParsedType
  <1>5. p # None
    BY <1>4, NoneAssumption
  <1>6. p.org = a /\ p.tenant = b /\ p.site = c /\ p.id = i
    OBVIOUS
  <1> HIDE DEF f, p
  <1> QED
    BY <1>1, <1>2, <1>3, <1>5, <1>6

LEMMA Joined ==
    ASSUME NEW S, NEW a \in Seq(S), NEW b \in Seq(S)
    PROVE  a \o b \in Seq(S) /\ Len(a \o b) = Len(a) + Len(b)
  OBVIOUS

LEMMA MoreThanFour ==
    ASSUME NEW a \in Nat, NEW b \in Nat, NEW c \in Nat, a > 0, b > 0, c > 0,
           ~(a = 1 /\ b = 1 /\ c = 1)
    PROVE  a + b + c + 1 \notin {3, 4}
  OBVIOUS

\* With a slash in any name there are too many segments.
LEMMA ParseSlash ==
    ASSUME NEW org \in Seq(STRING), NEW tenant \in Seq(STRING),
           NEW site \in Seq(STRING), NEW i,
           Len(org) > 0, Len(tenant) > 0, Len(site) > 0,
           ~(Len(org) = 1 /\ Len(tenant) = 1 /\ Len(site) = 1)
    PROVE  ParseProviderID(Format(org, tenant, site, i)) = None
  <1> DEFINE S == STRING \cup {i}
             ot == org \o tenant
             ots == ot \o site
             all == ots \o <<i>>
  <1>1. /\ org \in Seq(S) /\ tenant \in Seq(S) /\ site \in Seq(S)
        /\ i \in S
    OBVIOUS
  <1> HIDE DEF S
  <1>2. ot \in Seq(S) /\ Len(ot) = Len(org) + Len(tenant)
    BY <1>1, Joined
  <1> HIDE DEF ot
  <1>3. ots \in Seq(S) /\ Len(ots) = Len(ot) + Len(site)
    BY <1>1, <1>2, Joined
  <1> HIDE DEF ots
  <1>4. Len(all) = Len(ots) + 1
    BY <1>1, <1>3, Appended
  <1> HIDE DEF all
  <1>5. /\ Len(org) \in Nat /\ Len(tenant) \in Nat /\ Len(site) \in Nat
    OBVIOUS
  <1>6. Len(all) \notin {3, 4}
    BY <1>2, <1>3, <1>4, <1>5, MoreThanFour
  <1>7. Format(org, tenant, site, i).parts = all
    BY DEF Format, ot, ots, all
  <1> QED
    BY <1>6, <1>7 DEF ParseProviderID

LEMMA ParseLegacy ==
    ASSUME NEW org \in Seq(STRING), NEW site \in Seq(STRING), NEW i \in Instances,
           Len(org) = 1, Len(site) = 1
    PROVE  LET p == ParseProviderID(LegacyFormat(org, site, i)) IN
           /\ p # None /\ p.id = i
           /\ <<p.org>> = org /\ <<p.tenant>> = Empty /\ <<p.site>> = site
  <1>1. PICK a \in STRING, c \in STRING : org = <<a>> /\ site = <<c>>
    BY OneSegment
  <1> DEFINE f == [prefix |-> "nvidia-carbide", parts |-> <<a, c, i>>]
             p == [org |-> a, tenant |-> "", site |-> c, id |-> i]
  <1>2. LegacyFormat(org, site, i) = f
    BY <1>1, Segments DEF LegacyFormat
  <1>3. ParseProviderID(f) = p
    <2>1. /\ f.prefix = "nvidia-carbide" /\ f.parts = <<a, c, i>>
          /\ Len(f.parts) = 3 /\ Last(f.parts) = i
          /\ f.parts[1] = a /\ f.parts[Len(f.parts) - 1] = c
      BY DEF Last
    <2> HIDE DEF f
    <2> QED
      BY <2>1 DEF ParseProviderID
  <1>4. p \in ParsedType
    BY DEF ParsedType
  <1>5. p # None
    BY <1>4, NoneAssumption
  <1>6. p.org = a /\ p.tenant = "" /\ p.site = c /\ p.id = i
    OBVIOUS
  <1> HIDE DEF f, p
  <1> QED
    BY <1>1, <1>2, <1>3, <1>5, <1>6 DEF Empty

\* A provider ID that was formatted names its instance, or does not parse.
LEMMA FormattedNames == TypeOK /\ InstancesMade /\ PidFormatted => ProviderIdNamesInstance
  <1> DEFINE Named(p, i) ==
               /\ p.id = i
               /\ <<p.org>> = inst[i].org /\ <<p.tenant>> = inst[i].tenant
               /\ <<p.site>> = inst[i].named
             Slashless(i) == /\ Len(inst[i].org) = 1 /\ Len(inst[i].tenant) = 1
                             /\ Len(inst[i].named) = 1
  <1> SUFFICES ASSUME TypeOK, InstancesMade, PidFormatted, pid # None
               PROVE  LET i == Last(pid.parts)
                          p == ParseProviderID(pid) IN
                      /\ inst[i].state # "free"
                      /\ Slashless(i) => p # None /\ Named(p, i)
                      /\ pid.prefix = "nico" /\ p # None => Named(p, i)
    BY DEF ProviderIdNamesInstance
  <1>1. PICK i \in Instances : FormattedFrom(pid, i, inst)
    BY DEF PidFormatted
  <1>2. /\ inst[i].state # "free"
        /\ inst[i].org \in Seq(STRING) /\ Len(inst[i].org) > 0
        /\ inst[i].named \in Seq(STRING) /\ Len(inst[i].named) > 0
    BY <1>1 DEF InstancesMade, FormattedFrom
  <1>3. CASE /\ pid = Format(inst[i].org, inst[i].tenant, inst[i].named, i)
             /\ inst[i].tenant \in Seq(STRING) /\ Len(inst[i].tenant) > 0
    <2>1. Last(pid.parts) = i
      BY <1>2, <1>3, FormatLast
    <2>2. CASE Slashless(i)
      BY <1>2, <1>3, <2>1, <2>2, ParseFormat
    <2>3. CASE ~Slashless(i)
      <3>1. ParseProviderID(pid) = None
        BY <1>2, <1>3, <2>3, ParseSlash
      <3> QED
        BY <1>2, <2>1, <2>3, <3>1
    <2> QED
      BY <2>2, <2>3
  <1>4. CASE pid = LegacyFormat(inst[i].org, inst[i].named, i) /\ inst[i].tenant = Empty
    <2>1. Last(pid.parts) = i /\ pid.prefix # "nico"
      <3>1. Last(pid.parts) = i
        BY <1>2, <1>4, LegacyFormatLast
      <3>2. pid.prefix = "nvidia-carbide"
        BY <1>4 DEF LegacyFormat
      <3> QED
        BY <3>1, <3>2
    <2>2. ASSUME Slashless(i) PROVE ParseProviderID(pid) # None /\ Named(ParseProviderID(pid), i)
      BY <1>2, <1>4, <2>2, ParseLegacy
    <2> QED
      BY <1>2, <2>1, <2>2
  <1> QED
    BY <1>1, <1>3, <1>4 DEF FormattedFrom

----------------------------------------------------------------------------
(* Every action keeps the invariant, and forgets as it may.                *)

\* What OnlyRepointingForgets says of a step.
ForgetsRightly ==
    iid # None /\ iid' # iid /\ inst'[iid].state = "running"
        => spec.org # inst[iid].org

\* Instances keep what they were made with.
Kept(S, T) ==
    \A i \in Instances : S[i].state # "free" =>
        /\ T[i].state # "free"
        /\ T[i].org = S[i].org /\ T[i].tenant = S[i].tenant
        /\ T[i].named = S[i].named

LEMMA KeptOK ==
    ASSUME InstancesMade, PidFormatted, NEW T, Kept(inst, T), iid \in Instances \cup {None}
    PROVE  /\ pid # None => \E i \in Instances : FormattedFrom(pid, i, T)
           /\ iid # None => /\ T[iid].state # "free"
                            /\ T[iid].named = inst[iid].named
                            /\ T[iid].tenant = inst[iid].tenant
  BY DEF InstancesMade, PidFormatted, FormattedFrom, Kept

\* Instances change their states only, and the Machine stays as it is.
LEMMA StatesOK ==
    ASSUME AInv, inst' \in [Instances -> InstanceType], Kept(inst, inst'),
           \A i \in Instances : inst[i].state = "free" => inst'[i] = inst[i],
           UNCHANGED <<spec, lapse>>,
           hook' \in BOOLEAN, fin' \subseteq {"nico", "legacy"},
           life' \in {"absent", "live", "deleting", "gone"},
           life' = "absent" <=> life = "absent",
           UNCHANGED <<iid, pid>> \/ (iid' = None /\ pid' = None)
    PROVE  AInv'
  <1>0. TypeOK /\ InstancesMade /\ PidFormatted /\ iid \in Instances \cup {None}
    BY DEF AInv, TypeOK
  <1>1. TypeOK'
    BY <1>0 DEF TypeOK
  <1>2. /\ pid # None => \E i \in Instances : FormattedFrom(pid, i, inst')
        /\ iid # None => /\ inst'[iid].state # "free"
                         /\ inst'[iid].named = inst[iid].named
                         /\ inst'[iid].tenant = inst[iid].tenant
    BY <1>0, KeptOK
  <1>3. InstancesMade'
    BY <1>0, <1>2 DEF InstancesMade, Kept
  <1>4. PidFormatted'
    BY <1>2 DEF PidFormatted
  <1>5. Before' /\ SpecPassed'
    BY DEF AInv, Before, SpecPassed
  <1>6. SpecKeepsPlace'
    BY <1>2 DEF AInv, SpecKeepsPlace
  <1> QED
    BY <1>1, <1>3, <1>4, <1>5, <1>6 DEF AInv

LEMMA StoreOK ==
    ASSUME AInv, NEW s \in Specs, CreateMachine(s) \/ UpdateSpec(s)
    PROVE  AInv' /\ ForgetsRightly
  <1>0. /\ TypeOK /\ s \in SpecType /\ UNCHANGED <<hook, fin, iid, pid, zone, inst>>
        /\ life' \in {"live", "deleting"} /\ spec' = s
        /\ lapse' = (lapse \/ ~hook \/ ~s.value)
    BY SpecsAssumption DEF AInv, CreateMachine, UpdateSpec, Store
  <1>1. TypeOK'
    <2>1. lapse' \in BOOLEAN
      BY <1>0
    <2> QED
      BY <1>0, <2>1 DEF TypeOK
  <1>2. InstancesMade' /\ PidFormatted' /\ Before' /\ ForgetsRightly
    BY <1>0 DEF AInv, InstancesMade, PidFormatted, Before, ForgetsRightly
  <1>3. ASSUME ~lapse'
        PROVE  /\ ~lapse /\ s.value /\ s.decodes
               /\ life = "absent" \/ NotNicoSpec(s) \/ ValidateImmutableFields(spec, s)
    <2>1. ~lapse /\ hook /\ s.value
      BY <1>0, <1>3
    <2>2. CASE CreateMachine(s)
      BY <2>1, <2>2 DEF CreateMachine, Admitted, Handle
    <2>3. CASE UpdateSpec(s)
      <3>1. life # "absent" /\ Handle(spec, s)
        BY <2>1, <2>3 DEF UpdateSpec, Admitted
      <3>2. spec # None /\ spec.value /\ spec.decodes
        <4>1. spec \in SpecType
          BY <1>0, <3>1, SpecsAssumption DEF TypeOK
        <4>2. spec # None
          BY <4>1, NoneAssumption
        <4> QED
          BY <2>1, <3>1, <4>2 DEF AInv, SpecPassed
      <3> QED
        BY <2>1, <3>1, <3>2 DEF Handle
    <2> QED
      BY <2>2, <2>3
  <1>4. ASSUME ~lapse', life # "absent"
        PROVE  \/ NotNicoSpec(s)
               \/ /\ s.site = spec.site /\ s.tenant = spec.tenant
                  /\ NotNicoSpec(spec) => s.site = Empty /\ s.tenant = Empty
    BY <1>3, <1>4 DEF ValidateImmutableFields, NotNicoSpec
  <1>5. ASSUME ~lapse', life # "absent", NotNicoSpec(spec) PROVE NotNicoSpec(s)
    <2>1. CASE UpdateSpec(s)
      <3>1. Handle(spec, s) /\ s.value
        BY <1>0, <1>3, <1>5, <2>1 DEF UpdateSpec, Admitted
      <3>2. NotNicoSpec(s) \/ (s.site # Empty /\ s.tenant # Empty)
        BY <3>1 DEF Handle, ValidateProviderSpec
      <3> QED
        BY <1>4, <1>5, <3>2
    <2>2. CASE CreateMachine(s)
      BY <1>5, <2>2 DEF CreateMachine
    <2> QED
      BY <2>1, <2>2
  <1>6. SpecPassed'
    BY <1>0, <1>3 DEF SpecPassed
  <1>7. SpecKeepsPlace'
    <2> SUFFICES ASSUME ~lapse', iid # None
                 PROVE  \/ NotNicoSpec(s)
                        \/ s.site = inst[iid].named /\ s.tenant = inst[iid].tenant
      BY <1>0 DEF SpecKeepsPlace, NotNicoSpec
    <2>1. life # "absent" /\ ~lapse
      BY <1>3 DEF AInv, Before
    <2> QED
      BY <1>4, <1>5, <2>1 DEF AInv, SpecKeepsPlace
  <1> QED
    BY <1>1, <1>2, <1>6, <1>7 DEF AInv

LEMMA AdoptOK ==
    ASSUME AInv, NEW s \in Specs, NEW i \in Instances,
           NEW z \in Sites \cup {None}, AdoptMachine(s, i, z)
    PROVE  AInv' /\ ForgetsRightly
  <1> DEFINE new == [state |-> "running", org |-> s.org, tenant |-> Empty,
                     named |-> s.site, site |-> z]
  <1>0. /\ TypeOK /\ s \in SpecType /\ s.org # None /\ life = "absent" /\ ~hook
        /\ life' = "live" /\ fin' = {"legacy"} /\ iid' = i /\ spec' = s
        /\ pid' = LegacyFormat(s.org, s.site, i)
        /\ inst' = [inst EXCEPT ![i] = new]
        /\ lapse' = TRUE /\ UNCHANGED hook
    BY SpecsAssumption DEF AInv, AdoptMachine, Store
  <1>1. /\ s.org \in Seq(STRING) /\ Len(s.org) > 0
        /\ s.site \in Seq(STRING) /\ Len(s.site) > 0
    BY <1>0, SpecsAssumption DEF SpecType
  <1>2. new \in InstanceType
    BY <1>1 DEF InstanceType, Names
  <1>3. inst'[i] = new /\ \A j \in Instances \ {i} : inst'[j] = inst[j]
    BY <1>0 DEF TypeOK
  <1>4. TypeOK'
    BY <1>0, <1>2 DEF TypeOK
  <1>5. InstancesMade'
    BY <1>0, <1>1, <1>3 DEF AInv, InstancesMade
  <1>6. PidFormatted'
    <2>1. FormattedFrom(pid', i, inst')
      BY <1>0, <1>3 DEF FormattedFrom
    <2> QED
      BY <2>1 DEF PidFormatted
  <1>7. Before' /\ SpecPassed' /\ SpecKeepsPlace' /\ ForgetsRightly
    BY <1>0 DEF AInv, Before, SpecPassed, SpecKeepsPlace, ForgetsRightly
  <1> QED
    BY <1>4, <1>5, <1>6, <1>7 DEF AInv

LEMMA CreateOK ==
    ASSUME AInv, NEW i \in Instances, NEW z \in Sites \cup {None},
           CreateInstance(i, z)
    PROVE  AInv' /\ ForgetsRightly
  <1> DEFINE new == [state |-> "running", org |-> spec.org,
                     tenant |-> spec.tenant, named |-> spec.site, site |-> z]
  <1>0. /\ TypeOK /\ InstancesMade /\ PidFormatted /\ iid \in Instances \cup {None}
        /\ life = "live" /\ spec.org # None /\ ValidateProviderSpec(spec)
        /\ inst[i].state = "free"
        /\ iid # None => ~Found
        /\ inst' = [inst EXCEPT ![i] = new] /\ iid' = i
        /\ pid' \in {pid, Format(spec.org, spec.tenant, spec.site, i)}
        /\ UNCHANGED <<hook, life, fin, spec, lapse>>
    BY DEF AInv, TypeOK, CreateInstance, Reachable
  <1>1. spec \in Specs
    BY <1>0 DEF TypeOK
  <1>2. /\ spec.org \in Seq(STRING) /\ Len(spec.org) > 0
        /\ spec.site \in Seq(STRING) /\ Len(spec.site) > 0
        /\ spec.tenant \in Seq(STRING) /\ Len(spec.tenant) > 0
    BY <1>0, <1>1, SpecsAssumption DEF SpecType
  <1>3. new \in InstanceType
    BY <1>2 DEF InstanceType, Names
  <1>4. inst'[i] = new /\ \A j \in Instances \ {i} : inst'[j] = inst[j]
    BY <1>0 DEF TypeOK
  <1>5. TypeOK'
    BY <1>0, <1>3 DEF TypeOK
  <1>6. InstancesMade'
    BY <1>0, <1>2, <1>4, NoneAssumption DEF InstancesMade
  <1>7. PidFormatted'
    <2>1. Kept(inst, inst')
      BY <1>0, <1>4 DEF Kept
    <2>2. CASE pid' = pid
      BY <1>0, <2>1, <2>2, KeptOK DEF PidFormatted
    <2>3. CASE pid' = Format(spec.org, spec.tenant, spec.site, i)
      <3>1. FormattedFrom(pid', i, inst')
        BY <1>2, <1>4, <2>3 DEF FormattedFrom
      <3> QED
        BY <3>1 DEF PidFormatted
    <2> QED
      BY <1>0, <2>2, <2>3
  <1>8. Before' /\ SpecPassed'
    BY <1>0 DEF AInv, Before, SpecPassed
  <1>9. SpecKeepsPlace'
    BY <1>0, <1>4 DEF SpecKeepsPlace
  <1>10. ForgetsRightly
    <2> SUFFICES ASSUME iid # None, inst'[iid].state = "running"
                 PROVE  spec.org # inst[iid].org
      BY DEF ForgetsRightly
    <2>1. iid \in Instances /\ inst[iid].state # "free" /\ inst'[iid] = inst[iid]
      BY <1>0, <1>4 DEF InstancesMade
    <2> QED
      BY <1>0, <2>1 DEF Found
  <1> QED
    BY <1>5, <1>6, <1>7, <1>8, <1>9, <1>10 DEF AInv

LEMMA LabelsOK ==
    ASSUME AInv, UpdateLabels
    PROVE  AInv' /\ ForgetsRightly
  <1>0. /\ UNCHANGED <<hook, life, fin, spec, iid, pid, inst, lapse>>
        /\ life = "live" /\ iid # None
    BY DEF UpdateLabels
  <1>1. TypeOK' /\ InstancesMade' /\ PidFormatted' /\ Before' /\ ForgetsRightly
    BY <1>0 DEF AInv, TypeOK, InstancesMade, PidFormatted, Before, ForgetsRightly
  <1>2. SpecPassed' /\ SpecKeepsPlace'
    BY <1>0 DEF AInv, SpecPassed, SpecKeepsPlace
  <1> QED
    BY <1>1, <1>2 DEF AInv

\* An instance changes its state.
LEMMA StateChange ==
    ASSUME TypeOK, NEW i \in Instances, inst[i].state # "free",
           NEW st \in {"releasing", "gone"}, inst' = [inst EXCEPT ![i].state = st]
    PROVE  /\ inst' \in [Instances -> InstanceType] /\ Kept(inst, inst')
           /\ \A j \in Instances : inst[j].state = "free" => inst'[j] = inst[j]
           /\ inst'[i].state = st
  <1>1. inst[i] \in InstanceType
    BY DEF TypeOK
  <1>2. /\ inst'[i] = [inst[i] EXCEPT !.state = st]
        /\ \A j \in Instances \ {i} : inst'[j] = inst[j]
    BY DEF TypeOK
  <1>3. /\ inst'[i] \in InstanceType /\ inst'[i].state = st
        /\ inst'[i].org = inst[i].org /\ inst'[i].tenant = inst[i].tenant
        /\ inst'[i].named = inst[i].named
    BY <1>1, <1>2 DEF InstanceType
  <1>4. inst' \in [Instances -> InstanceType]
    BY <1>2, <1>3 DEF TypeOK
  <1> QED
    BY <1>2, <1>3, <1>4 DEF Kept

LEMMA DeleteOK ==
    ASSUME AInv, ReconcileDelete
    PROVE  AInv' /\ ForgetsRightly
  <1>0. /\ TypeOK /\ InstancesMade /\ iid \in Instances \cup {None}
        /\ life = "deleting" /\ inst' = Deprovisioned /\ UNCHANGED <<hook, spec, lapse>>
        /\ \/ life' = "gone" /\ fin' = {} /\ iid' = None /\ pid' = None
           \/ UNCHANGED <<life, fin, iid, pid>>
    BY DEF AInv, TypeOK, ReconcileDelete
  <1>1. CASE iid # None /\ Found
    <2>1. iid \in Instances /\ inst[iid].state # "free"
      BY <1>0, <1>1 DEF InstancesMade
    <2>2. inst' = [inst EXCEPT ![iid].state = "releasing"]
      BY <1>0, <1>1 DEF Deprovisioned
    <2>3. /\ inst' \in [Instances -> InstanceType] /\ Kept(inst, inst')
          /\ \A j \in Instances : inst[j].state = "free" => inst'[j] = inst[j]
          /\ inst'[iid].state = "releasing"
      <3>1. PICK i \in Instances : i = iid
        BY <2>1
      <3> QED
        BY <1>0, <2>1, <2>2, <3>1, StateChange
    <2>4. AInv'
      BY <1>0, <2>3, StatesOK DEF TypeOK
    <2> QED
      BY <2>3, <2>4 DEF ForgetsRightly
  <1>2. CASE ~(iid # None /\ Found)
    <2>1. inst' = inst
      BY <1>0, <1>2 DEF Deprovisioned
    <2>2. inst' \in [Instances -> InstanceType] /\ Kept(inst, inst')
      BY <1>0, <2>1 DEF TypeOK, Kept
    <2>3. AInv'
      BY <1>0, <2>1, <2>2, StatesOK DEF TypeOK
    <2> QED
      BY <1>2, <2>1, <2>3 DEF ForgetsRightly, Found
  <1> QED
    BY <1>1, <1>2

LEMMA QuietOK ==
    ASSUME AInv, \/ DeleteMachine \/ RestartManager \/ AddFinalizer \/ UNCHANGED vars
                 \/ \E i \in Instances : Depart(i)
    PROVE  AInv' /\ ForgetsRightly
  <1>0. /\ TypeOK /\ UNCHANGED <<spec, iid, pid, lapse>>
    BY DEF AInv, DeleteMachine, RestartManager, AddFinalizer, vars, Depart
  <1>1. /\ hook' \in BOOLEAN /\ fin' \subseteq {"nico", "legacy"}
        /\ life' \in {"absent", "live", "deleting", "gone"}
        /\ life' = "absent" <=> life = "absent"
    BY <1>0 DEF TypeOK, DeleteMachine, RestartManager, AddFinalizer, vars, Depart
  <1>2. /\ inst' \in [Instances -> InstanceType] /\ Kept(inst, inst')
        /\ \A j \in Instances : inst[j].state = "free" => inst'[j] = inst[j]
    <2>1. ASSUME NEW i \in Instances, Depart(i)
          PROVE  /\ inst' \in [Instances -> InstanceType] /\ Kept(inst, inst')
                 /\ \A j \in Instances : inst[j].state = "free" => inst'[j] = inst[j]
      <3>1. inst[i].state # "free" /\ inst' = [inst EXCEPT ![i].state = "gone"]
        BY <2>1 DEF Depart
      <3> QED
        BY <1>0, <3>1, StateChange
    <2>2. CASE ~\E i \in Instances : Depart(i)
      <3>1. inst' = inst
        BY <2>2 DEF DeleteMachine, RestartManager, AddFinalizer, vars
      <3> QED
        BY <1>0, <3>1 DEF TypeOK, Kept
    <2> QED
      BY <2>1, <2>2
  <1>3. AInv'
    BY <1>0, <1>1, <1>2, StatesOK
  <1> QED
    BY <1>0, <1>3 DEF ForgetsRightly

LEMMA NextOK ==
    ASSUME AInv, [Next]_vars
    PROVE  AInv' /\ ForgetsRightly
  BY StoreOK, AdoptOK, CreateOK, LabelsOK, DeleteOK, QuietOK DEF Next, Reconcile

LEMMA InitOK == Init => AInv
  <1> SUFFICES ASSUME Init PROVE AInv
    OBVIOUS
  <1>1. Unborn \in InstanceType /\ Unborn.state = "free"
    BY DEF Unborn, InstanceType, Names
  <1>2. TypeOK
    BY <1>1 DEF Init, TypeOK
  <1>3. InstancesMade /\ PidFormatted /\ Before /\ SpecPassed /\ SpecKeepsPlace
    BY <1>1 DEF Init, InstancesMade, PidFormatted, Before, SpecPassed, SpecKeepsPlace
  <1> QED
    BY <1>2, <1>3 DEF AInv

\* The inductive invariant: the provider ID was formatted from what an instance
\* that was made was asked for with, and without a lapse the spec has passed the
\* webhook and keeps the tenant and the site it asked with.
THEOREM AdmissionInvariance == Spec => []AInv
  <1>1. AInv /\ [Next]_vars => AInv'
    BY NextOK
  <1> QED
    BY <1>1, InitOK, PTL DEF Spec

\* For all names, of any number of segments: a provider ID, parsed, names its
\* instance, organisation, tenant and the site of the spec, or does not parse,
\* and it parses when no name has a slash (providerid.go; actuator.go, Create).
THEOREM ProviderIdParses == Spec => []ProviderIdNamesInstance
  <1>1. AInv => ProviderIdNamesInstance
    BY FormattedNames DEF AInv
  <1> QED
    BY <1>1, AdmissionInvariance, PTL

\* While the webhook sees every spec and none is empty, the spec keeps the
\* tenant and the site that the instance was asked for with (webhook.go, Handle).
THEOREM SpecStays == Spec => []SpecKeepsPlace
  <1>1. AInv => SpecKeepsPlace
    BY DEF AInv
  <1> QED
    BY <1>1, AdmissionInvariance, PTL

\* A running instance is forgotten only when the spec leads to another
\* organisation (actuator.go, getNicoClient, Exists and Delete).
THEOREM ForgetsOnlyRepointed == Spec => OnlyRepointingForgets
  <1>1. AInv /\ [Next]_vars =>
          [iid # None /\ iid' # iid /\ inst'[iid].state = "running"
             => spec.org # inst[iid].org]_vars
    BY NextOK DEF ForgetsRightly
  <1> QED
    BY <1>1, AdmissionInvariance, PTL DEF Spec, OnlyRepointingForgets

============================================================================
