------------------------- MODULE SplitHorizonProofs -------------------------
(***************************************************************************)
(* Theorems about SplitHorizon, for every set of names, records, hosts,    *)
(* settings and addresses, and any number of edits.                        *)
(*                                                                         *)
(* The inductive invariant is ServingInv, with the types of the bounds and *)
(* of the form (EditInv): the three files pass the validation together,    *)
(* and what serves was rendered from files that did.  All the rest is about*)
(* one such configuration: what Validate and the synthesis of the machine's*)
(* own records leave of the loaded ones (RecordsFit), how the recursion of *)
(* buildAnswers unfolds (Calls), and that it follows an alias chain to its *)
(* end exactly when the chain has one (AddressAnswer).                     *)
(***************************************************************************)
EXTENDS SplitHorizon, CommonFacts

---------------------------------------------------------------------------
(* Looking through a list for the first that fits. *)

\* The least of a set of numbers is one of them.
LEMMA LeastOne ==
    ASSUME NEW I \in SUBSET Nat, I # {} PROVE Min(I) \in I
<1>1. PICK n \in I : \A m \in I : n <= m
  BY LeastNat
<1>2. \E x \in I : \A y \in I : x =< y
  BY <1>1
<1> QED
  BY <1>2 DEF Min

\* First gives one that fits if there is any.
LEMMA FirstFound ==
    ASSUME NEW s, s \in Seq(ToSet(s)), NEW good
    PROVE  /\ ToSet(s) \cap good # {} => First(s, good) \in ToSet(s) \cap good
           /\ ToSet(s) \cap good = {} => First(s, good) = NoValue
<1> DEFINE I == {i \in 1..Len(s) : s[i] \in good}
           k == SelectInSeq(s, LAMBDA ip : ip \in good)
<1>1. Len(s) \in Nat /\ DOMAIN s = 1..Len(s)
  OBVIOUS
<1>2. k = IF I # {} THEN Min(I) ELSE 0
  BY DEF SelectInSeq
<1>3. First(s, good) = IF k = 0 THEN NoValue ELSE s[k]
  BY DEF First
<1> HIDE DEF k
<1>4. ASSUME ToSet(s) \cap good # {} PROVE First(s, good) \in ToSet(s) \cap good
  <2>1. I # {} /\ I \in SUBSET Nat
    BY <1>1, <1>4 DEF ToSet
  <2>2. k \in I
    BY <1>2, <2>1, LeastOne
  <2> QED
    BY <1>1, <1>3, <2>2 DEF ToSet
<1>5. ASSUME ToSet(s) \cap good = {} PROVE First(s, good) = NoValue
  <2>1. I = {}
    BY <1>1, <1>5 DEF ToSet
  <2> QED
    BY <1>2, <1>3, <2>1
<1> QED
  BY <1>4, <1>5

\* Table.Lookup finds a VLAN with the address if there is one.
LEMMA LookupFound ==
    ASSUME NEW vs, vs \in Seq(ToSet(vs)), NEW ip
    PROVE  LET Holds(i) == \E net \in vs[i].cidrs : ip \in net.holds
           IN  /\ (\E i \in DOMAIN vs : Holds(i)) =>
                     \E i \in DOMAIN vs : Holds(i) /\ Lookup(vs, ip) = vs[i].name
               /\ (~\E i \in DOMAIN vs : Holds(i)) => Lookup(vs, ip) = NoValue
<1> DEFINE Holds(i) == \E net \in vs[i].cidrs : ip \in net.holds
           I == {i \in 1..Len(vs) : Holds(i)}
           k == SelectInSeq(vs, LAMBDA v : \E net \in v.cidrs : InNet(net, ip))
<1>1. Len(vs) \in Nat /\ DOMAIN vs = 1..Len(vs)
  OBVIOUS
<1>2. k = IF I # {} THEN Min(I) ELSE 0
  BY DEF SelectInSeq, InNet
<1>3. Lookup(vs, ip) = IF k = 0 THEN NoValue ELSE vs[k].name
  BY DEF Lookup
<1> HIDE DEF k
<1>4. ASSUME NEW i \in DOMAIN vs, Holds(i)
      PROVE  \E j \in DOMAIN vs : Holds(j) /\ Lookup(vs, ip) = vs[j].name
  <2>1. I # {} /\ I \in SUBSET Nat
    BY <1>1, <1>4
  <2>2. k \in I
    BY <1>2, <2>1, LeastOne
  <2> QED
    BY <1>1, <1>3, <2>2
<1>5. ASSUME ~\E i \in DOMAIN vs : Holds(i) PROVE Lookup(vs, ip) = NoValue
  <2>1. I = {}
    BY <1>1, <1>5
  <2> QED
    BY <1>2, <1>3, <2>1
<1> QED
  BY <1>4, <1>5

\* The VLANs of settings, as the proofs use them.
LEMMA ShapedVlans ==
    ASSUME NEW s, SettingsShaped(s)
    PROVE  s.vlans \in Seq(ToSet(s.vlans)) /\ \A v \in ToSet(s.vlans) : v.cidrs \subseteq Nets
<1> DEFINE vs == s.vlans
<1>1. vs \in Seq(VlanPool)
  BY DEF SettingsShaped, VlanTables
<1>2. Len(vs) \in Nat /\ vs \in [1..Len(vs) -> ToSet(vs)] /\ ToSet(vs) \subseteq VlanPool
  BY <1>1 DEF ToSet
<1>3. vs \in Seq(ToSet(vs))
  BY <1>2, SeqDef
<1> QED
  BY <1>2, <1>3 DEF Nets

\* The VLANs of a valid configuration do not overlap, so the first that holds an
\* address is the only one.
LEMMA OneHorizon ==
    ASSUME NEW c, SettingsShaped(c.settings), ValidVLANs(c.settings.vlans), NEW ip
    PROVE  Lookup(c.settings.vlans, ip) = Horizon(c, ip)
<1> DEFINE vs == c.settings.vlans
           Holds(i) == \E net \in vs[i].cidrs : ip \in net.holds
           in == {v \in {vs[i] : i \in DOMAIN vs} : \E net \in v.cidrs : ip \in net.holds}
<1>1. vs \in Seq(ToSet(vs)) /\ \A i \in DOMAIN vs : vs[i].cidrs \subseteq Nets
  BY ShapedVlans DEF ToSet
<1>2. ASSUME NEW i \in DOMAIN vs, NEW j \in DOMAIN vs, Holds(i), Holds(j) PROVE i = j
  <2>1. PICK a \in vs[i].cidrs : ip \in a.holds
    BY <1>2
  <2>2. PICK b \in vs[j].cidrs : ip \in b.holds
    BY <1>2
  <2>3. NetsOverlap(a, b)
    BY <1>1, <2>1, <2>2, PoolsAssumption
  <2>4. <<i, a>> = <<j, b>>
    BY <2>3 DEF ValidVLANs
  <2> QED
    BY <2>4
<1>3. CASE ~\E i \in DOMAIN vs : Holds(i)
  <2>1. in = {}
    BY <1>3
  <2> QED
    BY <1>1, <1>3, <2>1, LookupFound DEF Horizon
<1>4. CASE \E i \in DOMAIN vs : Holds(i)
  <2>1. PICK i \in DOMAIN vs : Holds(i) /\ Lookup(vs, ip) = vs[i].name
    BY <1>1, <1>4, LookupFound
  <2>2. in = {vs[i]}
    BY <1>2, <2>1
  <2>3. Horizon(c, ip) = vs[i].name
    BY <2>2 DEF Horizon
  <2> QED
    BY <2>1, <2>3
<1> QED
  BY <1>3, <1>4

---------------------------------------------------------------------------
(* The edits: what is on disk and what serves. *)

\* TypeOK's part about the bounds.
UsedTyped == used \in [edits : 0 .. MaxEdits, faults : 0 .. MaxFaults]

\* A step spends one of the bound.
LEMMA Spent == ASSUME UsedTyped, Spend PROVE UsedTyped'
<1>1. used.edits \in 0 .. MaxEdits /\ used.edits < MaxEdits /\ MaxEdits \in Nat
  BY BoundsAssumption DEF UsedTyped, Spend
<1>2. used' = [used EXCEPT !.edits = used.edits + 1]
  BY DEF Spend
<1>3. used.edits + 1 \in 0 .. MaxEdits
  BY <1>1
<1> QED
  BY <1>2, <1>3 DEF UsedTyped

\* Nothing but the table, the bounds and the form moves.
LEMMA Untouched ==
    ASSUME ServingInv, UNCHANGED <<disk, live>>, vlans' \in VlanTables
    PROVE  ServingInv'
BY DEF ServingInv, ServesOneConfiguration

\* Whatever is submitted, only a configuration that renders is saved, and only
\* one that was saved is served.
LEMMA Applied ==
    ASSUME ServingInv, UsedTyped, addrs \in AddrsPool, NEW c, ConfigShaped(c), Apply(c)
    PROVE  ServingInv' /\ UsedTyped' /\ addrs' = addrs
<1>1. /\ addrs' = addrs /\ used.edits < MaxEdits
      /\ vlans' = c.settings.vlans /\ vlans' \in VlanTables
  BY DEF Apply, SetCurrent, ConfigShaped, SettingsShaped
<1>2. CASE ~Renders(c, addrs)
  <2>1. Spend /\ UNCHANGED <<disk, live>>
    BY <1>2 DEF Apply
  <2> QED
    BY <1>1, <2>1, Spent, Untouched
<1>3. CASE Renders(c, addrs)
  <2>1. /\ disk' = c
        /\ \/ Spend /\ live' = Instance(c, addrs, vlans')
           \/ /\ used.faults < MaxFaults
              /\ used' = [edits |-> used.edits + 1, faults |-> used.faults + 1]
              /\ live' = live
    BY <1>3 DEF Apply
  <2>2. Validate(c)
    BY <1>3 DEF Renders
  <2>3. UsedTyped'
    <3>1. CASE Spend
      BY <3>1, Spent
    <3>2. CASE /\ used.faults < MaxFaults
               /\ used' = [edits |-> used.edits + 1, faults |-> used.faults + 1]
      <4>1. used.edits + 1 \in 0 .. MaxEdits /\ used.faults + 1 \in 0 .. MaxFaults
        BY <1>1, <3>2, BoundsAssumption DEF UsedTyped
      <4> QED
        BY <3>2, <4>1 DEF UsedTyped
    <3> QED
      BY <2>1, <3>1, <3>2
  <2>4. /\ ConfigShaped(live'.config) /\ live'.addrs \in AddrsPool
        /\ live' = Instance(live'.config, live'.addrs, live'.vlans)
        /\ ServesOneConfiguration'
    <3>1. CASE live' = live
      BY <3>1 DEF ServingInv, ServesOneConfiguration
    <3>2. CASE live' = Instance(c, addrs, vlans')
      <4>1. live'.config = c /\ live'.addrs = addrs /\ live'.vlans = c.settings.vlans
        BY <1>1, <3>2 DEF Instance
      <4> QED
        BY <1>1, <1>3, <3>2, <4>1 DEF ServesOneConfiguration
    <3> QED
      BY <2>1, <3>1, <3>2
  <2>5. ServingInv'
    BY <1>1, <2>1, <2>2, <2>4 DEF ServingInv
  <2> QED
    BY <1>1, <2>3, <2>5
<1> QED
  BY <1>2, <1>3

\* A request that is refused.
LEMMA Refused ==
    ASSUME ServingInv, UsedTyped, Refuse PROVE ServingInv' /\ UsedTyped' /\ addrs' = addrs
<1>1. Spend /\ UNCHANGED <<disk, live, addrs, vlans>>
  BY DEF Refuse
<1> QED
  BY <1>1, Spent, Untouched DEF ServingInv

\* Other records, or other hosts, in the files.
LEMMA Edited ==
    ASSUME ServingInv
    PROVE  /\ \A rs : (\A r \in rs : r.name \in Names) => ConfigShaped(WithRecords(rs))
           /\ \A hs : hs \subseteq HostPool => ConfigShaped(WithHosts(hs))
<1>1. disk = [settings |-> disk.settings, records |-> disk.records, hosts |-> disk.hosts]
  BY DEF ServingInv, ConfigShaped
<1>2. ASSUME NEW rs, \A r \in rs : r.name \in Names PROVE ConfigShaped(WithRecords(rs))
  <2>1. WithRecords(rs) = [settings |-> disk.settings, records |-> rs, hosts |-> disk.hosts]
    BY <1>1 DEF WithRecords
  <2> QED
    BY <1>2, <2>1 DEF ServingInv, ConfigShaped
<1>3. ASSUME NEW hs, hs \subseteq HostPool PROVE ConfigShaped(WithHosts(hs))
  <2>1. WithHosts(hs) = [settings |-> disk.settings, records |-> disk.records, hosts |-> hs]
    BY <1>1 DEF WithHosts
  <2> QED
    BY <1>3, <2>1 DEF ServingInv, ConfigShaped
<1> QED
  BY <1>2, <1>3

\* Settings as they are submitted have their shape.
LEMMA Submitted == ASSUME NEW s \in Settings PROVE SettingsShaped(s)
<1>1. s = [s EXCEPT !.vlans = s.vlans] /\ s.vlans \in Seq(ToSet(s.vlans))
  BY PoolsAssumption
<1>2. ToSet(s.vlans) \subseteq VlanPool
  BY DEF VlanPool
<1>3. s.vlans \in VlanTables
  BY <1>1, <1>2, SeqMonotonic DEF VlanTables
<1> QED
  BY <1>1, <1>3 DEF SettingsShaped

\* Other settings.
LEMMA Resettled ==
    ASSUME ServingInv, NEW s, SettingsShaped(s)
    PROVE  ConfigShaped([disk EXCEPT !.settings = s])
<1>1. disk = [settings |-> disk.settings, records |-> disk.records, hosts |-> disk.hosts]
  BY DEF ServingInv, ConfigShaped
<1>2. [disk EXCEPT !.settings = s]
          = [settings |-> s, records |-> disk.records, hosts |-> disk.hosts]
  BY <1>1
<1> QED
  BY <1>2 DEF ServingInv, ConfigShaped

\* A VLAN the settings page suggests is a network of the machine.
LEMMA Suggested ==
    ASSUME ServingInv, addrs \in AddrsPool,
           NEW v \in Candidates(disk.settings.vlans, addrs)
    PROVE  ConfigShaped([disk EXCEPT !.settings.vlans = Append(@, v)])
<1> DEFINE s == disk.settings
           vs == s.vlans
           ws == Append(vs, v)
           t == [s EXCEPT !.vlans = ws]
<1>1. v \in VlanPool
  <2>1. PICK ip \in ToSet(addrs) : v = Suggestion(ip)
    BY DEF Candidates
  <2>2. ip \in DOMAIN NetOf
    BY <2>1, PoolsAssumption DEF ToSet
  <2>3. Suggestion(ip) \in {Suggestion(i) : i \in DOMAIN NetOf}
    BY <2>2
  <2>4. {Suggestion(i) : i \in DOMAIN NetOf} \subseteq VlanPool
    BY DEF VlanPool
  <2> QED
    BY <2>1, <2>3, <2>4
<1>2. vs \in Seq(VlanPool)
  BY DEF ServingInv, ConfigShaped, SettingsShaped, VlanTables
<1>3. ws \in VlanTables
  BY <1>1, <1>2 DEF VlanTables
<1> HIDE DEF ws
<1>4. PICK p \in Settings : s = [p EXCEPT !.vlans = vs]
  BY DEF ServingInv, ConfigShaped, SettingsShaped
<1>5. t = [p EXCEPT !.vlans = ws] /\ t.vlans = ws
  BY <1>4, PoolsAssumption
<1>6. SettingsShaped(t)
  BY <1>3, <1>5 DEF SettingsShaped
<1>7. [disk EXCEPT !.settings.vlans = Append(@, v)] = [disk EXCEPT !.settings = t]
  BY DEF ws
<1> QED
  BY <1>6, <1>7, Resettled

\* What every step keeps, forms and bounds included.
EditInv == ServingInv /\ UsedTyped /\ form \in Forms /\ addrs \in AddrsPool

\* A record that is added, by JSON, by a form or for a device.
LEMMA Added ==
    ASSUME EditInv, NEW r, r.name \in Names, Add(r)
    PROVE  ServingInv' /\ UsedTyped' /\ addrs' = addrs
<1>1. CASE Refuse
  BY <1>1, Refused DEF EditInv
<1>2. CASE Apply(WithRecords(disk.records \cup {r}))
  <2>1. \A q \in disk.records \cup {r} : q.name \in Names
    BY DEF EditInv, ServingInv, ConfigShaped
  <2>2. ConfigShaped(WithRecords(disk.records \cup {r}))
    BY <2>1, Edited DEF EditInv
  <2> QED
    BY <1>2, <2>2, Applied DEF EditInv
<1> QED
  BY <1>1, <1>2 DEF Add

\* A record that is replaced; a duplicate is only met by Validate, after the VLAN
\* table was replaced.
LEMMA ReplacedBy ==
    ASSUME EditInv, NEW r, r.name \in Names, NEW id, Replace(id, r)
    PROVE  ServingInv' /\ UsedTyped' /\ addrs' = addrs
<1> DEFINE rs == (disk.records \ Find(id)) \cup {r}
<1>1. CASE Refuse
  BY <1>1, Refused DEF EditInv
<1>2. CASE Spend /\ SetCurrent(disk.settings) /\ UNCHANGED <<disk, addrs, live>>
  <2>1. vlans' \in VlanTables
    BY <1>2 DEF EditInv, ServingInv, ConfigShaped, SettingsShaped, SetCurrent
  <2> QED
    BY <1>2, <2>1, Spent, Untouched DEF EditInv
<1>3. CASE Apply(WithRecords(rs))
  <2>1. \A q \in rs : q.name \in Names
    BY DEF EditInv, ServingInv, ConfigShaped
  <2>2. ConfigShaped(WithRecords(rs))
    BY <2>1, Edited DEF EditInv
  <2> QED
    BY <1>3, <2>2, Applied DEF EditInv
<1> QED
  BY <1>1, <1>2, <1>3 DEF Replace

\* Hosts go the same way.
LEMMA HostsEdited ==
    ASSUME EditInv, NEW hs, hs \subseteq HostPool, Apply(WithHosts(hs))
    PROVE  ServingInv' /\ UsedTyped' /\ addrs' = addrs
<1>1. ConfigShaped(WithHosts(hs))
  BY Edited DEF EditInv
<1> QED
  BY <1>1, Applied DEF EditInv

\* A form that is begun.
LEMMA FormBegun ==
    ASSUME EditInv
    PROVE  /\ ReadCreate => form' \in Forms
           /\ \A id \in Identities : ReadSettings(id) => form' \in Forms
<1> DEFINE names == {v.name : v \in VlanPool}
           vs == disk.settings.vlans
<1>1. vs \in Seq(VlanPool)
  BY DEF EditInv, ServingInv, ConfigShaped, SettingsShaped, VlanTables
<1>2. \A i \in DOMAIN vs : vs[i] \in VlanPool
  BY <1>1
<1>3. VlanNames(disk.settings) \in SUBSET names
  BY <1>2 DEF VlanNames, ToSet
<1> QED
  BY <1>3 DEF ReadCreate, ReadSettings, Forms

\* A form whose record was looked at.
LEMMA FormChecked == ASSUME form \in Forms, ReadRecords PROVE form' \in Forms
<1> DEFINE names == {v.name : v \in VlanPool}
           Read == [stage : {"read", "checked"}, key : Identities, vlans : SUBSET names]
<1>1. form.stage = "read"
  BY DEF ReadRecords
<1>2. form \in Read
  BY <1>1 DEF Forms, NoForm
<1>3. form' = NoForm \/ form' = [form EXCEPT !.stage = "checked"]
  BY DEF ReadRecords
<1>4. [form EXCEPT !.stage = "checked"] \in Read
  BY <1>2
<1> QED
  BY <1>3, <1>4 DEF Forms

\* What the JSON handlers make of a submitted record keeps its name.
LEMMA DecodedNamed ==
    ASSUME NEW r \in RecordPool PROVE r.name \in Names /\ Decoded(r).name \in Names
<1>1. Decoded(r).name = r.name
  BY PoolsAssumption DEF Decoded
<1> QED
  BY <1>1, PoolsAssumption

\* Every step keeps it.
LEMMA EditStep == EditInv /\ [Next]_vars => EditInv'
<1> SUFFICES ASSUME EditInv, [Next]_vars PROVE EditInv'
  OBVIOUS
<1>1. ASSUME ServingInv' /\ UsedTyped' /\ addrs' = addrs, form' \in {form, NoForm}
      PROVE  EditInv'
  BY <1>1 DEF EditInv, Forms
<1>2. ASSUME NEW a \in AddrsPool, AddrsChange(a) PROVE EditInv'
  <2>1. addrs' = a /\ Spend /\ UNCHANGED <<disk, live, form, vlans>>
    BY <1>2 DEF AddrsChange
  <2>2. form' \in Forms
    BY <2>1 DEF EditInv, Forms
  <2> QED
    BY <2>1, <2>2, Spent, Untouched DEF EditInv, ServingInv
<1>3. ASSUME NEW r \in RecordPool, AddRecord(r) \/ PromoteRecord(r) PROVE EditInv'
  <2>1. (Add(Decoded(r)) \/ Add(r)) /\ form' = form
    BY <1>3 DEF AddRecord, PromoteRecord
  <2>2. r.name \in Names /\ Decoded(r).name \in Names
    BY DecodedNamed
  <2> QED
    BY <1>1, <2>1, <2>2, Added
<1>4. ASSUME NEW r \in RecordPool, SubmitForm(r) PROVE EditInv'
  <2> DEFINE p == ParseForm(r, form.vlans)
  <2>1. p.name \in Names
    BY PoolsAssumption DEF ParseForm
  <2> HIDE DEF p
  <2>2. form' = NoForm /\ (Add(p) \/ Replace(form.key, p))
    BY <1>4 DEF SubmitForm, p
  <2>3. ServingInv' /\ UsedTyped' /\ addrs' = addrs
    BY <2>1, <2>2, Added, ReplacedBy
  <2> QED
    BY <1>1, <2>2, <2>3
<1>5. ASSUME NEW id \in Identities, ReadSettings(id) PROVE EditInv'
  <2>1. Spend /\ UNCHANGED <<disk, addrs, live, vlans>>
    BY <1>5 DEF ReadSettings
  <2>2. form' \in Forms
    BY <1>5, FormBegun
  <2> QED
    BY <2>1, <2>2, Spent, Untouched DEF EditInv, ServingInv
<1>6. ASSUME NEW id \in Identities, DeleteRecord(id) PROVE EditInv'
  <2> DEFINE rs == disk.records \ Find(id)
  <2>1. \A q \in rs : q.name \in Names
    BY DEF EditInv, ServingInv, ConfigShaped
  <2>2. ConfigShaped(WithRecords(rs))
    BY <2>1, Edited DEF EditInv
  <2>3. (Refuse \/ Apply(WithRecords(rs))) /\ form' = form
    BY <1>6 DEF DeleteRecord
  <2>4. ServingInv' /\ UsedTyped' /\ addrs' = addrs
    BY <2>2, <2>3, Applied, Refused DEF EditInv
  <2> QED
    BY <1>1, <2>3, <2>4
<1>7. ASSUME NEW id \in Identities, NEW r \in RecordPool, UpdateRecord(id, r) PROVE EditInv'
  <2>1. Replace(id, Decoded(r)) /\ form' = form
    BY <1>7 DEF UpdateRecord
  <2>2. Decoded(r).name \in Names
    BY DecodedNamed
  <2> QED
    BY <1>1, <2>1, <2>2, ReplacedBy
<1>8. ASSUME NEW h \in HostPool, AddHost(h) PROVE EditInv'
  <2>1. disk.hosts \cup {h} \subseteq HostPool
    BY DEF EditInv, ServingInv, ConfigShaped
  <2>2. form' = form /\ (Refuse \/ Apply(WithHosts(disk.hosts \cup {h})))
    BY <1>8 DEF AddHost
  <2>3. ServingInv' /\ UsedTyped' /\ addrs' = addrs
    BY <2>1, <2>2, Refused, HostsEdited DEF EditInv
  <2> QED
    BY <1>1, <2>2, <2>3
<1>9. ASSUME NEW old \in disk.hosts, DeleteHost(old) PROVE EditInv'
  <2>1. disk.hosts \ {old} \subseteq HostPool
    BY DEF EditInv, ServingInv, ConfigShaped
  <2>2. form' = form /\ Apply(WithHosts(disk.hosts \ {old}))
    BY <1>9 DEF DeleteHost
  <2> QED
    BY <1>1, <2>1, <2>2, HostsEdited
<1>10. ASSUME NEW old \in disk.hosts, NEW h \in HostPool, UpdateHost(old, h) PROVE EditInv'
  <2>1. (disk.hosts \ {old}) \cup {h} \subseteq HostPool
    BY DEF EditInv, ServingInv, ConfigShaped
  <2>2. form' = form /\ Apply(WithHosts((disk.hosts \ {old}) \cup {h}))
    BY <1>10 DEF UpdateHost
  <2> QED
    BY <1>1, <2>1, <2>2, HostsEdited
<1>11. ASSUME NEW s \in SettingsPool, SaveSettings(s) PROVE EditInv'
  <2>1. ConfigShaped([disk EXCEPT !.settings = s])
    BY Submitted, Resettled DEF EditInv, Settings
  <2>2. form' = form /\ Apply([disk EXCEPT !.settings = s])
    BY <1>11 DEF SaveSettings
  <2> QED
    BY <1>1, <2>1, <2>2, Applied DEF EditInv
<1>12. ASSUME NEW v \in Candidates(disk.settings.vlans, addrs), VlanAdd(v) PROVE EditInv'
  <2> DEFINE c == [disk EXCEPT !.settings.vlans = Append(@, v)]
  <2>1. ConfigShaped(c)
    BY Suggested DEF EditInv
  <2>2. form' = form /\ Apply(c)
    BY <1>12 DEF VlanAdd
  <2> HIDE DEF c
  <2> QED
    BY <1>1, <2>1, <2>2, Applied DEF EditInv
<1>13. CASE ReadCreate
  <2>1. Spend /\ UNCHANGED <<disk, addrs, live, vlans>>
    BY <1>13 DEF ReadCreate
  <2>2. form' \in Forms
    BY <1>13, FormBegun
  <2> QED
    BY <2>1, <2>2, Spent, Untouched DEF EditInv, ServingInv
<1>17. CASE ReadRecords
  <2>1. UNCHANGED <<disk, addrs, live, vlans, used>>
    BY <1>17 DEF ReadRecords
  <2>2. form' \in Forms
    BY <1>17, FormChecked DEF EditInv
  <2> QED
    BY <2>1, <2>2, Untouched DEF EditInv, ServingInv, UsedTyped
<1>14. CASE RestartEngine
  <2>1. form' = form /\ Apply(disk)
    BY <1>14 DEF RestartEngine
  <2> QED
    BY <1>1, <2>1, Applied DEF EditInv, ServingInv
<1>15. CASE Boot
  <2>1. /\ Renders(disk, addrs) /\ Spend /\ form' = NoForm
        /\ vlans' = disk.settings.vlans /\ live' = Instance(disk, addrs, vlans')
        /\ UNCHANGED <<disk, addrs>>
    BY <1>15 DEF Boot, SetCurrent
  <2>2. live'.config = disk /\ live'.addrs = addrs /\ live'.vlans = disk.settings.vlans
    BY <2>1 DEF Instance
  <2>3. vlans' \in VlanTables
    BY <2>1 DEF EditInv, ServingInv, ConfigShaped, SettingsShaped
  <2>4. ServingInv'
    BY <2>1, <2>2, <2>3 DEF EditInv, ServingInv, ServesOneConfiguration
  <2>5. UsedTyped'
    BY <2>1, Spent DEF EditInv
  <2> QED
    BY <1>1, <2>1, <2>4, <2>5
<1>16. CASE UNCHANGED vars
  BY <1>1, <1>16, Untouched DEF vars, EditInv, UsedTyped, ServingInv
<1> QED
  BY <1>2, <1>3, <1>4, <1>5, <1>6, <1>7, <1>8, <1>9, <1>10, <1>11, <1>12, <1>13, <1>14,
     <1>15, <1>16, <1>17 DEF Next

\* It holds from the start.
LEMMA EditInit == Init => EditInv
<1> SUFFICES ASSUME Init PROVE EditInv
  OBVIOUS
<1>1. /\ disk \in [settings : Settings, records : {{}}, hosts : {{}}]
      /\ addrs \in AddrsPool /\ Renders(disk, addrs)
      /\ vlans = disk.settings.vlans /\ live = Instance(disk, addrs, vlans)
      /\ form = NoForm /\ used = [edits |-> 0, faults |-> 0]
  BY DEF Init
<1>2. ConfigShaped(disk)
  <2>1. /\ disk = [settings |-> disk.settings, records |-> disk.records, hosts |-> disk.hosts]
        /\ disk.settings \in Settings /\ disk.records = {} /\ disk.hosts = {}
    BY <1>1
  <2>2. SettingsShaped(disk.settings)
    BY <2>1, Submitted
  <2> QED
    BY <2>1, <2>2 DEF ConfigShaped
<1>3. live.config = disk /\ live.addrs = addrs /\ live.vlans = disk.settings.vlans
  BY <1>1 DEF Instance
<1>4. ServingInv
  <2>1. vlans \in VlanTables
    BY <1>1, <1>2 DEF ConfigShaped, SettingsShaped
  <2> QED
    BY <1>1, <1>2, <1>3, <2>1 DEF ServingInv, ServesOneConfiguration, Renders
<1>5. UsedTyped
  BY <1>1, BoundsAssumption DEF UsedTyped
<1> QED
  BY <1>1, <1>4, <1>5 DEF EditInv, Forms

\* So it always holds.
LEMMA Always == Spec => []EditInv
BY EditInit, EditStep, PTL DEF Spec

\* Whatever is edited in whichever order, and however a form's reads interleave
\* with other requests, every variable keeps its type; no record of a type the
\* plugins do not know is saved or served (validate.go:341).
THEOREM HorizonTyped == Spec => []TypeOK
<1>1. EditInv => TypeOK
  <2> SUFFICES ASSUME EditInv PROVE TypeOK
    OBVIOUS
  <2>1. /\ ConfigShaped(disk) /\ ConfigShaped(live.config)
        /\ Validate(disk) /\ Validate(live.config)
    BY DEF EditInv, ServingInv, ServesOneConfiguration, Renders
  <2>2. ASSUME NEW c, Validate(c), NEW r \in c.records PROVE r.type \in StaticTypes \cup {"mdns"}
    <3>1. ValidRecord(r, VlanNames(c.settings), OwnedZones(c.settings))
      BY <2>2 DEF Validate, ValidRecords
    <3> QED
      BY <3>1 DEF ValidRecord
  <2>3. live.vlans \in VlanTables
    BY <2>1 DEF EditInv, ServingInv, ServesOneConfiguration, ConfigShaped, SettingsShaped
  <2> QED
    BY <2>1, <2>2, <2>3 DEF TypeOK, EditInv, ServingInv, UsedTyped
<1> QED
  BY <1>1, Always, PTL

\* What serves was rendered from one configuration that renders and sorts its
\* clients by that configuration's VLANs, whichever edits were rejected after the
\* current table had been replaced and whichever reloads failed (service.go:783).
THEOREM OneConfigurationServes == Spec => []ServesOneConfiguration
<1>1. EditInv => ServesOneConfiguration
  BY DEF EditInv, ServingInv
<1> QED
  BY <1>1, Always, PTL

---------------------------------------------------------------------------
(* Rendering. *)

\* The machine's addresses, as the proofs use them.
LEMMA AddressList ==
    ASSUME NEW a \in AddrsPool
    PROVE  /\ a \in Seq(ToSet(a)) /\ NoValue \notin ToSet(a)
           /\ ToSet(a) = {} => a = <<>>
<1>1. a \in Seq(DOMAIN NetOf \ {NoValue})
  BY PoolsAssumption
<1>2. Len(a) \in Nat /\ DOMAIN a = 1..Len(a) /\ a \in [1..Len(a) -> ToSet(a)]
  BY <1>1 DEF ToSet
<1>3. a \in Seq(ToSet(a))
  BY <1>2, SeqDef
<1>4. NoValue \notin ToSet(a)
  BY <1>1 DEF ToSet
<1>5. ASSUME ToSet(a) = {} PROVE a = <<>>
  <2>1. 1..Len(a) = {}
    BY <1>2, <1>5 DEF ToSet
  <2>2. Len(a) = 0
    BY <1>2, <2>1, ~(1 <= Len(a))
  <2> QED
    BY <1>1, <2>2, EmptySeq
<1> QED
  BY <1>3, <1>4, <1>5

\* The primary address of a family is one of it, if there is any.
LEMMA PrimaryFound ==
    ASSUME NEW a \in AddrsPool, NEW v4
    PROVE  LET fam == {ip \in ToSet(a) : IsV4(ip) = v4}
           IN  /\ fam # {} => Primary(a, v4) \in fam /\ Primary(a, v4) # NoValue
               /\ fam = {} => Primary(a, v4) = NoValue
<1> DEFINE fam == {ip \in ToSet(a) : IsV4(ip) = v4}
<1>1. a \in Seq(ToSet(a)) /\ NoValue \notin ToSet(a)
  BY AddressList
<1>2. ToSet(a) \cap fam = fam /\ Primary(a, v4) = First(a, fam)
  BY DEF Primary
<1> HIDE DEF fam
<1>3. /\ ToSet(a) \cap fam # {} => First(a, fam) \in ToSet(a) \cap fam
      /\ ToSet(a) \cap fam = {} => First(a, fam) = NoValue
  BY <1>1, FirstFound
<1> QED
  BY <1>1, <1>2, <1>3 DEF fam

\* The synthesized record of a family the machine has an address of.
LEMMA FamilyFound ==
    ASSUME NEW s, NEW a \in AddrsPool, NEW t, NEW ip \in ToSet(a), IsV4(ip) = (t = "A")
    PROVE  \E r \in FamilyRecord(s, a, t) :
              r.name = AcmeDomain(s) /\ r.type = t /\ r.default # NoValue
<1>1. Primary(a, t = "A") # NoValue
  BY PrimaryFound
<1> QED
  BY <1>1 DEF FamilyRecord

\* A valid address record gives an address to some client.
LEMMA ProvidesAddress ==
    ASSUME NEW rs, NEW r \in rs, r.type \in {"A", "AAAA"}, NEW vns, NEW zones,
           ValidRecord(r, vns, zones)
    PROVE  HasAddressRecord(rs, r.name)
BY DEF ValidRecord, AnyOverrideProvidesValue, HasAddressRecord

\* Files that pass the validation render unless the machine has no address at all
\* for the name it is designated by.
LEMMA RendersUnless ==
    ASSUME NEW c, NEW a \in AddrsPool, Validate(c), ~Renders(c, a)
    PROVE  /\ DdrRecords(c.settings) # {}
           /\ ~HasAddressRecord(c.records, AcmeDomain(c.settings))
           /\ a = <<>>
<1> DEFINE d == AcmeDomain(c.settings)
           rs == StaticRecords(c, a)
<1>1. DdrRecords(c.settings) # {} /\ ~HasAddressRecord(rs, d)
  BY DEF Renders
<1>2. d # NoValue
  BY <1>1 DEF DdrRecords
<1>3. {r \in c.records : r.type \in {"A", "AAAA"}} \subseteq rs
  BY DEF StaticRecords
<1>4. ~HasAddressRecord(c.records, d)
  BY <1>1, <1>3 DEF HasAddressRecord
<1>5. a = <<>>
  <2>1. SUFFICES ASSUME NEW ip \in ToSet(a) PROVE FALSE
    BY AddressList
  <2> DEFINE t == IF IsV4(ip) THEN "A" ELSE "AAAA"
  <2>2. IsV4(ip) = (t = "A") /\ t \in {"A", "AAAA"}
    BY DEF IsV4
  <2>3. CASE \E r \in c.records : r.name = d /\ r.type = t
    <3>1. PICK r \in c.records : r.name = d /\ r.type = t
      BY <2>3
    <3>2. ValidRecord(r, VlanNames(c.settings), OwnedZones(c.settings))
      BY DEF Validate, ValidRecords
    <3> QED
      BY <1>4, <2>2, <3>1, <3>2, ProvidesAddress
  <2>4. CASE ~\E r \in c.records : r.name = d /\ r.type = t
    <3>1. FamilyRecord(c.settings, a, t) \subseteq rs
      BY <1>2, <2>2, <2>4 DEF StaticRecords, AcmeSelfRecords
    <3>2. PICK r \in FamilyRecord(c.settings, a, t) :
              r.name = d /\ r.type = t /\ r.default # NoValue
      BY <2>2, FamilyFound
    <3>3. HasAddressRecord(rs, d)
      BY <2>2, <3>1, <3>2 DEF HasAddressRecord
    <3> QED
      BY <1>1, <3>3
  <2> QED
    BY <2>3, <2>4
<1> QED
  BY <1>1, <1>4, <1>5

\* Whatever was edited, refused or failed to reload, the files on disk pass the
\* validation together; a later start fails only for want of any address for the
\* domain of the certificate (configgen.go:314).
THEOREM FilesStayValid == Spec => []DiskStaysValid
<1>1. EditInv => DiskStaysValid
  BY RendersUnless DEF EditInv, ServingInv, ServesOneConfiguration, DiskStaysValid
<1> QED
  BY <1>1, Always, PTL

---------------------------------------------------------------------------
(* Zones. *)

\* Of two zones a name lies in, one lies under the other.
LEMMA TwoInLine ==
    ASSUME NEW n \in Names, NEW a \in Within[n], NEW b \in Within[n]
    PROVE  (a \in Within[b] \/ b \in Within[a]) /\ a \in Within[a] /\ a \in Names
BY WithinAssumption

\* The zones of a valid configuration are names.
LEMMA ZonesAreNames ==
    ASSUME NEW s, SettingsShaped(s), ValidACME(s.acme)
    PROVE  /\ OwnedZones(s) \subseteq {OwnedZone, AcmeDomain(s), DDRZone}
           /\ NoValue \notin OwnedZones(s)
           /\ OwnedZones(s) \subseteq Names
           /\ OwnedZone \in OwnedZones(s)
           /\ FallthroughZones(s) \subseteq OwnedZones(s)
           /\ AcmeDomain(s) # NoValue => AcmeDomain(s) \in Names
<1>1. PICK p \in Settings : s = [p EXCEPT !.vlans = s.vlans]
  BY DEF SettingsShaped
<1>2. s.acme = p.acme
  BY <1>1, PoolsAssumption
<1>3. s.acme.domain \in Names \cup {NoValue, "malformed"}
  BY <1>2, PoolsAssumption
<1>4. AcmeDomain(s) # NoValue => AcmeDomain(s) \in Names
  BY <1>3 DEF AcmeDomain, ValidACME
<1> QED
  BY <1>4, ZonesAssumption, WithinAssumption DEF OwnedZones, FallthroughZones, OwnedZone, DDRZone, NoValue

\* plugin.Zones.Matches finds the longest of the zones a name lies in.
LEMMA ZoneMatched ==
    ASSUME NEW zones, NEW a, NEW n \in Names,
           zones \subseteq {OwnedZone, a, DDRZone}, NoValue \notin zones
    PROVE  /\ zones \cap Within[n] # {} =>
                  /\ Matches(zones, n) \in zones \cap Within[n]
                  /\ Matches(zones, n) # NoValue
                  /\ zones \cap Within[n] \subseteq Within[Matches(zones, n)]
           /\ zones \cap Within[n] = {} => Matches(zones, n) = NoValue
<1> DEFINE in == zones \cap Within[n]
<1>1. \A x, y \in in : /\ x \in Within[y] \/ y \in Within[x]
                       /\ x \in Within[x]
                       /\ x \in Names
  BY TwoInLine
<1>2. \A x, y, z \in in : x \in Within[y] /\ y \in Within[z] => x \in Within[z]
  BY <1>1, WithinAssumption
<1>3. ASSUME in # {} PROVE \E z \in in : in \subseteq Within[z]
  <2>1. in \subseteq {OwnedZone, a, DDRZone}
    OBVIOUS
  <2> HIDE DEF in
  <2>2. ASSUME NEW x \in in, NEW y \in in, NEW z \in in, in \subseteq {x, y, z}
        PROVE  \E w \in in : in \subseteq Within[w]
    BY <1>1, <1>2, <2>2
  <2>3. PICK w \in in : TRUE
    BY <1>3
  <2> DEFINE x == IF OwnedZone \in in THEN OwnedZone ELSE w
             y == IF a \in in THEN a ELSE w
             z == IF DDRZone \in in THEN DDRZone ELSE w
  <2>4. x \in in /\ y \in in /\ z \in in /\ in \subseteq {x, y, z}
    BY <2>1
  <2> QED
    BY <2>2, <2>4
<1>4. ASSUME in # {} PROVE /\ Matches(zones, n) \in in /\ Matches(zones, n) # NoValue
                            /\ in \subseteq Within[Matches(zones, n)]
  <2>1. Matches(zones, n) \in in /\ in \subseteq Within[Matches(zones, n)]
    BY <1>3, <1>4 DEF Matches
  <2> QED
    BY <2>1
<1>5. ASSUME in = {} PROVE Matches(zones, n) = NoValue
  BY <1>5 DEF Matches
<1> QED
  BY <1>4, <1>5

---------------------------------------------------------------------------
(* buildAnswers, one call at a time. *)

\* Every alias of the loaded records leads to a name: no other alias of a name is
\* seen on a VLAN.
AliasesLead(lr, vlan) ==
    \A n \in Names : \A rc \in Alias(lr, n, vlan) :
        /\ Effective(rc, vlan).value \in Names
        /\ Alias(lr, n, vlan) = {rc}

\* A call only looks at what the calls with one step less return.
LEMMA CallsBelow ==
    ASSUME NEW lr, NEW qtype, NEW vlan, AliasesLead(lr, vlan),
           NEW fuel \in Nat, NEW n \in Names, NEW f, NEW g,
           fuel # 0 => \A m \in Names : f[<<fuel - 1, m>>] = g[<<fuel - 1, m>>]
    PROVE  AnswersOf(lr, qtype, vlan, f, fuel, n) = AnswersOf(lr, qtype, vlan, g, fuel, n)
<1> DEFINE A == Alias(lr, n, vlan)
           e == Effective(CHOOSE rc \in A : TRUE, vlan)
<1>1. CASE fuel = 0 \/ A = {}
  BY <1>1 DEF AnswersOf
<1>2. CASE fuel # 0 /\ A # {}
  <2>1. e.value \in Names
    BY <1>2 DEF AliasesLead
  <2>2. f[<<fuel - 1, e.value>>] = g[<<fuel - 1, e.value>>]
    BY <1>2, <2>1
  <2> QED
    BY <2>2 DEF AnswersOf
<1> QED
  BY <1>1, <1>2

\* The calls of each depth are defined: of the depths that are not, the least
\* would be defined from the one before it.
LEMMA CallsDefined ==
    ASSUME NEW lr, NEW qtype, NEW vlan, AliasesLead(lr, vlan), NEW depth \in Nat
    PROVE  \E f : f = [p \in (0 .. depth) \X Names |->
                          AnswersOf(lr, qtype, vlan, f, p[1], p[2])]
<1> DEFINE Call(f, p) == AnswersOf(lr, qtype, vlan, f, p[1], p[2])
           Defined(k) == \E f : f = [p \in (0 .. k) \X Names |-> Call(f, p)]
           Not == {k \in Nat : ~Defined(k)}
<1>1. ASSUME NEW f, NEW g, NEW k \in Nat, NEW n \in Names,
             k # 0 => \A m \in Names : f[<<k - 1, m>>] = g[<<k - 1, m>>]
      PROVE  Call(f, <<k, n>>) = Call(g, <<k, n>>)
  BY <1>1, CallsBelow
<1> HIDE DEF Call
<1>2. Defined(0)
  <2> DEFINE f == [p \in (0 .. 0) \X Names |-> Call(0, p)]
  <2>1. ASSUME NEW p \in (0 .. 0) \X Names PROVE Call(0, p) = Call(f, p)
    <3>1. PICK n \in Names : p = <<0, n>>
      OBVIOUS
    <3> HIDE DEF f
    <3> QED
      BY <1>1, <3>1
  <2>2. f = [p \in (0 .. 0) \X Names |-> Call(f, p)]
    BY <2>1
  <2> QED
    BY <2>2
<1>3. ASSUME NEW k \in Nat, k # 0, Defined(k - 1) PROVE Defined(k)
  <2>1. PICK f : f = [p \in (0 .. k - 1) \X Names |-> Call(f, p)]
    BY <1>3
  <2> DEFINE g == [p \in (0 .. k) \X Names |-> Call(f, p)]
  <2>2. \A i \in 0 .. k - 1, n \in Names : g[<<i, n>>] = f[<<i, n>>]
    <3>1. ASSUME NEW i \in 0 .. k - 1, NEW n \in Names PROVE g[<<i, n>>] = f[<<i, n>>]
      <4>1. f[<<i, n>>] = Call(f, <<i, n>>)
        BY <2>1, <<i, n>> \in (0 .. k - 1) \X Names
      <4>2. i \in 0 .. k
        OBVIOUS
      <4>3. g[<<i, n>>] = Call(f, <<i, n>>)
        BY <4>2, <<i, n>> \in (0 .. k) \X Names
      <4> QED
        BY <4>1, <4>3
    <3> QED
      BY <3>1
  <2>3. ASSUME NEW p \in (0 .. k) \X Names PROVE Call(f, p) = Call(g, p)
    <3>1. PICK i \in 0 .. k, n \in Names : p = <<i, n>>
      OBVIOUS
    <3>2. i \in Nat /\ (i # 0 => i - 1 \in 0 .. k - 1)
      OBVIOUS
    <3> HIDE DEF g
    <3>3. i # 0 => \A m \in Names : f[<<i - 1, m>>] = g[<<i - 1, m>>]
      BY <2>2, <3>2
    <3> QED
      BY <1>1, <3>1, <3>2, <3>3
  <2>4. g = [p \in (0 .. k) \X Names |-> Call(g, p)]
    BY <2>3
  <2> QED
    BY <2>4
<1> HIDE DEF Defined
<1>4. Not = {}
  <2>1. SUFFICES ASSUME Not # {} PROVE FALSE
    OBVIOUS
  <2>2. PICK k \in Not : \A m \in Not : k <= m
    BY <2>1, LeastNat
  <2>3. k # 0 /\ k - 1 \in Nat /\ k - 1 \notin Not
    BY <1>2, <2>2
  <2> QED
    BY <1>3, <2>2, <2>3
<1>5. Defined(depth)
  BY <1>4
<1> QED
  BY <1>5 DEF Defined, Call

\* What buildAnswers returns is what its first call does, and each call what
\* AnswersOf says.
LEMMA Calls ==
    ASSUME NEW lr, NEW qtype, NEW vlan, AliasesLead(lr, vlan)
    PROVE  \E f : /\ \A k \in 0 .. Cardinality(Names), n \in Names :
                        f[<<k, n>>] = AnswersOf(lr, qtype, vlan, f, k, n)
                 /\ \A n : BuildAnswers(lr, n, qtype, vlan) = f[<<Cardinality(Names), n>>]
<1> DEFINE D == (0 .. Cardinality(Names)) \X Names
           Build == CHOOSE f : f = [p \in D |-> AnswersOf(lr, qtype, vlan, f, p[1], p[2])]
<1>1. Cardinality(Names) \in Nat
  BY WithinAssumption, FS_CardinalityType
<1>2. Build = [p \in D |-> AnswersOf(lr, qtype, vlan, Build, p[1], p[2])]
  BY <1>1, CallsDefined
<1>3. \A n : BuildAnswers(lr, n, qtype, vlan) = Build[<<Cardinality(Names), n>>]
  BY DEF BuildAnswers
<1> HIDE DEF Build
<1>4. ASSUME NEW k \in 0 .. Cardinality(Names), NEW n \in Names
      PROVE  Build[<<k, n>>] = AnswersOf(lr, qtype, vlan, Build, k, n)
  BY <1>2, <<k, n>> \in D
<1> QED
  BY <1>3, <1>4

---------------------------------------------------------------------------
(* What the loaded records say on a VLAN. *)

\* The value of a record on a VLAN, if there is one, is of its type.
FitsOn(r, v) ==
    ValueOn(r, v) # NoValue =>
        /\ r.type = "A" => IsV4(ValueOn(r, v))
        /\ r.type = "AAAA" => ~IsV4(ValueOn(r, v))
        /\ r.type = "CNAME" => ValueOn(r, v) \in Names

\* What validation and the synthesis of the machine's own records leave of a set
\* of records that is loaded.
RecordsFit(rs, v) ==
    /\ \A r \in rs : r.name \in Names /\ r.type \in {"A", "AAAA", "CNAME"} /\ FitsOn(r, v)
    /\ \A r, q \in rs : r.type = "CNAME" /\ q.type = "CNAME" /\ r.name = q.name => r = q

\* effective is the value and the TTL the configuration gives the VLAN, unless the
\* record is hidden there.
LEMMA EffectiveIs ==
    ASSUME NEW r, NEW v
    PROVE  /\ Hidden(r, v) \/ ValueOn(r, v) = NoValue => Effective(r, v) = Nothing
           /\ ~Hidden(r, v) /\ ValueOn(r, v) # NoValue =>
                 /\ Effective(r, v) = [value |-> ValueOn(r, v), ttl |-> TTLOn(r, v)]
                 /\ Effective(r, v) # Nothing
<1> DEFINE ov == OverrideOn(r, v)
           val == IF ov.value = NoValue THEN r.default ELSE ov.value
<1>1. val = ValueOn(r, v)
  BY DEF OverrideOn, ValueOn, NoOverride
<1>2. Hidden(r, v) <=> ov.nxdomain
  BY DEF OverrideOn, Hidden, NoOverride
<1>3. TTLOn(r, v) = IF ov.ttl = 0 THEN IF r.ttl = 0 THEN DefaultTTL ELSE r.ttl ELSE ov.ttl
  BY DEF OverrideOn, TTLOn, NoOverride
<1>4. Effective(r, v) = IF ov.nxdomain \/ val = NoValue THEN Nothing
                        ELSE [value |-> val, ttl |-> TTLOn(r, v)]
  BY <1>3 DEF Effective
<1> HIDE DEF ov, val
<1>5. val # NoValue => [value |-> val, ttl |-> TTLOn(r, v)] # Nothing
  BY DEF Nothing
<1> QED
  BY <1>1, <1>2, <1>4, <1>5

\* The alias of a name on a VLAN is the CNAME record visible there.
LEMMA AliasIs ==
    ASSUME NEW lr, NEW v, NEW n
    PROVE  Alias(lr, n, v) = {r \in VisibleOn(lr.records, v) : r.type = "CNAME" /\ r.name = n}
BY EffectiveIs DEF Alias, At, VisibleOn

\* So aliases lead to names, and a name has one at most.
LEMMA AliasesFit ==
    ASSUME NEW lr, NEW v, RecordsFit(lr.records, v) PROVE AliasesLead(lr, v)
<1> SUFFICES ASSUME NEW n \in Names, NEW rc \in Alias(lr, n, v)
             PROVE  Effective(rc, v).value \in Names /\ Alias(lr, n, v) = {rc}
  BY DEF AliasesLead
<1>1. rc \in VisibleOn(lr.records, v) /\ rc.type = "CNAME" /\ rc.name = n
  BY AliasIs
<1>2. rc \in lr.records /\ ~Hidden(rc, v) /\ ValueOn(rc, v) # NoValue
  BY <1>1 DEF VisibleOn
<1>3. Effective(rc, v) = [value |-> ValueOn(rc, v), ttl |-> TTLOn(rc, v)]
  BY <1>2, EffectiveIs
<1>4. ValueOn(rc, v) \in Names
  BY <1>1, <1>2 DEF RecordsFit, FitsOn
<1>5. \A q \in Alias(lr, n, v) : q = rc
  BY <1>1, <1>2, AliasIs DEF RecordsFit, VisibleOn
<1> QED
  BY <1>3, <1>4, <1>5

---------------------------------------------------------------------------
(* Alias chains. *)

\* An alias on a VLAN.
AliasesOn(rs, v) == {r \in VisibleOn(rs, v) : r.type = "CNAME"}

\* A set of names that holds the target of every alias in it.
Closed(rs, v, S) == \A r \in AliasesOn(rs, v) : r.name \in S => ValueOn(r, v) \in S

\* Path is the least closed set with the name.
LEMMA PathLeast ==
    ASSUME NEW rs, NEW v, NEW n
    PROVE  /\ n \in Path(rs, v, n)
           /\ Closed(rs, v, Path(rs, v, n))
           /\ \A S : n \in S /\ Closed(rs, v, S) => Path(rs, v, n) \subseteq S
<1> DEFINE al == AliasesOn(rs, v)
           around == {n} \cup UNION {{r.name, ValueOn(r, v)} : r \in al}
           closed == {S \in SUBSET around :
                        /\ n \in S
                        /\ \A r \in al : r.name \in S => ValueOn(r, v) \in S}
           P == {m \in around : \A S \in closed : m \in S}
<1>1. Path(rs, v, n) = P
  BY DEF Path, AliasesOn
<1>2. \A r \in al : r.name \in around /\ ValueOn(r, v) \in around
  OBVIOUS
<1>3. n \in around
  OBVIOUS
<1> HIDE DEF al, around
<1>4. n \in P
  BY <1>3
<1>5. \A r \in al : r.name \in P => ValueOn(r, v) \in P
  BY <1>2
<1>6. ASSUME NEW S, n \in S, \A r \in al : r.name \in S => ValueOn(r, v) \in S
      PROVE  P \subseteq S
  <2>1. S \cap around \in closed
    BY <1>2, <1>3, <1>6
  <2> QED
    BY <2>1
<1> HIDE DEF P
<1> QED
  BY <1>1, <1>4, <1>5, <1>6 DEF Closed, al

\* A chain of names stays among the names.
LEMMA PathNames ==
    ASSUME NEW rs, NEW v, RecordsFit(rs, v), NEW n \in Names
    PROVE  Path(rs, v, n) \subseteq Names
<1>1. Closed(rs, v, Names)
  BY DEF Closed, AliasesOn, VisibleOn, RecordsFit, FitsOn
<1> QED
  BY <1>1, PathLeast

\* A name without an alias ends its chain.
LEMMA PathEnds ==
    ASSUME NEW rs, NEW v, NEW n, ~\E r \in AliasesOn(rs, v) : r.name = n
    PROVE  Path(rs, v, n) = {n}
<1>1. Closed(rs, v, {n})
  BY DEF Closed
<1> QED
  BY <1>1, PathLeast

\* The chain of an alias is its name and its target's chain.
LEMMA PathGoesOn ==
    ASSUME NEW rs, NEW v, RecordsFit(rs, v), NEW r \in AliasesOn(rs, v)
    PROVE  Path(rs, v, r.name) = {r.name} \cup Path(rs, v, ValueOn(r, v))
<1> DEFINE n == r.name
           w == ValueOn(r, v)
           P == Path(rs, v, n)
           Q == Path(rs, v, w)
<1>1. n \in P /\ Closed(rs, v, P) /\ w \in Q /\ Closed(rs, v, Q)
  BY PathLeast
<1>2. w \in P
  BY <1>1 DEF Closed
<1>3. Q \subseteq P
  BY <1>1, <1>2, PathLeast
<1>4. \A q \in AliasesOn(rs, v) : q.name = n => q = r
  BY DEF AliasesOn, VisibleOn, RecordsFit
<1>5. Closed(rs, v, {n} \cup Q)
  BY <1>1, <1>4 DEF Closed
<1>6. P \subseteq {n} \cup Q
  BY <1>5, PathLeast
<1> QED
  BY <1>1, <1>3, <1>6

\* A chain that comes back to its name only has aliases on it: it leads back from
\* each of its names, which the end of a chain would not.
LEMMA ComesBack ==
    ASSUME NEW rs, NEW v, RecordsFit(rs, v), NEW r \in AliasesOn(rs, v),
           r.name \in Path(rs, v, ValueOn(r, v))
    PROVE  Loops(rs, v, Path(rs, v, r.name))
<1> DEFINE n == r.name
           P == Path(rs, v, n)
           S == {m \in P : n \in Path(rs, v, m)}
<1>1. n \in P /\ Closed(rs, v, P)
  BY PathLeast
<1>2. n \in S
  BY <1>1
<1>3. Closed(rs, v, S)
  <2>1. SUFFICES ASSUME NEW q \in AliasesOn(rs, v), q.name \in S PROVE ValueOn(q, v) \in S
    BY DEF Closed
  <2>2. ValueOn(q, v) \in P
    BY <1>1, <2>1 DEF Closed
  <2>3. n \in Path(rs, v, ValueOn(q, v))
    <3>1. CASE q.name = n
      <4>1. q = r
        BY <3>1 DEF AliasesOn, VisibleOn, RecordsFit
      <4> QED
        BY <4>1
    <3>2. CASE q.name # n
      <4>1. n \in {q.name} \cup Path(rs, v, ValueOn(q, v))
        BY <2>1, PathGoesOn
      <4> QED
        BY <3>2, <4>1
    <3> QED
      BY <3>1, <3>2
  <2> QED
    BY <2>2, <2>3
<1>4. P \subseteq S
  BY <1>2, <1>3, PathLeast
<1>5. ASSUME NEW m \in P PROVE \E q \in AliasesOn(rs, v) : q.name = m
  <2>1. SUFFICES ASSUME ~\E q \in AliasesOn(rs, v) : q.name = m PROVE FALSE
    OBVIOUS
  <2>2. Path(rs, v, m) = {m}
    BY <2>1, PathEnds
  <2>3. n = m
    BY <1>4, <2>2
  <2> QED
    BY <2>1, <2>3
<1> QED
  BY <1>5 DEF Loops, AliasesOn

---------------------------------------------------------------------------
(* The answers along a chain. *)

\* A record visible on the VLAN that answers a query of its name: the alias, or
\* without one the records of the type.
Answering(rs, v, qtype, r) ==
    /\ r \in VisibleOn(rs, v)
    /\ r.type = "CNAME" \/ (r.type = qtype /\ ~\E q \in AliasesOn(rs, v) : q.name = r.name)

\* Promised is what the names of the path say, each by itself.
LEMMA PromisedOf ==
    ASSUME NEW rs, NEW v, NEW path, NEW qtype, NEW x
    PROVE  x \in Promised(rs, v, path, qtype) <=>
               \E r \in rs : /\ r.name \in path /\ Answering(rs, v, qtype, r)
                            /\ x = RR(r.name, r.type, ValueOn(r, v), TTLOn(r, v))
<1> DEFINE seen == {r \in VisibleOn(rs, v) : r.name \in path}
           alias == {r.name : r \in {r \in seen : r.type = "CNAME"}}
           chosen == {r \in seen : r.type = "CNAME" \/ (r.type = qtype /\ r.name \notin alias)}
<1>1. \A r \in seen : r.name \in alias <=> \E q \in AliasesOn(rs, v) : q.name = r.name
  BY DEF AliasesOn
<1> HIDE DEF alias
<1>2. \A r : r \in chosen <=> r \in rs /\ r.name \in path /\ Answering(rs, v, qtype, r)
  BY <1>1 DEF Answering, VisibleOn
<1>3. Promised(rs, v, path, qtype)
          = {RR(r.name, r.type, ValueOn(r, v), TTLOn(r, v)) : r \in chosen}
  BY DEF Promised, alias
<1> HIDE DEF chosen
<1> QED
  BY <1>2, <1>3

\* So the promise of two parts of a path is that of the whole.
LEMMA PromisedAdds ==
    ASSUME NEW rs, NEW v, NEW P, NEW Q, NEW qtype
    PROVE  Promised(rs, v, P \cup Q, qtype)
               = Promised(rs, v, P, qtype) \cup Promised(rs, v, Q, qtype)
<1>1. \A x : x \in Promised(rs, v, P \cup Q, qtype) <=>
               x \in Promised(rs, v, P, qtype) \/ x \in Promised(rs, v, Q, qtype)
  BY PromisedOf
<1> QED
  BY <1>1

\* What is promised are records of the type asked for, and aliases.
LEMMA PromisedTypes ==
    ASSUME NEW rs, NEW v, NEW path, NEW qtype, NEW x \in Promised(rs, v, path, qtype)
    PROVE  x.type = "CNAME" \/ (x.type = qtype /\ \E r \in rs : r.type = qtype)
<1>1. PICK r \in rs : /\ Answering(rs, v, qtype, r)
                      /\ x = RR(r.name, r.type, ValueOn(r, v), TTLOn(r, v))
  BY PromisedOf
<1>2. x.type = r.type
  BY <1>1 DEF RR
<1> QED
  BY <1>1, <1>2 DEF Answering

\* The call for a name without an alias answers what its own records promise.
OwnGives(lr, v, qtype, f, k, n) ==
    AnswersOf(lr, qtype, v, f, k, n) = Promised(lr.records, v, {n}, qtype)

\* It does.
LEMMA OwnAnswer ==
    ASSUME NEW lr, NEW v, RecordsFit(lr.records, v), NEW n \in Names, NEW qtype,
           qtype # "SVCB" \/ n # DdrName, Alias(lr, n, v) = {}, NEW f, NEW k \in Nat, k # 0
    PROVE  OwnGives(lr, v, qtype, f, k, n)
<1> DEFINE rs == lr.records
           own == UNION {RRFor(n, qtype, Effective(rc, v))
                            : rc \in {r \in At(lr, n) : r.type = qtype}}
           Mine(r) == r \in rs /\ r.name = n /\ Answering(rs, v, qtype, r)
           Line(r) == RR(r.name, r.type, ValueOn(r, v), TTLOn(r, v))
<1>1. AnswersOf(lr, qtype, v, f, k, n) = own
  BY DEF AnswersOf
<1>2. ~\E q \in AliasesOn(rs, v) : q.name = n
  BY AliasIs DEF AliasesOn
<1>3. \A r : Mine(r) <=> /\ r \in rs /\ r.name = n /\ r.type = qtype /\ qtype # "CNAME"
                         /\ ~Hidden(r, v) /\ ValueOn(r, v) # NoValue
  BY <1>2 DEF Answering, AliasesOn, VisibleOn
<1>4. ASSUME NEW r \in rs, r.name = n, r.type = qtype
      PROVE  RRFor(n, qtype, Effective(r, v)) = IF Mine(r) THEN {Line(r)} ELSE {}
  <2>1. CASE ~Mine(r)
    <3>1. qtype = "CNAME" \/ Effective(r, v) = Nothing
      BY <1>3, <1>4, <2>1, EffectiveIs
    <3> QED
      BY <2>1, <3>1 DEF RRFor
  <2>2. CASE Mine(r)
    <3>1. /\ Effective(r, v) = [value |-> ValueOn(r, v), ttl |-> TTLOn(r, v)]
          /\ Effective(r, v) # Nothing
      BY <1>3, <2>2, EffectiveIs
    <3>2. qtype \in {"A", "AAAA"} /\ (IsV4(ValueOn(r, v)) <=> qtype = "A")
      BY <1>3, <1>4, <2>2 DEF RecordsFit, FitsOn
    <3>3. Effective(r, v).value = ValueOn(r, v) /\ Effective(r, v).ttl = TTLOn(r, v)
      BY <3>1
    <3>4. RRFor(n, qtype, Effective(r, v)) = {RR(n, qtype, ValueOn(r, v), TTLOn(r, v))}
      BY <3>1, <3>2, <3>3 DEF RRFor
    <3> QED
      BY <1>4, <2>2, <3>4
  <2> QED
    BY <2>1, <2>2
<1> HIDE DEF Mine, Line
<1>5. \A x : x \in own <=> \E r \in rs : Mine(r) /\ x = Line(r)
  <2>1. \A r \in rs : Mine(r) => r.name = n /\ r.type = qtype
    BY <1>3
  <2>2. \A x : x \in own <=> \E r \in rs : /\ r.name = n /\ r.type = qtype
                                           /\ x \in RRFor(n, qtype, Effective(r, v))
    BY DEF At
  <2> HIDE DEF own
  <2> QED
    BY <1>4, <2>1, <2>2
<1>6. \A x : x \in Promised(rs, v, {n}, qtype) <=> \E r \in rs : Mine(r) /\ x = Line(r)
  BY PromisedOf DEF Mine, Line
<1> HIDE DEF own
<1> QED
  BY <1>1, <1>5, <1>6 DEF OwnGives

\* The call for an alias answers it, and for an address what its target's does.
AliasGives(lr, v, qtype, f, k, r) ==
    AnswersOf(lr, qtype, v, f, k, r.name) =
        Promised(lr.records, v, {r.name}, qtype) \cup
            IF qtype \in {"A", "AAAA"} THEN f[<<k - 1, ValueOn(r, v)>>] ELSE {}

\* It does.
LEMMA AliasAnswer ==
    ASSUME NEW lr, NEW v, RecordsFit(lr.records, v), NEW qtype,
           NEW r \in AliasesOn(lr.records, v), NEW f, NEW k \in Nat, k # 0
    PROVE  AliasGives(lr, v, qtype, f, k, r)
<1> DEFINE rs == lr.records
           n == r.name
           A == Alias(lr, n, v)
           e == Effective(r, v)
           Line(q) == RR(q.name, q.type, ValueOn(q, v), TTLOn(q, v))
<1>1. r \in rs /\ r.type = "CNAME" /\ ~Hidden(r, v) /\ ValueOn(r, v) # NoValue /\ n \in Names
  BY DEF AliasesOn, VisibleOn, RecordsFit
<1>2. A = {r}
  <2>1. r \in A
    BY AliasIs DEF AliasesOn
  <2> QED
    BY <1>1, <2>1, AliasesFit DEF AliasesLead
<1>3. e.value = ValueOn(r, v) /\ e.ttl = TTLOn(r, v)
  BY <1>1, EffectiveIs
<1>4. (CHOOSE rc \in A : TRUE) = r /\ A # {}
  BY <1>2
<1>5. AnswersOf(lr, qtype, v, f, k, n) =
          {RR(n, "CNAME", e.value, e.ttl)} \cup
              IF qtype \in {"A", "AAAA"} THEN f[<<k - 1, e.value>>] ELSE {}
  BY <1>4 DEF AnswersOf
<1>6. \A q \in rs : q.name = n /\ Answering(rs, v, qtype, q) <=> q = r
  <2>1. SUFFICES ASSUME NEW q \in rs PROVE q.name = n /\ Answering(rs, v, qtype, q) <=> q = r
    OBVIOUS
  <2>2. r \in VisibleOn(rs, v)
    BY DEF AliasesOn
  <2>3. Answering(rs, v, qtype, r)
    BY <1>1, <2>2 DEF Answering
  <2>4. q.name = n /\ Answering(rs, v, qtype, q) => q.type = "CNAME"
    BY DEF Answering
  <2>5. q.name = n /\ q.type = "CNAME" => q = r
    BY <1>1 DEF RecordsFit
  <2> QED
    BY <2>3, <2>4, <2>5
<1>7. Promised(rs, v, {n}, qtype) = {Line(r)}
  <2>1. \A x : x \in Promised(rs, v, {n}, qtype) <=>
               \E q \in rs : q.name = n /\ Answering(rs, v, qtype, q) /\ x = Line(q)
    BY PromisedOf
  <2> HIDE DEF Line
  <2>2. \A x : x \in Promised(rs, v, {n}, qtype) <=> x = Line(r)
    BY <1>1, <1>6, <2>1
  <2> QED
    BY <2>2
<1> QED
  BY <1>1, <1>3, <1>5, <1>7 DEF AliasGives

\* The mark of a chain that did not end is no record of any name.
LEMMA NotPromised ==
    ASSUME NEW rs, NEW v, NEW path, NEW qtype \in {"A", "AAAA"}
    PROVE  Exhausted \notin Promised(rs, v, path, qtype)
<1>1. Exhausted.type = "exhausted"
  BY DEF Exhausted, RR
<1> QED
  BY <1>1, PromisedTypes

\* What a call for an address of a name returns, a depth of k left.
CallGives(rs, v, qtype, f, k, n) ==
    /\ k = 0 => f[<<k, n>>] = {Exhausted}
    /\ k # 0 /\ (~\E r \in AliasesOn(rs, v) : r.name = n) =>
          f[<<k, n>>] = Promised(rs, v, {n}, qtype)
    /\ \A r \in AliasesOn(rs, v) : k # 0 /\ r.name = n =>
          f[<<k, n>>] = Promised(rs, v, {n}, qtype) \cup f[<<k - 1, ValueOn(r, v)>>]

\* It does so by AnswersOf.
LEMMA AddressCall ==
    ASSUME NEW lr, NEW v, RecordsFit(lr.records, v), NEW qtype \in {"A", "AAAA"},
           NEW f, NEW k \in Nat, NEW n \in Names,
           f[<<k, n>>] = AnswersOf(lr, qtype, v, f, k, n)
    PROVE  CallGives(lr.records, v, qtype, f, k, n)
<1> DEFINE rs == lr.records
<1>1. ASSUME k = 0 PROVE f[<<k, n>>] = {Exhausted}
  BY <1>1 DEF AnswersOf
<1>2. ASSUME k # 0, ~\E r \in AliasesOn(rs, v) : r.name = n
      PROVE  f[<<k, n>>] = Promised(rs, v, {n}, qtype)
  <2>1. Alias(lr, n, v) = {}
    BY <1>2, AliasIs DEF AliasesOn
  <2>2. qtype # "SVCB"
    OBVIOUS
  <2>3. OwnGives(lr, v, qtype, f, k, n)
    BY <1>2, <2>1, <2>2, OwnAnswer
  <2> QED
    BY <2>3 DEF OwnGives
<1>3. ASSUME NEW r \in AliasesOn(rs, v), k # 0, r.name = n
      PROVE  f[<<k, n>>] = Promised(rs, v, {n}, qtype) \cup f[<<k - 1, ValueOn(r, v)>>]
  <2>1. AliasGives(lr, v, qtype, f, k, r)
    BY <1>3, AliasAnswer
  <2> QED
    BY <1>3, <2>1 DEF AliasGives
<1> QED
  BY <1>1, <1>2, <1>3 DEF CallGives

\* The target of an alias is a name.
LEMMA TargetIsName ==
    ASSUME NEW rs, NEW v, RecordsFit(rs, v), NEW r \in AliasesOn(rs, v)
    PROVE  ValueOn(r, v) \in Names
BY DEF AliasesOn, VisibleOn, RecordsFit, FitsOn

\* A call that comes to an end has answered what is promised along the chain.
EndsRight(rs, v, qtype, f, k, n) ==
    Exhausted \in f[<<k, n>>] \/ f[<<k, n>>] = Promised(rs, v, Path(rs, v, n), qtype)

\* Of the depths where one did not, the least would pass the fault to the one before.
LEMMA EndsAsPromised ==
    ASSUME NEW lr, NEW v, RecordsFit(lr.records, v), NEW qtype \in {"A", "AAAA"},
           NEW f, NEW N \in Nat,
           \A k \in 0 .. N, n \in Names : f[<<k, n>>] = AnswersOf(lr, qtype, v, f, k, n)
    PROVE  \A k \in 0 .. N, n \in Names : EndsRight(lr.records, v, qtype, f, k, n)
<1> DEFINE rs == lr.records
           Right(k, n) == \/ Exhausted \in f[<<k, n>>]
                          \/ f[<<k, n>>] = Promised(rs, v, Path(rs, v, n), qtype)
           Wrong == {k \in 0 .. N : \E n \in Names : ~Right(k, n)}
<1>1. SUFFICES ASSUME Wrong # {} PROVE FALSE
  BY DEF EndsRight
<1>2. PICK k \in Wrong : \A j \in Wrong : k <= j
  BY <1>1, LeastNat, Wrong \in SUBSET Nat
<1>3. PICK n \in Names : ~Right(k, n)
  BY <1>2
<1>4. k \in Nat /\ k \in 0 .. N
  BY <1>2
<1>20. CallGives(rs, v, qtype, f, k, n)
  BY <1>4, AddressCall
<1>5. k # 0
  BY <1>3, <1>20 DEF CallGives
<1>6. CASE ~\E r \in AliasesOn(rs, v) : r.name = n
  <2>1. f[<<k, n>>] = Promised(rs, v, {n}, qtype)
    BY <1>5, <1>6, <1>20 DEF CallGives
  <2>2. Path(rs, v, n) = {n}
    BY <1>6, PathEnds
  <2> QED
    BY <1>3, <2>1, <2>2
<1>7. ASSUME NEW r \in AliasesOn(rs, v), r.name = n PROVE FALSE
  <2> DEFINE w == ValueOn(r, v)
  <2>1. f[<<k, n>>] = Promised(rs, v, {n}, qtype) \cup f[<<k - 1, w>>]
    BY <1>5, <1>7, <1>20 DEF CallGives
  <2>2. k - 1 \in 0 .. N /\ ~(k <= k - 1)
    BY <1>4, <1>5
  <2>3. Right(k - 1, w)
    BY <1>2, <1>7, <2>2, TargetIsName
  <2>4. Path(rs, v, n) = {n} \cup Path(rs, v, w)
    BY <1>7, PathGoesOn
  <2>5. Promised(rs, v, Path(rs, v, n), qtype)
          = Promised(rs, v, {n}, qtype) \cup Promised(rs, v, Path(rs, v, w), qtype)
    BY <2>4, PromisedAdds
  <2> QED
    BY <1>3, <2>1, <2>3, <2>5
<1> QED
  BY <1>6, <1>7

\* On a chain of aliases only, no call comes to an end.
LEMMA LoopsNeverEnd ==
    ASSUME NEW lr, NEW v, RecordsFit(lr.records, v), NEW qtype \in {"A", "AAAA"},
           NEW f, NEW N \in Nat,
           \A k \in 0 .. N, n \in Names : f[<<k, n>>] = AnswersOf(lr, qtype, v, f, k, n)
    PROVE  \A k \in 0 .. N, n \in Names :
              Loops(lr.records, v, Path(lr.records, v, n)) => Exhausted \in f[<<k, n>>]
<1> DEFINE rs == lr.records
           Right(k, n) == Loops(rs, v, Path(rs, v, n)) => Exhausted \in f[<<k, n>>]
           Wrong == {k \in 0 .. N : \E n \in Names : ~Right(k, n)}
<1>1. SUFFICES ASSUME Wrong # {} PROVE FALSE
  OBVIOUS
<1>2. PICK k \in Wrong : \A j \in Wrong : k <= j
  BY <1>1, LeastNat, Wrong \in SUBSET Nat
<1>3. PICK n \in Names : ~Right(k, n)
  BY <1>2
<1>4. k \in Nat /\ k \in 0 .. N
  BY <1>2
<1>20. CallGives(rs, v, qtype, f, k, n)
  BY <1>4, AddressCall
<1>5. k # 0
  BY <1>3, <1>20 DEF CallGives
<1>6. PICK r \in AliasesOn(rs, v) : r.name = n
  BY <1>3, PathLeast DEF Loops, AliasesOn
<1> DEFINE w == ValueOn(r, v)
<1>7. f[<<k, n>>] = Promised(rs, v, {n}, qtype) \cup f[<<k - 1, w>>]
  BY <1>5, <1>6, <1>20 DEF CallGives
<1>8. k - 1 \in 0 .. N /\ ~(k <= k - 1)
  BY <1>4, <1>5
<1>9. Right(k - 1, w)
  BY <1>2, <1>6, <1>8, TargetIsName
<1>10. Path(rs, v, n) = {n} \cup Path(rs, v, w)
  BY <1>6, PathGoesOn
<1>11. Loops(rs, v, Path(rs, v, w))
  BY <1>3, <1>10 DEF Loops
<1> QED
  BY <1>3, <1>7, <1>9, <1>11

\* A call comes to an end on any other chain no longer than its depth: the alias it
\* starts with is not met again, so what follows is shorter.
LEMMA OthersEnd ==
    ASSUME NEW lr, NEW v, RecordsFit(lr.records, v), NEW qtype \in {"A", "AAAA"},
           NEW f, NEW N \in Nat,
           \A k \in 0 .. N, n \in Names : f[<<k, n>>] = AnswersOf(lr, qtype, v, f, k, n)
    PROVE  \A k \in 0 .. N, n \in Names :
              /\ ~Loops(lr.records, v, Path(lr.records, v, n))
              /\ Cardinality(Path(lr.records, v, n)) <= k
              => Exhausted \notin f[<<k, n>>]
<1> DEFINE rs == lr.records
           Right(k, n) == /\ ~Loops(rs, v, Path(rs, v, n))
                          /\ Cardinality(Path(rs, v, n)) <= k
                          => Exhausted \notin f[<<k, n>>]
           Wrong == {k \in 0 .. N : \E n \in Names : ~Right(k, n)}
<1>1. SUFFICES ASSUME Wrong # {} PROVE FALSE
  OBVIOUS
<1>2. PICK k \in Wrong : \A j \in Wrong : k <= j
  BY <1>1, LeastNat, Wrong \in SUBSET Nat
<1>3. PICK n \in Names : ~Right(k, n)
  BY <1>2
<1>4. k \in Nat /\ k \in 0 .. N
  BY <1>2
<1>20. CallGives(rs, v, qtype, f, k, n)
  BY <1>4, AddressCall
<1>5. \A m \in Names : /\ IsFiniteSet(Path(rs, v, m))
                        /\ Cardinality(Path(rs, v, m)) \in Nat
  BY PathNames, WithinAssumption, FS_Subset, FS_CardinalityType
<1>6. k # 0
  <2>1. Path(rs, v, n) # {}
    BY PathLeast
  <2>2. Cardinality(Path(rs, v, n)) # 0
    BY <1>5, <2>1, FS_EmptySet
  <2> QED
    BY <1>3, <1>4, <1>5, <2>2
<1>7. CASE ~\E r \in AliasesOn(rs, v) : r.name = n
  <2>1. f[<<k, n>>] = Promised(rs, v, {n}, qtype)
    BY <1>6, <1>7, <1>20 DEF CallGives
  <2> QED
    BY <1>3, <2>1, NotPromised
<1>8. ASSUME NEW r \in AliasesOn(rs, v), r.name = n PROVE FALSE
  <2> DEFINE w == ValueOn(r, v)
  <2>1. f[<<k, n>>] = Promised(rs, v, {n}, qtype) \cup f[<<k - 1, w>>]
    BY <1>6, <1>8, <1>20 DEF CallGives
  <2>2. k - 1 \in 0 .. N /\ ~(k <= k - 1) /\ w \in Names
    BY <1>4, <1>6, TargetIsName
  <2>3. Right(k - 1, w)
    BY <1>2, <2>2
  <2>4. Path(rs, v, n) = {n} \cup Path(rs, v, w)
    BY <1>8, PathGoesOn
  <2>5. n \notin Path(rs, v, w)
    BY <1>3, <1>8, ComesBack
  <2>6. Cardinality(Path(rs, v, n)) = Cardinality(Path(rs, v, w)) + 1
    <3>1. Cardinality(Path(rs, v, w) \cup {n}) = Cardinality(Path(rs, v, w)) + 1
      BY <1>5, <2>2, <2>5, FS_AddElement
    <3> QED
      BY <2>4, <3>1, Path(rs, v, w) \cup {n} = {n} \cup Path(rs, v, w)
  <2>7. Cardinality(Path(rs, v, w)) <= k - 1
    BY <1>3, <1>4, <1>5, <2>2, <2>6
  <2>8. ~Loops(rs, v, Path(rs, v, w))
    <3>1. PICK m \in Path(rs, v, n) : ~\E q \in AliasesOn(rs, v) : q.name = m
      BY <1>3 DEF Loops, AliasesOn
    <3>2. m \in Path(rs, v, w)
      BY <1>8, <2>4, <3>1
    <3> QED
      BY <3>1, <3>2 DEF Loops, AliasesOn
  <2>9. Exhausted \notin f[<<k - 1, w>>]
    BY <2>3, <2>7, <2>8
  <2> QED
    BY <1>3, <2>1, <2>9, NotPromised
<1> QED
  BY <1>7, <1>8

\* The answer to an address query: the aliases of the chain and the records at its
\* end, unless it never ends.
LEMMA AddressAnswer ==
    ASSUME NEW lr, NEW v, RecordsFit(lr.records, v), NEW qtype \in {"A", "AAAA"},
           NEW n \in Names
    PROVE  LET rs == lr.records
               path == Path(rs, v, n)
               answers == BuildAnswers(lr, n, qtype, v)
           IN  /\ Exhausted \in answers <=> Loops(rs, v, path)
               /\ Exhausted \notin answers => answers = Promised(rs, v, path, qtype)
<1> DEFINE rs == lr.records
           N == Cardinality(Names)
           path == Path(rs, v, n)
<1>1. N \in Nat /\ N \in 0 .. N
  BY WithinAssumption, FS_CardinalityType
<1>2. PICK f : /\ \A k \in 0 .. N, m \in Names : f[<<k, m>>] = AnswersOf(lr, qtype, v, f, k, m)
               /\ \A m : BuildAnswers(lr, m, qtype, v) = f[<<N, m>>]
  BY AliasesFit, Calls
<1>3. Cardinality(path) <= N
  BY PathNames, WithinAssumption, FS_Subset
<1> HIDE DEF N
<1>4. Exhausted \in f[<<N, n>>] \/ f[<<N, n>>] = Promised(rs, v, path, qtype)
  <2>1. \A k \in 0 .. N, m \in Names : EndsRight(rs, v, qtype, f, k, m)
    BY <1>1, <1>2, EndsAsPromised
  <2> QED
    BY <1>1, <2>1 DEF EndsRight
<1>5. Loops(rs, v, path) => Exhausted \in f[<<N, n>>]
  BY <1>1, <1>2, LoopsNeverEnd
<1>6. ~Loops(rs, v, path) => Exhausted \notin f[<<N, n>>]
  BY <1>1, <1>2, <1>3, OthersEnd
<1> QED
  BY <1>2, <1>4, <1>5, <1>6

\* The answer to any other query but for the designated resolvers is what the
\* name itself promises.
LEMMA OtherAnswer ==
    ASSUME NEW lr, NEW v, RecordsFit(lr.records, v), NEW n \in Names,
           NEW qtype, qtype \notin {"A", "AAAA"}, qtype # "SVCB" \/ n # DdrName
    PROVE  LET answers == BuildAnswers(lr, n, qtype, v)
           IN  answers = Promised(lr.records, v, {n}, qtype) /\ Exhausted \notin answers
<1> DEFINE rs == lr.records
           N == Cardinality(Names)
<1>1. N \in Nat /\ N # 0 /\ N \in 0 .. N
  BY WithinAssumption, FS_CardinalityType, FS_EmptySet
<1>2. PICK f : /\ \A k \in 0 .. N, m \in Names : f[<<k, m>>] = AnswersOf(lr, qtype, v, f, k, m)
               /\ \A m : BuildAnswers(lr, m, qtype, v) = f[<<N, m>>]
  BY AliasesFit, Calls
<1> HIDE DEF N
<1>3. BuildAnswers(lr, n, qtype, v) = Promised(rs, v, {n}, qtype)
  <2>1. CASE Alias(lr, n, v) = {}
    <3>1. OwnGives(lr, v, qtype, f, N, n)
      BY <1>1, <2>1, OwnAnswer
    <3>2. f[<<N, n>>] = AnswersOf(lr, qtype, v, f, N, n)
      BY <1>1, <1>2
    <3> QED
      BY <1>2, <3>1, <3>2 DEF OwnGives
  <2>2. CASE Alias(lr, n, v) # {}
    <3>1. PICK r \in AliasesOn(rs, v) : r.name = n
      BY <2>2, AliasIs DEF AliasesOn
    <3>2. AliasGives(lr, v, qtype, f, N, r)
      BY <1>1, AliasAnswer
    <3>3. f[<<N, n>>] = AnswersOf(lr, qtype, v, f, N, n)
      BY <1>1, <1>2
    <3>4. qtype \notin {"A", "AAAA"}
      OBVIOUS
    <3> QED
      BY <1>2, <3>1, <3>2, <3>3, <3>4 DEF AliasGives
  <2> QED
    BY <2>1, <2>2
<1>4. Exhausted \notin Promised(rs, v, {n}, qtype)
  <2>1. Exhausted.type = "exhausted"
    BY DEF Exhausted, RR
  <2>2. \A r \in rs : r.type # "exhausted"
    BY DEF RecordsFit
  <2>3. \A x \in Promised(rs, v, {n}, qtype) :
            x.type = "CNAME" \/ \E r \in rs : x.type = r.type
    BY PromisedTypes
  <2> QED
    BY <2>1, <2>2, <2>3
<1> QED
  BY <1>3, <1>4

---------------------------------------------------------------------------
(* What a reload loads. *)

\* The machine's address on a VLAN is one of its addresses there, if there is any.
LEMMA OnVlanFound ==
    ASSUME NEW vs, NEW a \in AddrsPool, NEW name, NEW v4
    PROVE  LET near == {ip \in ToSet(a) : IsV4(ip) = v4 /\ Lookup(vs, ip) = name}
           IN  /\ near # {} => OnVlan(vs, a, name, v4) \in near /\ OnVlan(vs, a, name, v4) # NoValue
               /\ near = {} => OnVlan(vs, a, name, v4) = NoValue
<1> DEFINE near == {ip \in ToSet(a) : IsV4(ip) = v4 /\ Lookup(vs, ip) = name}
<1>1. a \in Seq(ToSet(a)) /\ NoValue \notin ToSet(a)
  BY AddressList
<1>2. ToSet(a) \cap near = near /\ OnVlan(vs, a, name, v4) = First(a, near)
  BY DEF OnVlan
<1> HIDE DEF near
<1>3. /\ ToSet(a) \cap near # {} => First(a, near) \in ToSet(a) \cap near
      /\ ToSet(a) \cap near = {} => First(a, near) = NoValue
  BY <1>1, FirstFound
<1> QED
  BY <1>1, <1>2, <1>3 DEF near

\* The synthesized record of a family says, on each VLAN, the machine's address
\* there or else its primary one.
LEMMA FamilyIs ==
    ASSUME NEW s, NEW a, NEW t, NEW r \in FamilyRecord(s, a, t), NEW v
    PROVE  /\ r.name = AcmeDomain(s) /\ r.type = t
           /\ ~Hidden(r, v)
           /\ ValueOn(r, v) =
                IF v \in VlanNames(s) /\ OnVlan(s.vlans, a, v, t = "A") # NoValue
                THEN OnVlan(s.vlans, a, v, t = "A") ELSE Primary(a, t = "A")
<1> DEFINE def  == Primary(a, t = "A")
           On(n) == OnVlan(s.vlans, a, n, t = "A")
           with == {n \in VlanNames(s) : On(n) # NoValue}
           ovs  == [n \in with |-> [value |-> On(n), ttl |-> 0, nxdomain |-> FALSE]]
<1>1. r = [name |-> AcmeDomain(s), type |-> t, default |-> def, ttl |-> 0,
           overrides |-> ovs, match |-> NoValue]
  BY DEF FamilyRecord, VlanNames
<1> HIDE DEF def, On
<1>2. r.overrides = ovs /\ r.default = def /\ r.name = AcmeDomain(s) /\ r.type = t
  BY <1>1
<1>3. DOMAIN ovs = with /\ \A n \in with : ovs[n].value = On(n) /\ ~ovs[n].nxdomain
  OBVIOUS
<1> HIDE DEF ovs
<1>4. ~Hidden(r, v)
  BY <1>2, <1>3 DEF Hidden
<1>5. ValueOn(r, v) = IF v \in with THEN On(v) ELSE def
  BY <1>2, <1>3 DEF ValueOn
<1> QED
  BY <1>2, <1>4, <1>5 DEF On, def

\* So its value is of its family.
LEMMA FamilyFits ==
    ASSUME NEW s, NEW a \in AddrsPool, NEW t \in {"A", "AAAA"},
           NEW r \in FamilyRecord(s, a, t), NEW v
    PROVE  FitsOn(r, v)
<1> DEFINE val == ValueOn(r, v)
<1>1. r.type = t
  BY FamilyIs
<1>2. val # NoValue => IsV4(val) = (t = "A")
  <2>1. CASE val = OnVlan(s.vlans, a, v, t = "A")
    BY <2>1, OnVlanFound
  <2>2. CASE val = Primary(a, t = "A")
    BY <2>2, PrimaryFound
  <2> QED
    BY <2>1, <2>2, FamilyIs
<1> QED
  BY <1>1, <1>2 DEF FitsOn, IsV4

\* A record that passed the validation fits on every VLAN.
LEMMA ValidFits ==
    ASSUME NEW r, NEW vns, NEW zones, ValidRecord(r, vns, zones), r.type # "mdns", NEW v
    PROVE  r.type \in {"A", "AAAA", "CNAME"} /\ FitsOn(r, v)
<1>1. /\ r.type \in {"A", "AAAA", "CNAME"}
      /\ r.default # NoValue => ValidValue(r.type, r.default)
      /\ \A w \in DOMAIN r.overrides : ValidOverride(r, w, vns)
  BY DEF ValidRecord, StaticTypes
<1>2. \A x : ValidValue(r.type, x) => /\ r.type = "A" => IsV4(x)
                                      /\ r.type = "AAAA" => ~IsV4(x)
                                      /\ r.type = "CNAME" => x \in Names
  BY <1>1 DEF ValidValue
<1>3. ASSUME ValueOn(r, v) # NoValue PROVE ValidValue(r.type, ValueOn(r, v))
  <2>1. CASE v \in DOMAIN r.overrides /\ r.overrides[v].value # NoValue
    BY <1>1, <2>1 DEF ValueOn, ValidOverride
  <2>2. CASE ~(v \in DOMAIN r.overrides /\ r.overrides[v].value # NoValue)
    BY <1>1, <1>3, <2>2 DEF ValueOn
  <2> QED
    BY <2>1, <2>2
<1> QED
  BY <1>1, <1>2, <1>3 DEF FitsOn

\* The zone data of a configuration that passed the validation: the records the
\* operator declared and the synthesized ones.
LEMMA LoadedFit ==
    ASSUME NEW c, ConfigShaped(c), Validate(c), NEW a \in AddrsPool, NEW v
    PROVE  RecordsFit(StaticRecords(c, a), v)
<1> DEFINE s == c.settings
           rs == StaticRecords(c, a)
           Good(r) == r.name \in Names /\ r.type \in {"A", "AAAA", "CNAME"} /\ FitsOn(r, v)
<1>1. ASSUME NEW r \in c.records, r.type # "mdns" PROVE Good(r)
  <2>1. ValidRecord(r, VlanNames(s), OwnedZones(s))
    BY DEF Validate, ValidRecords
  <2>2. r.type \in {"A", "AAAA", "CNAME"} /\ FitsOn(r, v)
    BY <1>1, <2>1, ValidFits
  <2> QED
    BY <2>2 DEF ConfigShaped
<1>2. ASSUME NEW r \in AcmeSelfRecords(s, c.records, a)
      PROVE  Good(r) /\ r.type # "CNAME"
  <2>1. PICK t \in {"A", "AAAA"} : r \in FamilyRecord(s, a, t)
    BY DEF AcmeSelfRecords
  <2>2. r.name = AcmeDomain(s) /\ r.type = t
    BY <2>1, FamilyIs
  <2>3. AcmeDomain(s) # NoValue
    BY DEF AcmeSelfRecords
  <2>4. AcmeDomain(s) \in Names
    BY <2>3, ZonesAreNames DEF ConfigShaped, Validate
  <2>5. FitsOn(r, v)
    BY <2>1, FamilyFits
  <2> QED
    BY <2>1, <2>2, <2>4, <2>5
<1>3. \A r, q \in c.records : r.name = q.name /\ r.type = q.type => r = q
  BY DEF Validate, ValidRecords
<1> HIDE DEF Good
<1>4. \A r \in rs : Good(r)
  BY <1>1, <1>2 DEF StaticRecords
<1>5. \A r \in rs : r.type = "CNAME" => r \in c.records
  BY <1>2 DEF StaticRecords
<1>6. \A r, q \in rs : r.type = "CNAME" /\ q.type = "CNAME" /\ r.name = q.name => r = q
  BY <1>3, <1>5
<1> QED
  BY <1>4, <1>6 DEF RecordsFit, Good

\* The plugins of the serving instance, as the proofs use them.
LEMMA Loaded ==
    ASSUME EditInv
    PROVE  LET c == live.config
               s == c.settings
           IN  /\ Plugins.zones = OwnedZones(s) /\ Plugins.fallthrough = FallthroughZones(s)
               /\ Plugins.records = StaticRecords(c, live.addrs)
               /\ Plugins.ddr = DdrRecords(s) /\ Plugins.hosts = c.hosts
               /\ \A ip : Lookup(Plugins.vlans, ip) = Horizon(c, ip)
               /\ \A v : RecordsFit(Plugins.records, v)
<1> DEFINE c == live.config
           s == c.settings
<1>1. /\ Plugins.zones = OwnedZones(s) /\ Plugins.fallthrough = FallthroughZones(s)
      /\ Plugins.records = StaticRecords(c, live.addrs)
      /\ Plugins.ddr = DdrRecords(s) /\ Plugins.hosts = c.hosts
      /\ Plugins.vlans = s.vlans
  BY DEF Plugins, Load, EditInv, ServingInv, ServesOneConfiguration
<1>2. ConfigShaped(c) /\ Validate(c) /\ live.addrs \in AddrsPool
  BY DEF EditInv, ServingInv, ServesOneConfiguration, Renders
<1>3. \A ip : Lookup(Plugins.vlans, ip) = Horizon(c, ip)
  BY <1>1, <1>2, OneHorizon DEF ConfigShaped, Validate
<1>4. \A v : RecordsFit(Plugins.records, v)
  BY <1>1, <1>2, LoadedFit
<1> QED
  BY <1>1, <1>3, <1>4

---------------------------------------------------------------------------
(* What a client is told. *)

\* Of the zones of the serving instance, the one a name is matched to.
LEMMA Zone ==
    ASSUME EditInv, NEW n \in Names
    PROVE  LET in == OwnedZones(live.config.settings) \cap Within[n]
               zone == Matches(Plugins.zones, n)
           IN  /\ in # {} => zone \in in /\ zone # NoValue /\ in \subseteq Within[zone]
               /\ in = {} => zone = NoValue
<1> DEFINE s == live.config.settings
<1>1. OwnedZones(s) \subseteq {OwnedZone, AcmeDomain(s), DDRZone} /\ NoValue \notin OwnedZones(s)
  BY ZonesAreNames DEF EditInv, ServingInv, ServesOneConfiguration, ConfigShaped, Renders, Validate
<1>2. Plugins.zones = OwnedZones(s)
  BY Loaded
<1> DEFINE zs == OwnedZones(s)
<1> HIDE DEF zs
<1>3. zs \subseteq {OwnedZone, AcmeDomain(s), DDRZone} /\ NoValue \notin zs
  BY <1>1 DEF zs
<1>4. LET in == zs \cap Within[n]
      IN  /\ in # {} => /\ Matches(zs, n) \in in /\ Matches(zs, n) # NoValue
                        /\ in \subseteq Within[Matches(zs, n)]
          /\ in = {} => Matches(zs, n) = NoValue
  BY <1>3, ZoneMatched
<1> QED
  BY <1>2, <1>4 DEF zs

\* What buildAnswers says, for any type but SVCB: the promise along the chain, with
\* no designated resolver in it, unless the chain never ends.
Told(rs, v, n, t, answers) ==
    LET path == IF t \in {"A", "AAAA"} THEN Path(rs, v, n) ELSE {n}
    IN  /\ Exhausted \in answers <=> t \in {"A", "AAAA"} /\ Loops(rs, v, path)
        /\ Exhausted \notin answers => /\ answers = Promised(rs, v, path, t)
                                       /\ \A rr \in answers : rr.type # "SVCB"

\* It does.
LEMMA IsTold ==
    ASSUME NEW lr, NEW v, RecordsFit(lr.records, v), NEW n \in Names,
           NEW t, t # "SVCB" \/ n # DdrName
    PROVE  Told(lr.records, v, n, t, BuildAnswers(lr, n, t, v))
<1> DEFINE rs == lr.records
           answers == BuildAnswers(lr, n, t, v)
           path == IF t \in {"A", "AAAA"} THEN Path(rs, v, n) ELSE {n}
<1>1. CASE t \in {"A", "AAAA"}
  <2>1. /\ Exhausted \in answers <=> Loops(rs, v, Path(rs, v, n))
        /\ Exhausted \notin answers => answers = Promised(rs, v, Path(rs, v, n), t)
    BY <1>1, AddressAnswer
  <2> HIDE DEF answers
  <2>2. \A rr \in Promised(rs, v, path, t) : rr.type # "SVCB"
    BY <1>1, PromisedTypes
  <2> QED
    BY <1>1, <2>1, <2>2 DEF Told, answers
<1>2. CASE t \notin {"A", "AAAA"}
  <2>1. answers = Promised(rs, v, {n}, t) /\ Exhausted \notin answers
    BY <1>2, OtherAnswer
  <2> HIDE DEF answers
  <2>2. \A r \in rs : r.type # "SVCB"
    BY DEF RecordsFit
  <2>3. \A rr \in Promised(rs, v, path, t) : rr.type # "SVCB"
    BY <2>2, PromisedTypes
  <2> QED
    BY <1>2, <2>1, <2>3 DEF Told, answers
<1> QED
  BY <1>1, <1>2

\* Without a designated resolver in the answer there is nothing to add to it.
LEMMA NoGlue ==
    ASSUME NEW lr, NEW answers, NEW v, \A rr \in answers : rr.type # "SVCB"
    PROVE  DdrGlue(lr, answers, v) = {}
BY DEF DdrGlue

\* What ServeDNS makes of the answers.
RepliesWith(lr, zone, answers, present, reply) ==
    /\ reply.by \in {"localrecords", "next", "nobody"}
    /\ reply.by = "nobody" <=> zone # NoValue /\ Exhausted \in answers
    /\ reply.by = "next" <=> zone = NoValue \/ (answers = {} /\ zone \in lr.fallthrough)
    /\ reply.by = "localrecords" =>
           /\ reply.answer = answers /\ Exhausted \notin answers
           /\ answers = {} /\ ~present => reply.rcode = "NXDOMAIN"
           /\ answers # {} => reply.rcode = "NOERROR"

\* ServeDNS for such a query.
LEMMA Served ==
    ASSUME NEW lr, NEW client, NEW n, NEW t, NEW rs, NEW v, v = Lookup(lr.vlans, client),
           Told(rs, v, n, t, BuildAnswers(lr, n, t, v))
    PROVE  RepliesWith(lr, Matches(lr.zones, n), BuildAnswers(lr, n, t, v),
                       NamePresent(lr, n, v), ServeDNS(lr, client, n, t))
<1> DEFINE zone    == Matches(lr.zones, n)
           answers == BuildAnswers(lr, n, t, v)
           glue    == DdrGlue(lr, answers, v)
           reply   == ServeDNS(lr, client, n, t)
           Goal    == RepliesWith(lr, zone, answers, NamePresent(lr, n, v), reply)
<1> SUFFICES Goal
  OBVIOUS
<1>1. Exhausted \notin answers => glue = {}
  BY NoGlue DEF Told
<1>2. reply = IF zone = NoValue THEN ToNext
              ELSE IF Exhausted \in answers THEN Crashed
              ELSE IF answers = {} /\ zone \in lr.fallthrough THEN ToNext
              ELSE IF answers = {} /\ ~NamePresent(lr, n, v)
                   THEN Reply("localrecords", "NXDOMAIN", {}, {})
              ELSE IF Exhausted \in glue THEN Crashed
              ELSE Reply("localrecords", "NOERROR", answers, glue)
  BY DEF ServeDNS
<1> HIDE DEF zone, answers, glue, reply
<1>3. /\ ToNext.by = "next" /\ Crashed.by = "nobody"
      /\ \A rcode, x, y : /\ Reply("localrecords", rcode, x, y).by = "localrecords"
                          /\ Reply("localrecords", rcode, x, y).rcode = rcode
                          /\ Reply("localrecords", rcode, x, y).answer = x
  BY DEF ToNext, Crashed, Reply
<1>4. CASE zone = NoValue
  BY <1>2, <1>3, <1>4 DEF RepliesWith
<1>5. CASE zone # NoValue /\ Exhausted \in answers
  <2>1. reply = Crashed /\ answers # {}
    BY <1>2, <1>5
  <2> QED
    BY <1>3, <1>5, <2>1 DEF RepliesWith
<1>6. CASE zone # NoValue /\ Exhausted \notin answers
  <2>1. Exhausted \notin glue
    BY <1>1, <1>6
  <2>2. CASE answers = {} /\ zone \in lr.fallthrough
    <3>1. reply = ToNext
      BY <1>2, <1>6, <2>2
    <3> QED
      BY <1>3, <1>6, <2>2, <3>1 DEF RepliesWith
  <2>3. CASE answers = {} /\ zone \notin lr.fallthrough /\ ~NamePresent(lr, n, v)
    <3>1. reply = Reply("localrecords", "NXDOMAIN", {}, {})
      BY <1>2, <1>6, <2>3
    <3> QED
      BY <1>3, <1>6, <2>3, <3>1 DEF RepliesWith
  <2>4. CASE answers # {} \/ (zone \notin lr.fallthrough /\ NamePresent(lr, n, v))
    <3>1. reply = Reply("localrecords", "NOERROR", answers, glue)
      BY <1>2, <1>6, <2>1, <2>4
    <3> QED
      BY <1>3, <1>6, <2>4, <3>1 DEF RepliesWith
  <2> QED
    BY <2>2, <2>3, <2>4
<1> QED
  BY <1>4, <1>5, <1>6

\* localrecords does not answer in the name of hosts, and what it leaves to the next
\* plugin has no answer yet.
LEMMA NeverHosts ==
    ASSUME NEW lr, NEW client, NEW n, NEW t PROVE ServeDNS(lr, client, n, t).by # "hosts"
<1> DEFINE v       == Lookup(lr.vlans, client)
           answers == BuildAnswers(lr, n, t, v)
           glue    == DdrGlue(lr, answers, v)
           reply   == ServeDNS(lr, client, n, t)
<1> SUFFICES reply.by # "hosts"
  OBVIOUS
<1>1. \/ reply \in {ToNext, Crashed, Reply("localrecords", "NXDOMAIN", {}, {})}
      \/ reply = Reply("localrecords", "NOERROR", answers, glue)
  BY DEF ServeDNS
<1> HIDE DEF reply, answers, glue
<1> QED
  BY <1>1 DEF Crashed, ToNext, Reply

\* The second half.
LEMMA NextHasNone ==
    ASSUME NEW lr, NEW client, NEW n, NEW t, ServeDNS(lr, client, n, t).by = "next"
    PROVE  ServeDNS(lr, client, n, t).answer = {}
<1> DEFINE v       == Lookup(lr.vlans, client)
           answers == BuildAnswers(lr, n, t, v)
           glue    == DdrGlue(lr, answers, v)
           reply   == ServeDNS(lr, client, n, t)
<1> SUFFICES ASSUME reply.by = "next" PROVE reply.answer = {}
  OBVIOUS
<1>1. \/ reply \in {ToNext, Crashed, Reply("localrecords", "NXDOMAIN", {}, {})}
      \/ reply = Reply("localrecords", "NOERROR", answers, glue)
  BY DEF ServeDNS
<1> HIDE DEF reply, answers, glue
<1> QED
  BY <1>1 DEF Crashed, ToNext, Reply

\* Every server block has mdnsbridge exactly when mDNS is on.
LEMMA Blocks ==
    ASSUME NEW s, NEW b \in BuildCorefile(s) PROVE b.mdnsbridge = s.mdns.enabled
<1> DEFINE Good(out) == \A x \in out.blocks : x.mdnsbridge = s.mdns.enabled
           none  == [blocks |-> {}, observability |-> TRUE]
           plain == NextBlock(none, "plain", s)
           dot   == NextBlock(plain, "dot", s)
           doh   == NextBlock(dot, "doh", s)
           doq   == NextBlock(doh, "doq", s)
           doh3  == NextBlock(doq, "doh3", s)
<1>1. ASSUME NEW out, NEW l, Good(out) PROVE Good(NextBlock(out, l, s))
  BY <1>1 DEF NextBlock, BuildServerBlock
<1>2. Good(none)
  OBVIOUS
<1>3. b \in doh3.blocks
  BY DEF BuildCorefile
<1> HIDE DEF Good, none
<1>4. Good(plain)
  BY <1>1, <1>2
<1> HIDE DEF plain
<1>5. Good(dot)
  BY <1>1, <1>4
<1> HIDE DEF dot
<1>6. Good(doh)
  BY <1>1, <1>5
<1> HIDE DEF doh
<1>7. Good(doq)
  BY <1>1, <1>6
<1> HIDE DEF doq
<1>8. Good(doh3)
  BY <1>1, <1>7
<1> HIDE DEF doh3
<1> QED
  BY <1>3, <1>8 DEF Good

\* Who answers a query: hosts, mdnsbridge, or else localrecords.
LEMMA Chain ==
    ASSUME EditInv, NEW q \in Queries
    PROVE  LET c == live.config
               reply == Serve(Plugins, q)
           IN  /\ q.client \in Clients /\ q.name \in Names /\ q.type \in QTypes
               /\ Hosted(c, q.name) => reply.by = "hosts"
               /\ ~Hosted(c, q.name) /\ Discovered(c, q) => reply.by = "mdnsbridge"
               /\ ~Hosted(c, q.name) /\ ~Discovered(c, q) =>
                      reply = ServeDNS(Plugins, q.client, q.name, q.type)
<1> DEFINE c == live.config
           lr == Plugins
           reply == Serve(Plugins, q)
<1>1. q.client \in Clients /\ q.name \in Names /\ q.type \in QTypes /\ q.block \in lr.blocks
  BY DEF Queries
<1>2. lr.hosts = c.hosts /\ lr.blocks = BuildCorefile(c.settings)
  BY DEF Plugins, Load
<1>3. q.block.mdnsbridge = c.settings.mdns.enabled
  BY <1>1, <1>2, Blocks
<1> HIDE DEF lr
<1>4. /\ Hosted(c, q.name) <=> \E h \in lr.hosts : q.name \in h.names
      /\ Discovered(c, q) <=> q.block.mdnsbridge /\ q.name \in DOMAIN q.table
  BY <1>2, <1>3 DEF Hosted, Discovered
<1>5. reply = IF Hosted(c, q.name)
              THEN Reply("hosts", "NOERROR", HostsAnswer(lr.hosts, q.name, q.type), {})
              ELSE IF Discovered(c, q)
              THEN Reply("mdnsbridge", "NOERROR", BridgeAnswer(q.table, q.name, q.type), {})
              ELSE ServeDNS(lr, q.client, q.name, q.type)
  BY <1>4 DEF Serve, lr
<1>6. \A by, rcode, x, y : Reply(by, rcode, x, y).by = by
  BY DEF Reply
<1> HIDE DEF reply
<1>7. ASSUME Hosted(c, q.name) PROVE reply.by = "hosts"
  BY <1>5, <1>6, <1>7
<1>8. ASSUME ~Hosted(c, q.name), Discovered(c, q) PROVE reply.by = "mdnsbridge"
  BY <1>5, <1>6, <1>8
<1>9. ASSUME ~Hosted(c, q.name), ~Discovered(c, q)
      PROVE  reply = ServeDNS(lr, q.client, q.name, q.type)
  BY <1>5, <1>9
<1> QED
  BY <1>1, <1>7, <1>8, <1>9 DEF reply, lr

\* At every listener, every client is told exactly what the served configuration
\* says of its VLAN, along whole alias chains, for every name of an owned zone that
\* no hosts entry and no device has taken and whose chain ends; and a declared name
\* is answered from hosts.yaml exactly when Render warned of it (handler.go:78,
\* handler.go:209).
THEOREM ToldAsConfigured == Spec => []AnswersAsConfigured
<1>1. EditInv => AnswersAsConfigured
  <2> SUFFICES ASSUME EditInv PROVE AnswersAsConfigured
    OBVIOUS
  <2> DEFINE c  == live.config
             lr == Plugins
             rs == lr.records
  <2> SUFFICES ASSUME NEW q \in Queries
               PROVE  LET v     == Horizon(c, q.client)
                          path  == PathOf(rs, v, q)
                          said  == Promised(rs, v, path, q.type)
                          reply == Serve(lr, q)
                      IN  /\ /\ Owned(c, q.name) /\ ~Hosted(c, q.name) /\ ~Discovered(c, q)
                             /\ q.type # "SVCB" /\ (q.type \in {"A", "AAAA"} => ~Loops(rs, v, path))
                             => /\ reply.answer = said /\ reply.by # "nobody"
                                /\ said # {} => reply.by = "localrecords" /\ reply.rcode = "NOERROR"
                          /\ (\E r \in c.records : r.name = q.name) =>
                                 (reply.by = "hosts" <=> q.name \in ShadowedNames(c))
    BY DEF AnswersAsConfigured
  <2> DEFINE n     == q.name
             t     == q.type
             v     == Horizon(c, q.client)
             path  == PathOf(rs, v, q)
             said  == Promised(rs, v, path, t)
             reply == Serve(lr, q)
             answers == BuildAnswers(lr, n, t, v)
             zone  == Matches(lr.zones, n)
             taken == Hosted(c, n) \/ Discovered(c, q)
  <2>1. /\ n \in Names
        /\ Hosted(c, n) => reply.by = "hosts"
        /\ ~Hosted(c, n) /\ Discovered(c, q) => reply.by = "mdnsbridge"
        /\ ~taken => reply = ServeDNS(lr, q.client, n, t)
    BY Chain
  <2>2. lr.hosts = c.hosts /\ v = Lookup(lr.vlans, q.client) /\ \A w : RecordsFit(rs, w)
    BY Loaded
  <2>3. (\E r \in c.records : r.name = n) => (Hosted(c, n) <=> n \in ShadowedNames(c))
    BY DEF ShadowedNames, Hosted
  <2>4. ASSUME ~taken
        PROVE  /\ reply.by # "hosts"
               /\ Owned(c, n) /\ t # "SVCB" /\ (t \in {"A", "AAAA"} => ~Loops(rs, v, path))
                  => /\ reply.answer = said /\ reply.by # "nobody"
                     /\ said # {} => reply.by = "localrecords" /\ reply.rcode = "NOERROR"
    <3>1. reply = ServeDNS(lr, q.client, n, t)
      BY <2>1, <2>4
    <3>2. reply.by # "hosts"
      BY <3>1, NeverHosts
    <3>3. ASSUME Owned(c, n), t # "SVCB", t \in {"A", "AAAA"} => ~Loops(rs, v, path)
          PROVE  /\ reply.answer = said /\ reply.by # "nobody"
                 /\ said # {} => reply.by = "localrecords" /\ reply.rcode = "NOERROR"
      <4>1. Told(rs, v, n, t, answers)
        BY <2>1, <2>2, <3>3, IsTold
      <4>2. zone # NoValue
        BY <2>1, <3>3, Zone DEF Owned
      <4>3. /\ Exhausted \in answers <=> t \in {"A", "AAAA"} /\ Loops(rs, v, path)
            /\ Exhausted \notin answers => answers = said
        BY <4>1 DEF Told, PathOf
      <4> HIDE DEF v, reply, rs, lr, zone, path, said
      <4>4. /\ reply.by \in {"localrecords", "next", "nobody"}
            /\ reply.by = "nobody" <=> zone # NoValue /\ Exhausted \in answers
            /\ reply.by = "next" <=> zone = NoValue \/ (answers = {} /\ zone \in lr.fallthrough)
            /\ reply.by = "localrecords" => /\ reply.answer = answers
                                            /\ answers # {} => reply.rcode = "NOERROR"
        <5>1. v = Lookup(lr.vlans, q.client) /\ Told(rs, v, n, t, BuildAnswers(lr, n, t, v))
          BY <2>2, <4>1
        <5>2. RepliesWith(lr, Matches(lr.zones, n), BuildAnswers(lr, n, t, v),
                          NamePresent(lr, n, v), ServeDNS(lr, q.client, n, t))
          BY <5>1, Served
        <5> QED
          BY <3>1, <5>2 DEF zone, RepliesWith
      <4>5. reply.by = "next" => reply.answer = {}
        BY <3>1, NextHasNone
      <4> HIDE DEF answers
      <4>6. Exhausted \notin answers /\ answers = said
        BY <3>3, <4>3
      <4> QED
        BY <4>2, <4>4, <4>5, <4>6
    <3> QED
      BY <3>2, <3>3
  <2> HIDE DEF reply, said, path, v
  <2>5. (\E r \in c.records : r.name = n) => (reply.by = "hosts" <=> n \in ShadowedNames(c))
    BY <2>1, <2>3, <2>4
  <2> QED
    BY <2>4, <2>5 DEF reply, said, path, v
<1> QED
  BY <1>1, Always, PTL

\* A name in a zone without fall-through is not left to the next plugin.
LEMMA KeptHere ==
    ASSUME NEW lr, NEW client, NEW n, NEW t,
           Matches(lr.zones, n) # NoValue, Matches(lr.zones, n) \notin lr.fallthrough
    PROVE  ServeDNS(lr, client, n, t).by # "next"
<1> DEFINE v       == Lookup(lr.vlans, client)
           answers == BuildAnswers(lr, n, t, v)
           glue    == DdrGlue(lr, answers, v)
           reply   == ServeDNS(lr, client, n, t)
           None    == Reply("localrecords", "NXDOMAIN", {}, {})
           Some    == Reply("localrecords", "NOERROR", answers, glue)
<1> SUFFICES reply.by # "next"
  OBVIOUS
<1>1. reply = Crashed \/ reply = None \/ reply = Some
  BY DEF ServeDNS
<1> HIDE DEF reply, answers, glue
<1> QED
  BY <1>1 DEF Crashed, Reply

\* A name all of whose records are hidden from a VLAN is told as one without any.
LEMMA HiddenIsTold ==
    ASSUME NEW lr, NEW v, RecordsFit(lr.records, v), NEW n \in Names, n # DdrName,
           NEW t, \A r \in lr.records : r.name = n => Hidden(r, v)
    PROVE  /\ Told(lr.records, v, n, t, BuildAnswers(lr, n, t, v))
           /\ Exhausted \notin BuildAnswers(lr, n, t, v) => BuildAnswers(lr, n, t, v) = {}
           /\ ~NamePresent(lr, n, v)
<1> DEFINE rs == lr.records
           answers == BuildAnswers(lr, n, t, v)
           path == IF t \in {"A", "AAAA"} THEN Path(rs, v, n) ELSE {n}
<1>1. Told(rs, v, n, t, answers)
  BY IsTold
<1>2. \A r \in VisibleOn(rs, v) : r.name # n
  BY DEF VisibleOn
<1>3. path = {n}
  BY <1>2, PathEnds DEF AliasesOn
<1>4. Promised(rs, v, {n}, t) = {}
  <2>1. \A x : x \notin Promised(rs, v, {n}, t)
    BY <1>2, PromisedOf DEF Answering
  <2> QED
    BY <2>1
<1>5. Exhausted \notin answers => answers = {}
  <2>1. Exhausted \notin answers => answers = Promised(rs, v, path, t)
    BY <1>1 DEF Told
  <2> QED
    BY <1>3, <1>4, <2>1
<1>6. ~NamePresent(lr, n, v)
  BY EffectiveIs DEF NamePresent, At
<1> QED
  BY <1>1, <1>5, <1>6

\* The zone a name is matched to does not fall through when no certificate domain
\* lies between the name and home.arpa or resolver.arpa.
LEMMA NearestKept ==
    ASSUME EditInv, NEW n \in Names, NearestIsOwn(live.config, n)
    PROVE  LET zone == Matches(Plugins.zones, n)
           IN  zone # NoValue /\ zone \notin Plugins.fallthrough
<1> DEFINE s == live.config.settings
           d == AcmeDomain(s)
           in == OwnedZones(s) \cap Within[n]
           zone == Matches(Plugins.zones, n)
<1>1. PICK z \in in : z \in {OwnedZone, DDRZone} /\ (d \in Within[n] => d # z /\ d \in Within[z])
  BY DEF NearestIsOwn
<1>2. zone \in in /\ zone # NoValue /\ in \subseteq Within[zone]
  BY <1>1, Zone
<1>3. Plugins.fallthrough = FallthroughZones(s)
  BY Loaded
<1>4. ASSUME zone = d PROVE FALSE
  <2>1. d \in Within[n] /\ d \in Within[z] /\ d # z /\ z \in Within[d]
    BY <1>1, <1>2, <1>4
  <2>2. z \in Names /\ d \in Names
    BY <1>1, <2>1, WithinAssumption
  <2> QED
    BY <2>1, <2>2, WithinAssumption
<1> QED
  BY <1>2, <1>3, <1>4 DEF FallthroughZones

\* A name whose nearest owned zone is home.arpa or resolver.arpa never leaves for
\* the upstream resolver, and one hidden from a VLAN does not exist there
\* (handler.go:78).
THEOREM NamesDoNotLeak == Spec => []NothingLeaks
<1>1. EditInv => NothingLeaks
  <2> SUFFICES ASSUME EditInv PROVE NothingLeaks
    OBVIOUS
  <2> DEFINE c  == live.config
             lr == Plugins
             rs == lr.records
  <2> SUFFICES ASSUME NEW q \in Queries, NearestIsOwn(c, q.name)
               PROVE  LET reply == Serve(lr, q)
                          own   == {r \in rs : r.name = q.name}
                      IN  /\ reply.by # "next"
                          /\ /\ \A r \in own : Hidden(r, Horizon(c, q.client))
                             /\ reply.by = "localrecords" /\ q.name # DdrName
                             => reply.rcode = "NXDOMAIN" /\ reply.answer = {}
    BY DEF NothingLeaks
  <2> DEFINE n == q.name
             t == q.type
             v == Horizon(c, q.client)
             reply == Serve(lr, q)
             answers == BuildAnswers(lr, n, t, v)
             zone == Matches(lr.zones, n)
             taken == Hosted(c, n) \/ Discovered(c, q)
  <2>1. /\ n \in Names
        /\ taken => reply.by \in {"hosts", "mdnsbridge"}
        /\ ~taken => reply = ServeDNS(lr, q.client, n, t)
    BY Chain
  <2>2. v = Lookup(lr.vlans, q.client) /\ RecordsFit(rs, v)
    BY Loaded
  <2>3. zone # NoValue /\ zone \notin lr.fallthrough
    BY <2>1, NearestKept
  <2>4. CASE taken
    <3> HIDE DEF reply
    <3>1. reply.by # "next" /\ reply.by # "localrecords"
      BY <2>1, <2>4
    <3> QED
      BY <3>1 DEF reply
  <2>5. CASE ~taken
    <3>1. reply = ServeDNS(lr, q.client, n, t)
      BY <2>1, <2>5
    <3>2. reply.by # "next"
      BY <2>3, <3>1, KeptHere
    <3>3. ASSUME \A r \in rs : r.name = n => Hidden(r, v), reply.by = "localrecords", n # DdrName
          PROVE  reply.rcode = "NXDOMAIN" /\ reply.answer = {}
      <4>1. /\ Told(rs, v, n, t, answers)
            /\ Exhausted \notin answers => answers = {}
            /\ ~NamePresent(lr, n, v)
        BY <2>1, <2>2, <3>3, HiddenIsTold
      <4> HIDE DEF v, reply, rs, lr
      <4>2. reply.by = "localrecords" =>
                /\ reply.answer = answers /\ Exhausted \notin answers
                /\ answers = {} /\ ~NamePresent(lr, n, v) => reply.rcode = "NXDOMAIN"
        <5>1. RepliesWith(lr, Matches(lr.zones, n), answers, NamePresent(lr, n, v),
                          ServeDNS(lr, q.client, n, t))
          BY <2>2, <4>1, Served
        <5> QED
          BY <3>1, <5>1 DEF RepliesWith
      <4> QED
        BY <3>3, <4>1, <4>2
    <3> QED
      BY <3>2, <3>3
  <2> QED
    BY <2>4, <2>5
<1> QED
  BY <1>1, Always, PTL

---------------------------------------------------------------------------
(* The designated resolver. *)

\* A synthesized record answers on every VLAN: with an address of its family
\* anywhere, the machine has a primary one.
LEMMA FamilyAnswers ==
    ASSUME NEW s, NEW a \in AddrsPool, NEW t, NEW r \in FamilyRecord(s, a, t), NEW v
    PROVE  ValueOn(r, v) # NoValue /\ ~Hidden(r, v)
<1> DEFINE def == Primary(a, t = "A")
           On(n) == OnVlan(s.vlans, a, n, t = "A")
           fam == {ip \in ToSet(a) : IsV4(ip) = (t = "A")}
<1>1. def # NoValue \/ \E n : On(n) # NoValue
  BY DEF FamilyRecord
<1>2. fam = {} => def = NoValue
  BY PrimaryFound
<1>3. ASSUME NEW n, On(n) # NoValue PROVE fam # {}
  BY <1>3, OnVlanFound
<1>4. fam # {} => def # NoValue
  BY PrimaryFound
<1>5. def # NoValue
  BY <1>1, <1>2, <1>3, <1>4
<1>6. /\ ~Hidden(r, v)
      /\ ValueOn(r, v) = IF v \in VlanNames(s) /\ On(v) # NoValue THEN On(v) ELSE def
  BY FamilyIs
<1> HIDE DEF def, On
<1> QED
  BY <1>5, <1>6

\* On a VLAN the machine has an address of the family on, it answers with one of
\* those.
LEMMA FamilyIsNear ==
    ASSUME NEW s, NEW a \in AddrsPool, NEW t, NEW r \in FamilyRecord(s, a, t),
           NEW v \in VlanNames(s), NEW ip \in ToSet(a), IsV4(ip) = (t = "A"),
           Lookup(s.vlans, ip) = v
    PROVE  ValueOn(r, v) \in {x \in ToSet(a) : Lookup(s.vlans, x) = v}
<1> DEFINE On == OnVlan(s.vlans, a, v, t = "A")
           near == {x \in ToSet(a) : IsV4(x) = (t = "A") /\ Lookup(s.vlans, x) = v}
<1>1. near # {}
  OBVIOUS
<1>2. On \in near /\ On # NoValue
  BY <1>1, OnVlanFound
<1>3. ValueOn(r, v) = IF v \in VlanNames(s) /\ On # NoValue THEN On ELSE Primary(a, t = "A")
  BY FamilyIs
<1> HIDE DEF On
<1> QED
  BY <1>2, <1>3

\* A VLAN some address is looked up to is declared.
LEMMA LookupDeclared ==
    ASSUME NEW s, SettingsShaped(s), NEW ip, Lookup(s.vlans, ip) # NoValue
    PROVE  Lookup(s.vlans, ip) \in VlanNames(s)
<1>1. PICK i \in DOMAIN s.vlans : Lookup(s.vlans, ip) = s.vlans[i].name
  BY LookupFound, ShapedVlans
<1> QED
  BY <1>1 DEF VlanNames, ToSet

\* The SVCB query of a name nobody took in hand is answered with the designated
\* resolvers.
LEMMA Designated ==
    ASSUME NEW lr, NEW v, RecordsFit(lr.records, v), DdrName \in Names,
           ~\E r \in lr.records : r.name = DdrName /\ r.type = "CNAME"
    PROVE  BuildAnswers(lr, DdrName, "SVCB", v) = BuildSVCB(lr)
<1> DEFINE N == Cardinality(Names)
           n == DdrName
<1>1. N \in Nat /\ N # 0 /\ N \in 0 .. N
  BY WithinAssumption, FS_CardinalityType, FS_EmptySet
<1>2. PICK f : /\ \A k \in 0 .. N, m \in Names : f[<<k, m>>] = AnswersOf(lr, "SVCB", v, f, k, m)
               /\ \A m : BuildAnswers(lr, m, "SVCB", v) = f[<<N, m>>]
  BY AliasesFit, Calls
<1> HIDE DEF N
<1>3. Alias(lr, n, v) = {}
  BY DEF Alias, At
<1>4. {r \in At(lr, n) : r.type = "SVCB"} = {}
  BY DEF At, RecordsFit
<1>5. AnswersOf(lr, "SVCB", v, f, N, n) = BuildSVCB(lr)
  BY <1>1, <1>3, <1>4 DEF AnswersOf
<1> QED
  BY <1>1, <1>2, <1>5

\* A name without an alias record answers an address query with its own records of
\* the type.
LEMMA OwnAddresses ==
    ASSUME NEW lr, NEW v, RecordsFit(lr.records, v), NEW d \in Names,
           NEW t \in {"A", "AAAA"}, \A r \in lr.records : r.name = d => r.type # "CNAME"
    PROVE  LET answers == BuildAnswers(lr, d, t, v)
           IN  /\ Exhausted \notin answers
               /\ \A x : x \in answers <=>
                     \E r \in lr.records :
                         /\ r.name = d /\ r.type = t /\ r \in VisibleOn(lr.records, v)
                         /\ x = RR(r.name, r.type, ValueOn(r, v), TTLOn(r, v))
<1> DEFINE rs == lr.records
           answers == BuildAnswers(lr, d, t, v)
<1>1. \A r \in AliasesOn(rs, v) : r.name # d
  BY DEF AliasesOn, VisibleOn
<1>2. Path(rs, v, d) = {d}
  BY <1>1, PathEnds
<1>3. ~Loops(rs, v, {d})
  BY <1>1 DEF Loops, AliasesOn
<1>4. /\ Exhausted \in answers <=> Loops(rs, v, Path(rs, v, d))
      /\ Exhausted \notin answers => answers = Promised(rs, v, Path(rs, v, d), t)
  BY AddressAnswer
<1>5. Exhausted \notin answers /\ answers = Promised(rs, v, {d}, t)
  BY <1>2, <1>3, <1>4
<1> HIDE DEF answers
<1>6. \A r \in rs : r.name \in {d} /\ Answering(rs, v, t, r) <=>
                       r.name = d /\ r.type = t /\ r \in VisibleOn(rs, v)
  BY <1>1 DEF Answering
<1>7. \A x : x \in answers <=> \E r \in rs :
                 /\ r.name \in {d} /\ Answering(rs, v, t, r)
                 /\ x = RR(r.name, r.type, ValueOn(r, v), TTLOn(r, v))
  BY <1>5, PromisedOf
<1>8. \A x : x \in answers <=> \E r \in rs :
                 /\ r.name = d /\ r.type = t /\ r \in VisibleOn(rs, v)
                 /\ x = RR(r.name, r.type, ValueOn(r, v), TTLOn(r, v))
  BY <1>6, <1>7
<1> QED
  BY <1>5, <1>8 DEF answers

\* The reply to the SVCB query: the designated resolvers, with the addresses of the
\* name they all go by.
LEMMA DesignatedReply ==
    ASSUME NEW lr, NEW client, NEW d \in Names, NEW v, v = Lookup(lr.vlans, client),
           RecordsFit(lr.records, v), DdrName \in Names,
           Matches(lr.zones, DdrName) # NoValue,
           ~\E r \in lr.records : r.name \in {DdrName, d} /\ r.type = "CNAME",
           lr.ddr # {}, \A x \in lr.ddr : x.target = d
    PROVE  ServeDNS(lr, client, DdrName, "SVCB").extra =
               BuildAnswers(lr, d, "A", v) \cup BuildAnswers(lr, d, "AAAA", v)
<1> DEFINE zone    == Matches(lr.zones, DdrName)
           answers == BuildAnswers(lr, DdrName, "SVCB", v)
           glue    == DdrGlue(lr, answers, v)
           both    == BuildAnswers(lr, d, "A", v) \cup BuildAnswers(lr, d, "AAAA", v)
           reply   == ServeDNS(lr, client, DdrName, "SVCB")
<1>1. answers = {RR(DdrName, "SVCB", x.alpn, DefaultTTL) : x \in lr.ddr}
  BY Designated DEF BuildSVCB
<1>2. answers # {} /\ \A rr \in answers : rr.type = "SVCB"
  <2> HIDE DEF answers
  <2>1. answers # {}
    BY <1>1
  <2>2. \A x : RR(DdrName, "SVCB", x, DefaultTTL).type = "SVCB"
    BY DEF RR
  <2> QED
    BY <1>1, <2>1, <2>2
<1>3. Exhausted \notin answers
  BY <1>2 DEF Exhausted, RR
<1>4. glue = both
  <2>1. {x.target : x \in {x \in lr.ddr : \E rr \in answers : rr.type = "SVCB"}} = {d}
    BY <1>2
  <2> QED
    BY <2>1 DEF DdrGlue
<1>5. Exhausted \notin both
  <2>1. \A r \in lr.records : r.name = d => r.type # "CNAME"
    OBVIOUS
  <2>2. ASSUME NEW t \in {"A", "AAAA"} PROVE Exhausted \notin BuildAnswers(lr, d, t, v)
    BY <2>1, OwnAddresses
  <2> QED
    BY <2>2
<1>7. reply = IF zone = NoValue THEN ToNext
              ELSE IF Exhausted \in answers THEN Crashed
              ELSE IF answers = {} /\ zone \in lr.fallthrough THEN ToNext
              ELSE IF answers = {} /\ ~NamePresent(lr, DdrName, v)
                   THEN Reply("localrecords", "NXDOMAIN", {}, {})
              ELSE IF Exhausted \in glue THEN Crashed
              ELSE Reply("localrecords", "NOERROR", answers, glue)
  BY DEF ServeDNS
<1> HIDE DEF reply, answers, glue, both
<1>8. reply = Reply("localrecords", "NOERROR", answers, glue)
  BY <1>2, <1>3, <1>4, <1>5, <1>7
<1>9. reply.extra = both
  BY <1>4, <1>8 DEF Reply
<1> QED
  BY <1>9 DEF both, reply

\* A client that asks for the designated resolver is given an address with it, and
\* one of its own VLAN where the machine has one there, unless the operator took
\* either name in hand (configgen.go:314, handler.go:138).
THEOREM DesignatedStaysReachable == Spec => []DesignatedIsReachable
<1>1. EditInv => DesignatedIsReachable
  <2> DEFINE c  == live.config
             s  == c.settings
             lr == Plugins
             rs == lr.records
             d  == AcmeDomain(s)
             a  == live.addrs
  <2> SUFFICES ASSUME EditInv, DdrRecords(s) # {},
                      ~\E r \in c.records : r.name = d \/ (r.name = DdrName /\ r.type = "CNAME"),
                      ~\E h \in c.hosts : DdrName \in h.names,
                      NEW q \in Queries, q.name = DdrName, q.type = "SVCB", ~Discovered(c, q)
               PROVE  LET glue  == Serve(lr, q).extra
                          v     == Horizon(c, q.client)
                          local == {a[i] : i \in {i \in DOMAIN a : Horizon(c, a[i]) = v}}
                      IN  /\ glue # {}
                          /\ v # NoValue => \A rr \in glue :
                                 (\E ip \in local : IsV4(ip) = IsV4(rr.value)) => rr.value \in local
    BY DEF DesignatedIsReachable
  <2> DEFINE v     == Horizon(c, q.client)
             local == {a[i] : i \in {i \in DOMAIN a : Horizon(c, a[i]) = v}}
             glue  == Serve(lr, q).extra
             Line(r) == RR(r.name, r.type, ValueOn(r, v), TTLOn(r, v))
  <2>1. /\ ConfigShaped(c) /\ SettingsShaped(s) /\ Validate(c) /\ a \in AddrsPool
        /\ ValidACME(s.acme)
        /\ Renders(c, a)
    BY DEF EditInv, ServingInv, ServesOneConfiguration, Renders, Validate, ConfigShaped
  <2>2. /\ lr.hosts = c.hosts /\ v = Lookup(lr.vlans, q.client) /\ RecordsFit(rs, v)
        /\ lr.ddr = DdrRecords(s) /\ rs = StaticRecords(c, a)
    BY Loaded
  <2>3. \A ip : Horizon(c, ip) = Lookup(s.vlans, ip)
    BY <2>1, OneHorizon DEF Validate
  <2>4. d # NoValue /\ d \in Names /\ \A x \in lr.ddr : x.target = d
    <3>1. d # NoValue
      BY DEF DdrRecords
    <3>2. d \in Names
      BY <2>1, <3>1, ZonesAreNames
    <3>3. \A x \in DdrRecords(s) : x.target = d
      BY DEF DdrRecords
    <3> QED
      BY <2>2, <3>1, <3>2, <3>3
  <2>5. Matches(lr.zones, DdrName) # NoValue
    <3>1. DDRZone \in OwnedZones(s) \cap Within[DdrName]
      BY ZonesAssumption DEF OwnedZones
    <3> QED
      BY <3>1, ZonesAssumption, Zone
  <2>6. \A r \in rs : r.name = d => \E t \in {"A", "AAAA"} : r \in FamilyRecord(s, a, t)
    BY <2>2 DEF StaticRecords, AcmeSelfRecords
  <2>7. ~\E r \in rs : r.name \in {DdrName, d} /\ r.type = "CNAME"
    <3>1. \A r \in AcmeSelfRecords(s, c.records, a) : r.type # "CNAME"
      <4>1. SUFFICES ASSUME NEW r \in AcmeSelfRecords(s, c.records, a) PROVE r.type # "CNAME"
        OBVIOUS
      <4>2. PICK t \in {"A", "AAAA"} : r \in FamilyRecord(s, a, t)
        BY DEF AcmeSelfRecords
      <4>3. r.type = t
        BY <4>2, FamilyIs
      <4> QED
        BY <4>3
    <3> QED
      BY <2>2, <3>1 DEF StaticRecords
  <2>8. glue = BuildAnswers(lr, d, "A", v) \cup BuildAnswers(lr, d, "AAAA", v)
    <3>1. Serve(lr, q) = ServeDNS(lr, q.client, DdrName, "SVCB")
      BY Chain DEF Hosted
    <3> HIDE DEF lr, v
    <3> QED
      BY <2>2, <2>4, <2>5, <2>7, <3>1, ZonesAssumption, DesignatedReply DEF rs
  <2>9. \A x : x \in glue <=> \E r \in rs : r.name = d /\ x = Line(r)
    <3>1. ASSUME NEW t \in {"A", "AAAA"}
          PROVE  \A x : x \in BuildAnswers(lr, d, t, v) <=> \E r \in rs :
                     r.name = d /\ r.type = t /\ r \in VisibleOn(rs, v) /\ x = Line(r)
      <4>1. \A r \in lr.records : r.name = d => r.type # "CNAME"
        BY <2>7
      <4>2. RecordsFit(lr.records, v) /\ d \in Names
        BY <2>2, <2>4
      <4> HIDE DEF lr, v, d
      <4>3. \A x : x \in BuildAnswers(lr, d, t, v) <=> \E r \in lr.records :
                /\ r.name = d /\ r.type = t /\ r \in VisibleOn(lr.records, v)
                /\ x = RR(r.name, r.type, ValueOn(r, v), TTLOn(r, v))
        BY <3>1, <4>1, <4>2, OwnAddresses
      <4> QED
        BY <4>3
    <3>2. ASSUME NEW r \in rs, r.name = d
          PROVE  r.type \in {"A", "AAAA"} /\ r \in VisibleOn(rs, v)
      <4>1. PICK t \in {"A", "AAAA"} : r \in FamilyRecord(s, a, t)
        BY <2>6, <3>2
      <4>2. r.type = t /\ ValueOn(r, v) # NoValue /\ ~Hidden(r, v)
        BY <2>1, <4>1, FamilyIs, FamilyAnswers
      <4> QED
        BY <4>2 DEF VisibleOn
    <3> HIDE DEF Line, glue, rs
    <3> QED
      BY <2>8, <3>1, <3>2
  <2>10. glue # {}
    <3>1. \E r \in rs : r.name = d
      BY <2>1, <2>2 DEF Renders, HasAddressRecord
    <3> HIDE DEF Line, glue
    <3> QED
      BY <2>9, <3>1
  <2>11. ASSUME v # NoValue, NEW rr \in glue, NEW ip \in local, IsV4(ip) = IsV4(rr.value)
         PROVE  rr.value \in local
    <3>1. PICK r \in rs : r.name = d /\ rr = Line(r)
      BY <2>9, <2>11
    <3>2. PICK t \in {"A", "AAAA"} : r \in FamilyRecord(s, a, t)
      BY <2>6, <3>1
    <3>3. rr.value = ValueOn(r, v)
      BY <3>1 DEF RR
    <3>4. ip \in ToSet(a) /\ Lookup(s.vlans, ip) = v
      BY <2>3, <2>11 DEF ToSet
    <3>5. v \in VlanNames(s)
      BY <2>1, <2>11, <3>4, LookupDeclared
    <3>6. IsV4(ip) = (t = "A")
      <4>1. r.type = t /\ ValueOn(r, v) # NoValue /\ FitsOn(r, v)
        BY <2>1, <3>2, FamilyIs, FamilyAnswers, FamilyFits
      <4> QED
        BY <2>11, <3>3, <4>1 DEF FitsOn, IsV4
    <3>7. ValueOn(r, v) \in {x \in ToSet(a) : Lookup(s.vlans, x) = v}
      BY <2>1, <3>2, <3>4, <3>5, <3>6, FamilyIsNear
    <3> QED
      BY <2>3, <3>3, <3>7 DEF ToSet
  <2> HIDE DEF glue, local, v
  <2> QED
    BY <2>10, <2>11 DEF glue, local, v
<1> QED
  BY <1>1, Always, PTL
=============================================================================
