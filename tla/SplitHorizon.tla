---------------------------- MODULE SplitHorizon ----------------------------
(***************************************************************************)
(* From an edit to the answer a client gets: the records, hosts and        *)
(* settings operations of the GUI service, the forms and JSON handlers in  *)
(* front of them, Render and the plugin instance a reload loads from it,   *)
(* from hosts over mdnsbridge to localrecords.                             *)
(*                                                                         *)
(* The service runs one request at a time (Service.mu); how requests       *)
(* overlap with the ACME reload is ConfigService's subject.  Here the      *)
(* content of the files matters: which combinations of edits are let       *)
(* through, and what every client is then told about every name.           *)
(***************************************************************************)
EXTENDS ConfigGen

CONSTANTS
    RecordPool,    \* records an operator may submit, good and bad
    HostPool,      \* hosts entries an operator may submit
    SettingsPool,  \* settings an operator may submit
    AddrsPool,     \* address lists the machine's interfaces may have
    FirstSettings, \* the settings of a first start
    BridgePool,    \* discovery tables: the names mdnsbridge owns, with addresses
    Clients,       \* source addresses of queries
    QTypes,        \* types of queries
    MaxEdits,      \* bound: requests, forms begun, boots and address changes
    MaxRecords,    \* bound: records on disk
    MaxFaults      \* bound: reloads that fail

Settings == SettingsPool \cup {FirstSettings}

\* Every VLAN that may be declared, typed in or suggested, and what a list of
\* them may be.
VlanPool == (UNION {ToSet(s.vlans) : s \in Settings}) \cup {Suggestion(ip) : ip \in DOMAIN NetOf}

VlanTables == Seq(VlanPool)

Nets == UNION {v.cidrs : v \in VlanPool}

ASSUME BoundsAssumption == {MaxEdits, MaxRecords, MaxFaults} \subseteq Nat

\* What the three files and the interfaces may hold: settings have the fields of
\* model.Settings, a listener is one of the five or has a bad port, addresses
\* are in some network, and two CIDRs are nested or disjoint.
ASSUME PoolsAssumption ==
    /\ \A r \in RecordPool : r.name \in Names
    /\ \A s \in Settings :
          /\ s = [listeners |-> s.listeners, upstream |-> s.upstream, vlans |-> s.vlans,
                   acme |-> s.acme, selfSigned |-> s.selfSigned, mdns |-> s.mdns,
                   observed |-> s.observed]
          /\ s.listeners \subseteq {"plain", "malformed"} \cup Encrypted
          /\ s.vlans \in Seq(ToSet(s.vlans))
          /\ s.acme.domain \in Names \cup {NoValue, "malformed"}
    /\ \A a \in AddrsPool : a \in Seq(DOMAIN NetOf \ {NoValue})
    /\ \A a, b \in Nets : a.holds \cap b.holds # {} => NetsOverlap(a, b)

VARIABLES
    disk,   \* the three files
    addrs,  \* the machine's addresses, as net.InterfaceAddrs lists them
    vlans,  \* vlanmatch.Current()
    live,   \* the instance that serves: what it was rendered and set up from
    form,   \* a records form between its reads and the update
    used    \* what has been spent of the bounds

vars == <<disk, addrs, vlans, live, form, used>>

\* strings.ToUpper on a record type.
Upper(type) == IF type = "mdns" THEN "MDNS" ELSE type

\* What a request addresses a record by: its name and, upper-cased, its type.
Identities == {[name |-> r.name, type |-> Upper(r.type)] : r \in RecordPool}

NoForm == [stage |-> "none"]

Instance(c, a, v) == [config |-> c, addrs |-> a, vlans |-> v]

\* The plugins of the serving instance.
Plugins == Load(live.config, live.addrs, live.vlans)

\* run(): the configuration, the first one or what was saved before, is
\* rendered and the engine starts from it.
Init ==
    /\ disk \in [settings : Settings, records : {{}}, hosts : {{}}]
    /\ addrs \in AddrsPool
    /\ Renders(disk, addrs)
    /\ vlans = disk.settings.vlans
    /\ live = Instance(disk, addrs, vlans)
    /\ form = NoForm
    /\ used = [edits |-> 0, faults |-> 0]

Spend == used.edits < MaxEdits /\ used' = [used EXCEPT !.edits = @ + 1]

\* The interfaces change: a lease, a link, a container network.
AddrsChange(a) ==
    /\ a # addrs /\ Spend
    /\ addrs' = a
    /\ UNCHANGED <<disk, vlans, live, form>>

---------------------------------------------------------------------------
(* render, save, reload *)

\* vlanmatch.SetCurrent with what vlancfg.Build makes of the settings: plugins
\* set up from now on, and selectors, use this table.
SetCurrent(s) == vlans' = s.vlans

\* Mutant of Apply: the settings and the hosts are checked, but not the
\* records against them.
ApplyApart(c) ==
    /\ SetCurrent(c.settings)
    /\ Spend
    /\ IF Renders([c EXCEPT !.records = {}], addrs)
       THEN disk' = c /\ live' = Instance(c, addrs, vlans')
       ELSE UNCHANGED <<disk, live>>
    /\ UNCHANGED addrs

\* Mutant of Apply: the table is replaced once the new instance is set up.
ApplyLate(c) ==
    /\ Spend
    /\ IF Renders(c, addrs)
       THEN disk' = c /\ live' = Instance(c, addrs, vlans) /\ SetCurrent(c.settings)
       ELSE UNCHANGED <<disk, live, vlans>>
    /\ UNCHANGED addrs

\* applyRecords, applyHosts and SaveSettings: the VLAN table is replaced,
\* the whole configuration rendered, and only then is the file saved and
\* the engine reloaded; the plugins of the new instance take the table that is
\* current when they are set up.  A failed reload leaves the old instance
\* serving, with the table it took.
Apply(c) ==
    /\ SetCurrent(c.settings)
    /\ used.edits < MaxEdits
    /\ IF Renders(c, addrs)
       THEN /\ disk' = c
            /\ \/ Spend /\ live' = Instance(c, addrs, vlans')
               \/ /\ used.faults < MaxFaults
                  /\ used' = [edits |-> used.edits + 1, faults |-> used.faults + 1]
                  /\ UNCHANGED live
       ELSE Spend /\ UNCHANGED <<disk, live>>
    /\ UNCHANGED addrs

\* A request refused before anything is rendered.
Refuse == Spend /\ UNCHANGED <<disk, addrs, vlans, live>>

WithRecords(rs) == [disk EXCEPT !.records = rs]
WithHosts(hs)   == [disk EXCEPT !.hosts = hs]

---------------------------------------------------------------------------
(* Records *)

\* indexOf, findRecord: the type is compared without regard to case.
Find(id) == {r \in disk.records : r.name = id.name /\ Upper(r.type) = id.type}

Identity(r) == [name |-> r.name, type |-> Upper(r.type)]

\* Service.AddRecord
Add(r) ==
    IF Find(Identity(r)) # {} THEN Refuse ELSE Apply(WithRecords(disk.records \cup {r}))

Room == Cardinality(disk.records) < MaxRecords

\* decodeRecord upper-cases the type: a linked record that is submitted comes
\* out as "MDNS", a type Validate does not know.
Decoded(r) == [r EXCEPT !.type = Upper(@)]

\* addRecord (JSON).
AddRecord(r) ==
    /\ Room
    /\ Add(Decoded(r))
    /\ UNCHANGED form

\* PromoteMDNS appends a linked record for a discovered device.
PromoteRecord(r) ==
    /\ r.type = "mdns" /\ Room
    /\ Add(r)
    /\ UNCHANGED form

\* Service.UpdateRecord
Replace(id, r) ==
    IF Find(id) = {} THEN Refuse
    ELSE LET rest == disk.records \ Find(id)
         IN  IF \E q \in rest : q.name = r.name /\ q.type = r.type
             THEN /\ SetCurrent(disk.settings) /\ Spend   \* Validate: duplicate record
                  /\ UNCHANGED <<disk, addrs, live>>
             ELSE Apply(WithRecords(rest \cup {r}))

\* updateRecord (JSON) makes no exception for a linked record.
UpdateRecord(id, r) ==
    /\ Replace(id, Decoded(r))
    /\ UNCHANGED form

\* recordsCreate reads the VLANs its form is parsed with.
ReadCreate ==
    /\ form = NoForm /\ Room /\ Spend
    /\ form' = [stage |-> "add", vlans |-> VlanNames(disk.settings)]
    /\ UNCHANGED <<disk, addrs, vlans, live>>

\* recordsUpdate reads the settings, then the records, each under the mutex,
\* which it gives back in between and before the update.
ReadSettings(id) ==
    /\ form = NoForm /\ Spend
    /\ form' = [stage |-> "read", key |-> id, vlans |-> VlanNames(disk.settings)]
    /\ UNCHANGED <<disk, addrs, vlans, live>>

\* A record that is linked now is not edited here; one that is not there is left
\* for the update to miss.
ReadRecords ==
    /\ form.stage = "read"
    /\ form' = IF \E r \in Find(form.key) : r.type = "mdns" THEN NoForm
               ELSE [form EXCEPT !.stage = "checked"]
    /\ UNCHANGED <<disk, addrs, vlans, live, used>>

\* parseRecordForm: the overrides of the VLANs that were read, the rest is
\* not looked at; a suppressed VLAN keeps nothing else, and one with
\* neither value nor TTL gets no override.
ParseForm(r, vlanNames) ==
    LET o(v) == r.overrides[v]
        kept == {v \in DOMAIN r.overrides \cap vlanNames :
                    o(v).nxdomain \/ o(v).value # NoValue \/ o(v).ttl > 0}
    IN  [name |-> r.name, type |-> Upper(r.type), default |-> r.default, ttl |-> r.ttl,
         match |-> NoValue,
         overrides |-> [v \in kept |-> IF o(v).nxdomain
                                       THEN [value |-> NoValue, ttl |-> 0, nxdomain |-> TRUE]
                                       ELSE o(v)]]

SubmitForm(r) ==
    /\ \/ form.stage = "add" /\ Room /\ Add(ParseForm(r, form.vlans))
       \/ form.stage = "checked" /\ Replace(form.key, ParseForm(r, form.vlans))
    /\ form' = NoForm

\* deleteRecord, recordsDelete
DeleteRecord(id) ==
    /\ IF Find(id) = {} THEN Refuse ELSE Apply(WithRecords(disk.records \ Find(id)))
    /\ UNCHANGED form

---------------------------------------------------------------------------
(* Hosts *)

\* indexOfHostName: a name is taken by an entry's host name or an alias.
Taken(n) == \E g \in disk.hosts : n \in g.names

AddHost(h) ==
    /\ h \notin disk.hosts
    /\ IF \E n \in h.names : Taken(n) THEN Refuse
       ELSE Apply(WithHosts(disk.hosts \cup {h}))
    /\ UNCHANGED form

UpdateHost(old, h) ==
    /\ h # old
    /\ Apply(WithHosts((disk.hosts \ {old}) \cup {h}))
    /\ UNCHANGED form

DeleteHost(h) ==
    /\ Apply(WithHosts(disk.hosts \ {h}))
    /\ UNCHANGED form

---------------------------------------------------------------------------
(* Settings, restart, boot *)

SaveSettings(s) ==
    /\ s # disk.settings
    /\ Apply([disk EXCEPT !.settings = s])
    /\ UNCHANGED form

\* vlanAdd with a network the settings page suggests.
VlanAdd(v) ==
    /\ Apply([disk EXCEPT !.settings.vlans = Append(@, v)])
    /\ UNCHANGED form

\* RestartEngine renders the files as they are.
RestartEngine ==
    /\ live # Instance(disk, addrs, disk.settings.vlans)
    /\ Apply(disk)
    /\ UNCHANGED form

\* The process starts again; it does not if the files do not render.
Boot ==
    /\ Renders(disk, addrs) /\ Spend
    /\ SetCurrent(disk.settings)
    /\ live' = Instance(disk, addrs, vlans')
    /\ form' = NoForm
    /\ UNCHANGED <<disk, addrs>>

Next ==
    \/ \E a \in AddrsPool : AddrsChange(a)
    \/ \E r \in RecordPool : AddRecord(r) \/ PromoteRecord(r) \/ SubmitForm(r)
    \/ \E id \in Identities : \/ ReadSettings(id) \/ DeleteRecord(id)
                             \/ \E r \in RecordPool : UpdateRecord(id, r)
    \/ \E h \in HostPool : AddHost(h)
    \/ \E old \in disk.hosts : DeleteHost(old) \/ \E h \in HostPool : UpdateHost(old, h)
    \/ \E s \in SettingsPool : SaveSettings(s)
    \/ \E v \in Candidates(disk.settings.vlans, addrs) : VlanAdd(v)
    \/ ReadCreate \/ ReadRecords \/ RestartEngine \/ Boot

Spec == Init /\ [][Next]_vars

---------------------------------------------------------------------------
(* Properties *)

\* Settings are some submitted ones with VLANs added.
SettingsShaped(s) ==
    /\ \E p \in Settings : s = [p EXCEPT !.vlans = s.vlans]
    /\ s.vlans \in VlanTables

ConfigShaped(c) ==
    /\ c = [settings |-> c.settings, records |-> c.records, hosts |-> c.hosts]
    /\ SettingsShaped(c.settings)
    /\ c.hosts \subseteq HostPool
    /\ \A r \in c.records : r.name \in Names

Forms ==
    LET names == {v.name : v \in VlanPool}
    IN  {NoForm} \cup [stage : {"add"}, vlans : SUBSET names]
                 \cup [stage : {"read", "checked"}, key : Identities, vlans : SUBSET names]

\* Every variable has its type.  In particular no record of a type the plugins
\* do not know is saved or served, although requests carry types in capitals.
TypeOK ==
    /\ ConfigShaped(disk) /\ ConfigShaped(live.config)
    /\ \A r \in disk.records \cup live.config.records : r.type \in StaticTypes \cup {"mdns"}
    /\ live = Instance(live.config, live.addrs, live.vlans)
    /\ addrs \in AddrsPool /\ live.addrs \in AddrsPool
    /\ vlans \in VlanTables /\ live.vlans \in VlanTables
    /\ form \in Forms
    /\ used \in [edits : 0 .. MaxEdits, faults : 0 .. MaxFaults]

\* What is on disk keeps passing the validation of the three files together,
\* whatever order they are edited in and whichever edits were refused: the
\* only thing that can stop a later start from rendering them is that the
\* machine has lost the address its own domain was to resolve to.
DiskStaysValid ==
    /\ Validate(disk)
    /\ ~Renders(disk, addrs) => /\ DdrRecords(disk.settings) # {}
                                /\ ~HasAddressRecord(disk.records, AcmeDomain(disk.settings))
                                /\ addrs = <<>>

\* The horizon of a client, said without an order: the one declared VLAN
\* that holds its address.
Horizon(c, client) ==
    LET in == {v \in {c.settings.vlans[i] : i \in DOMAIN c.settings.vlans} :
                  \E net \in v.cidrs : client \in net.holds}
    IN  IF in = {} THEN NoValue ELSE (CHOOSE v \in in : TRUE).name

\* What model.VLANOverride says of a record on a VLAN.
Hidden(r, v) == v \in DOMAIN r.overrides /\ r.overrides[v].nxdomain

ValueOn(r, v) ==
    IF v \in DOMAIN r.overrides /\ r.overrides[v].value # NoValue
    THEN r.overrides[v].value ELSE r.default

TTLOn(r, v) ==
    IF v \in DOMAIN r.overrides /\ r.overrides[v].ttl # 0 THEN r.overrides[v].ttl
    ELSE IF r.ttl # 0 THEN r.ttl ELSE DefaultTTL

VisibleOn(rs, v) == {r \in rs : ~Hidden(r, v) /\ ValueOn(r, v) # NoValue}

\* The names an address query is led to on a VLAN: the least set that holds
\* the name asked for and every target of an alias in it.
Path(rs, v, qname) ==
    LET aliases == {r \in VisibleOn(rs, v) : r.type = "CNAME"}
        around  == {qname} \cup UNION {{r.name, ValueOn(r, v)} : r \in aliases}
        closed  == {S \in SUBSET around :
                       /\ qname \in S
                       /\ \A r \in aliases : r.name \in S => ValueOn(r, v) \in S}
    IN  {n \in around : \A S \in closed : n \in S}

\* The chain never ends: every name on it is an alias.
Loops(rs, v, path) ==
    \A n \in path : \E r \in VisibleOn(rs, v) : r.type = "CNAME" /\ r.name = n

\* The answer the configuration promises: the aliases on the way and, where
\* they end, the records of the type asked for.
Promised(rs, v, path, qtype) ==
    LET seen  == {r \in VisibleOn(rs, v) : r.name \in path}
        alias == {r.name : r \in {r \in seen : r.type = "CNAME"}}
    IN  {RR(r.name, r.type, ValueOn(r, v), TTLOn(r, v))
            : r \in {r \in seen : r.type = "CNAME" \/ (r.type = qtype /\ r.name \notin alias)}}

\* The queries that may come in: at any server block, from any client, whatever
\* the discovery table holds.
Queries == [block : Plugins.blocks, table : BridgePool, client : Clients,
            name : Names, type : QTypes]

Hosted(c, n) == \E h \in c.hosts : n \in h.names

\* The name is a device's, which mdnsbridge answers for on every VLAN.
Discovered(c, q) == c.settings.mdns.enabled /\ q.name \in DOMAIN q.table

Owned(c, n) == Within[n] \cap OwnedZones(c.settings) # {}

PathOf(rs, v, q) == IF q.type \in {"A", "AAAA"} THEN Path(rs, v, q.name) ELSE {q.name}

\* At every listener, every client is told exactly what the configuration being
\* served says of its VLAN: each alias up to the record that ends the chain,
\* with the overridden value and TTL.  That holds of every name of an owned
\* zone that neither an entry of hosts.yaml nor a device has taken and whose
\* chain of aliases ends; where the configuration says something it is never
\* left to the next plugin, and where it says nothing nothing is made up.  A
\* declared name is answered from hosts.yaml exactly when Render warned that an
\* entry there shadows it.
AnswersAsConfigured ==
    LET c  == live.config
        lr == Plugins
        rs == lr.records
    IN  \A q \in Queries :
            LET v     == Horizon(c, q.client)
                path  == PathOf(rs, v, q)
                said  == Promised(rs, v, path, q.type)
                reply == Serve(lr, q)
            IN  /\ /\ Owned(c, q.name) /\ ~Hosted(c, q.name) /\ ~Discovered(c, q)
                   /\ q.type # "SVCB" /\ (q.type \in {"A", "AAAA"} => ~Loops(rs, v, path))
                   => /\ reply.answer = said /\ reply.by # "nobody"
                      /\ said # {} => reply.by = "localrecords" /\ reply.rcode = "NOERROR"
                /\ (\E r \in c.records : r.name = q.name) =>
                       (reply.by = "hosts" <=> q.name \in ShadowedNames(c))

\* The zone nearest to the name is home.arpa or resolver.arpa, not the domain of
\* the certificate.
NearestIsOwn(c, n) ==
    LET d == AcmeDomain(c.settings)
    IN  \E z \in Within[n] \cap {OwnedZone, DDRZone} \cap OwnedZones(c.settings) :
            d \in Within[n] => d # z /\ d \in Within[z]

\* A name whose nearest owned zone is home.arpa or resolver.arpa is never passed
\* on to the upstream resolver, and one that localrecords replies for with all
\* its records suppressed on the client's VLAN looks exactly like one that was
\* never declared.  Names under the certificate's domain are left out, also when
\* that lies under home.arpa: those without an answer on the client's VLAN,
\* suppressed ones included, fall through (handler.go:90) and do leak, against
\* configgen.go:26 and docs/local-records.md:66.
NothingLeaks ==
    LET c  == live.config
        lr == Plugins
    IN  \A q \in Queries :
            LET reply == Serve(lr, q)
                own   == {r \in lr.records : r.name = q.name}
            IN  NearestIsOwn(c, q.name) =>
                    /\ reply.by # "next"
                    /\ /\ \A r \in own : Hidden(r, Horizon(c, q.client))
                       /\ reply.by = "localrecords" /\ q.name # DdrName
                       => reply.rcode = "NXDOMAIN" /\ reply.answer = {}

\* A client that asks for the designated resolver is given an address with
\* it, unless the operator took the domain's records in hand, or the discovery
\* name itself by an alias or a hosts entry; and on a VLAN the machine has an
\* address of its own on, it is one of that VLAN.
DesignatedIsReachable ==
    LET c == live.config
        lr == Plugins
        d == AcmeDomain(c.settings)
        a == live.addrs
    IN  /\ DdrRecords(c.settings) # {}
        /\ ~\E r \in c.records : r.name = d \/ (r.name = DdrName /\ r.type = "CNAME")
        /\ ~\E h \in c.hosts : DdrName \in h.names
        => \A q \in Queries :
             q.name = DdrName /\ q.type = "SVCB" /\ ~Discovered(c, q) =>
                LET glue  == Serve(lr, q).extra
                    v     == Horizon(c, q.client)
                    local == {a[i] : i \in {i \in DOMAIN a : Horizon(c, a[i]) = v}}
                IN  /\ glue # {}
                    /\ v # NoValue => \A rr \in glue :
                           (\E ip \in local : IsV4(ip) = IsV4(rr.value)) => rr.value \in local

\* What serves was rendered from one configuration that renders, and sorts its
\* clients by the VLANs of that same configuration: never by those of an edit
\* that was rejected after render had already made its table the current one,
\* nor, after a failed reload, by those of the files.
ServesOneConfiguration ==
    /\ Renders(live.config, live.addrs)
    /\ live.vlans = live.config.settings.vlans

---------------------------------------------------------------------------
(* What the proofs carry along *)

\* The files always pass the validation together, and what serves was rendered
\* from files that did.
ServingInv ==
    /\ ConfigShaped(disk) /\ Validate(disk)
    /\ ConfigShaped(live.config) /\ live.addrs \in AddrsPool
    /\ live = Instance(live.config, live.addrs, live.vlans)
    /\ vlans \in VlanTables
    /\ ServesOneConfiguration
=============================================================================
