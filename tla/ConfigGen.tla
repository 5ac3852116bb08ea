----------------------------- MODULE ConfigGen -----------------------------
(***************************************************************************)
(* configgen: what a configuration must satisfy to be saved (Validate) and *)
(* what is made of one (Render): the zone data localrecords loads, the     *)
(* hosts file and the server blocks of the Corefile.  Also selfip, which   *)
(* finds the machine's own address on each VLAN for the synthesized        *)
(* records of the ACME domain.                                             *)
(*                                                                         *)
(* A configuration is [settings, records, hosts].  Settings are            *)
(*    [listeners, upstream, vlans, acme, selfSigned, mdns, observed]       *)
(* What Validate rejects by parsing alone (a malformed port, address, CIDR *)
(* or name) is one value of the field, "malformed", where a field has it.  *)
(***************************************************************************)
EXTENDS LocalRecords

CONSTANT NetOf     \* the network of each address of the machine, as a CIDR

OwnedZone == "home.arpa"
DDRZone   == "resolver.arpa"

\* Two of the zones are fixed; the name of the discovery query lies in one.
ASSUME ZonesAssumption ==
    /\ {OwnedZone, DDRZone, DdrName} \subseteq Names
    /\ DDRZone \in Within[DdrName]

Encrypted == {"dot", "doh", "doq", "doh3"}

---------------------------------------------------------------------------
(* Zones *)

\* normalizedACMEDomain
AcmeDomain(s) == IF s.acme.enabled THEN s.acme.domain ELSE NoValue

\* ddrRecords: one designated resolver per encrypted listener, named after
\* the domain the certificate covers.
DdrRecords(s) ==
    IF AcmeDomain(s) = NoValue THEN {}
    ELSE {[target |-> AcmeDomain(s), alpn |-> l] : l \in s.listeners \cap Encrypted}

FallthroughZones(s) == {AcmeDomain(s)} \ {NoValue}

OwnedZones(s) ==
    {OwnedZone} \cup FallthroughZones(s) \cup IF DdrRecords(s) = {} THEN {} ELSE {DDRZone}

---------------------------------------------------------------------------
(* selfip *)

\* Detect: for a VLAN or, as the primary, for anything: the first usable
\* interface address of the family.  extractIPs has dropped loopback and
\* link-local ones.
First(addrs, good) ==
    LET i == SelectInSeq(addrs, LAMBDA ip : ip \in good) IN IF i = 0 THEN NoValue ELSE addrs[i]

Primary(addrs, v4) == First(addrs, {ip \in ToSet(addrs) : IsV4(ip) = v4})

OnVlan(vlans, addrs, name, v4) ==
    First(addrs, {ip \in ToSet(addrs) : IsV4(ip) = v4 /\ Lookup(vlans, ip) = name})

\* suggestName: the network of an address, named after itself.
Suggestion(ip) == [name |-> NetOf[ip].base, cidrs |-> {NetOf[ip]}]

\* Candidates: the networks of the machine that no VLAN covers; the settings
\* page offers to add them.
Candidates(vlans, addrs) ==
    {Suggestion(ip) : ip \in {ip \in ToSet(addrs) : Lookup(vlans, ip) = NoValue}}


\* buildFamilyRecord: the primary address as the default, and an override
\* for every VLAN the machine has an address on.
FamilyRecord(s, addrs, type) ==
    LET def  == Primary(addrs, type = "A")
        on   == {v.name : v \in ToSet(s.vlans)}
        with == {n \in on : OnVlan(s.vlans, addrs, n, type = "A") # NoValue}
        ovs  == [n \in with |-> [value |-> OnVlan(s.vlans, addrs, n, type = "A"),
                                 ttl |-> 0, nxdomain |-> FALSE]]
    IN  IF def = NoValue /\ with = {} THEN {}
        ELSE {[name |-> AcmeDomain(s), type |-> type, default |-> def, ttl |-> 0,
               overrides |-> ovs, match |-> NoValue]}

\* acmeSelfRecords: what the operator declared for the domain wins.
AcmeSelfRecords(s, rs, addrs) ==
    IF AcmeDomain(s) = NoValue THEN {}
    ELSE UNION {FamilyRecord(s, addrs, t)
                    : t \in {t \in {"A", "AAAA"} :
                               ~\E r \in rs : r.name = AcmeDomain(s) /\ r.type = t}}

---------------------------------------------------------------------------
(* Validate *)

ValidListeners(l) == l # {} /\ "malformed" \notin l

\* isTrustedECSUpstream: client addresses only go to a private resolver.
ValidUpstream(u) ==
    /\ u.address # "malformed"
    /\ u.ecs => u.address = "private"

\* netsOverlap compares the first addresses: CIDRs are nested or disjoint.
NetsOverlap(a, b) == b.base \in a.holds \/ a.base \in b.holds

ValidVLANs(vs) ==
    /\ \A i, j \in DOMAIN vs : i # j => vs[i].name # vs[j].name
    /\ \A i \in DOMAIN vs : vs[i].name # NoValue /\ vs[i].cidrs # {}
    /\ \A i, j \in DOMAIN vs : \A a \in vs[i].cidrs, b \in vs[j].cidrs :
           <<i, a>> # <<j, b>> => ~NetsOverlap(a, b)

\* An encrypted listener needs a certificate from somewhere.
ValidCertSource(s) ==
    s.listeners \cap Encrypted # {} =>
        s.acme.enabled \/ (s.selfSigned /\ s.acme.domain # NoValue)

ValidACME(a) == a.enabled => a.domain \notin {NoValue, "malformed"} /\ a.complete

\* validateSelector, for a family it always accepts.
ValidSelector(vlan, vlanNames) == vlan \in vlanNames \cup {NoValue}

ValidMDNS(m, vlanNames) ==
    m.enabled => /\ m.suffix = NoValue \/ OwnedZone \in Within[m.suffix]
                 /\ \A v \in m.selectors : ValidSelector(v, vlanNames)

StaticTypes == {"A", "AAAA", "CNAME"}

ValidValue(type, value) ==
    CASE type = "A"     -> value \notin Names /\ IsV4(value)
      [] type = "AAAA"  -> value \notin Names /\ ~IsV4(value)
      [] type = "CNAME" -> value \in Names

ValidOverride(r, v, vlanNames) ==
    LET o == r.overrides[v]
    IN  /\ v \in vlanNames
        /\ o.nxdomain => o.value = NoValue /\ o.ttl = 0
        /\ ~o.nxdomain => \/ o.value # NoValue /\ ValidValue(r.type, o.value)
                          \/ o.value = NoValue /\ o.ttl # 0 /\ r.default # NoValue

\* validateMDNSRecord: nothing static, and a selector that is not empty
\* (match holds its VLAN or, for every VLAN, "any").
ValidMDNSRecord(r, vlanNames) ==
    /\ r.match \in vlanNames \cup {"any"}
    /\ r.default = NoValue /\ r.ttl = 0 /\ DOMAIN r.overrides = {}

AnyOverrideProvidesValue(r) ==
    \E v \in DOMAIN r.overrides : ~r.overrides[v].nxdomain /\ r.overrides[v].value # NoValue

\* Mutant of ValidRecord: the switch on the type has no default.
ValidRecordAnyType(r, vlanNames, zones) ==
    /\ Within[r.name] \cap zones # {}
    /\ r.type = "mdns" => ValidMDNSRecord(r, vlanNames)
    /\ r.type \in StaticTypes =>
         /\ r.match = NoValue
         /\ r.default # NoValue => ValidValue(r.type, r.default)
         /\ \A v \in DOMAIN r.overrides : ValidOverride(r, v, vlanNames)
         /\ r.default # NoValue \/ AnyOverrideProvidesValue(r)

ValidRecord(r, vlanNames, zones) ==
    /\ Within[r.name] \cap zones # {}
    /\ IF r.type = "mdns" THEN ValidMDNSRecord(r, vlanNames)
       ELSE /\ r.type \in StaticTypes /\ r.match = NoValue
            /\ r.default # NoValue => ValidValue(r.type, r.default)
            /\ \A v \in DOMAIN r.overrides : ValidOverride(r, v, vlanNames)
            /\ r.default # NoValue \/ AnyOverrideProvidesValue(r)

ValidRecords(rs, vlanNames, zones) ==
    /\ \A r \in rs : ValidRecord(r, vlanNames, zones)
    /\ \A r, q \in rs : r.name = q.name /\ r.type = q.type => r = q

ValidHosts(hs) ==
    /\ \A h \in hs : h.ip # "malformed" /\ h.names # {}
    /\ \A h, g \in hs : h # g => h.names \cap g.names = {}

VlanNames(s) == {v.name : v \in ToSet(s.vlans)}

Validate(c) ==
    LET s == c.settings
    IN  /\ ValidListeners(s.listeners)
        /\ ValidUpstream(s.upstream)
        /\ ValidVLANs(s.vlans)
        /\ ValidCertSource(s)
        /\ ValidACME(s.acme)
        /\ ValidMDNS(s.mdns, VlanNames(s))
        /\ ValidRecords(c.records, VlanNames(s), OwnedZones(s))
        /\ ValidHosts(c.hosts)

---------------------------------------------------------------------------
(* Render *)

\* hasAddressRecord: some client gets an address for the name.
HasAddressRecord(rs, name) ==
    \E r \in rs : /\ r.name = name /\ r.type \in {"A", "AAAA"}
                  /\ \/ r.default # NoValue
                     \/ \E v \in DOMAIN r.overrides : r.overrides[v].value # NoValue

\* The records of the zone data: the mDNS-linked ones are the bridge's.
StaticRecords(c, addrs) ==
    {r \in c.records : r.type # "mdns"} \cup AcmeSelfRecords(c.settings, c.records, addrs)

\* Render fails, beyond Validate, when clients would be designated a
\* resolver whose name has no address.
Renders(c, addrs) ==
    /\ Validate(c)
    /\ DdrRecords(c.settings) # {} =>
           HasAddressRecord(StaticRecords(c, addrs), AcmeDomain(c.settings))

\* buildServerBlock: every block has the same chain of plugins; the process-wide
\* health, ready and prometheus go where observability says.
BuildServerBlock(l, s, observability) ==
    [listener |-> l, tls |-> l \in Encrypted,
     observed |-> IF observability THEN s.observed ELSE {},
     mdnsbridge |-> s.mdns.enabled, ecs |-> s.upstream.ecs]

\* nextBlock: the block of a listener, if that is enabled; the first one
\* consumes the flag.
NextBlock(out, l, s) ==
    IF l \in s.listeners
    THEN [blocks |-> out.blocks \cup {BuildServerBlock(l, s, out.observability)},
          observability |-> FALSE]
    ELSE out

\* buildCorefile, in its fixed order of listeners.
BuildCorefile(s) ==
    LET plain == NextBlock([blocks |-> {}, observability |-> TRUE], "plain", s)
        dot   == NextBlock(plain, "dot", s)
        doh   == NextBlock(dot, "doh", s)
        doq   == NextBlock(doh, "doq", s)
    IN  NextBlock(doq, "doh3", s).blocks

\* hostsShadowWarnings: the names a hosts entry takes from a record.
ShadowedNames(c) ==
    {n \in UNION {h.names : h \in c.hosts} : \E r \in c.records : r.name = n}

\* Render's output as the plugins of a new instance load it: localrecords'
\* parse and loadZoneData (which takes the VLANs of vlanmatch.Current, not
\* of the zone data), the hosts file, and the blocks.
Load(c, addrs, vlans) ==
    [zones       |-> OwnedZones(c.settings),
     fallthrough |-> FallthroughZones(c.settings),
     vlans       |-> vlans,
     records     |-> StaticRecords(c, addrs),
     ddr         |-> DdrRecords(c.settings),
     hosts       |-> c.hosts,
     blocks      |-> BuildCorefile(c.settings)]

\* The stock hosts plugin: it answers for any name it has an entry for, with
\* no data if the entry is not of the queried type, and leaves every other
\* name to the next plugin.
HostsTTL == 3600

HostsAnswer(hs, qname, qtype) ==
    {RR(qname, qtype, h.ip, HostsTTL)
        : h \in {h \in hs : qname \in h.names /\ qtype = IF IsV4(h.ip) THEN "A" ELSE "AAAA"}}

\* mdnsbridge: the table owns the names of devices that are published or that a
\* record links to, the same for every client; one it has no address of the
\* type for, because the device is away, is answered without data.
BridgeTTL == 60

BridgeAnswer(table, qname, qtype) ==
    {RR(qname, qtype, ip, BridgeTTL)
        : ip \in {ip \in table[qname] : qtype = IF IsV4(ip) THEN "A" ELSE "AAAA"}}

\* The order of the chain: hosts, mdnsbridge, localrecords.  A query q comes in at
\* a server block and finds the discovery table as it is at that moment.
Serve(lr, q) ==
    IF \E h \in lr.hosts : q.name \in h.names
    THEN Reply("hosts", "NOERROR", HostsAnswer(lr.hosts, q.name, q.type), {})
    ELSE IF q.block.mdnsbridge /\ q.name \in DOMAIN q.table
    THEN Reply("mdnsbridge", "NOERROR", BridgeAnswer(q.table, q.name, q.type), {})
    ELSE ServeDNS(lr, q.client, q.name, q.type)
=============================================================================
