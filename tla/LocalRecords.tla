---------------------------- MODULE LocalRecords ----------------------------
(***************************************************************************)
(* The authoritative answers: the localrecords plugin (loaded once, at     *)
(* setup, from the zone data configgen rendered) and the VLAN table that   *)
(* tells it which horizon a client sees (vlanmatch).  A loaded plugin is   *)
(* a record                                                                *)
(*    [zones, fallthrough, vlans, records, ddr]                            *)
(* and everything here is a function of it and of a query.                 *)
(*                                                                         *)
(* Domain names are opaque and already canonical (dns.CanonicalName,       *)
(* NormalizedName); Within says which names each one lies under.  A CIDR   *)
(* is the set of the addresses it holds and its first one.                 *)
(***************************************************************************)
EXTENDS Naturals, FiniteSets, FiniteSetsExt, Sequences, SequencesExt

CONSTANTS
    Within,      \* the names of each name's ancestors, its own included
    V6           \* the addresses that are IPv6

Names      == DOMAIN Within
NoValue    == ""
DefaultTTL == 300
DdrName    == "_dns.resolver.arpa"

\* Domain names: a name lies under itself and under whatever its ancestors do;
\* of two ancestors of a name one lies under the other, and no two names lie
\* under each other.
ASSUME WithinAssumption ==
    /\ IsFiniteSet(Names) /\ NoValue \notin Names
    /\ \A n \in Names :
          /\ n \in Within[n] /\ Within[n] \subseteq Names
          /\ \A a \in Within[n] : Within[a] \subseteq Within[n] /\ (n \in Within[a] => a = n)
          /\ \A a, b \in Within[n] : a \in Within[b] \/ b \in Within[a]

IsV4(ip) == ip \notin V6

---------------------------------------------------------------------------
(* vlanmatch *)

\* net.IPNet.Contains; parsing has cleared the host bits.
InNet(net, ip) == ip \in net.holds

\* Table.Lookup: the first declared VLAN with a subnet that holds the
\* address, in settings order; NoValue when there is none.
Lookup(vlans, ip) ==
    LET i == SelectInSeq(vlans, LAMBDA v : \E net \in v.cidrs : InNet(net, ip))
    IN  IF i = 0 THEN NoValue ELSE vlans[i].name

---------------------------------------------------------------------------
(* One record *)

Nothing == [value |-> NoValue, ttl |-> 0]       \* effective's ok = false

NoOverride == [value |-> NoValue, ttl |-> 0, nxdomain |-> FALSE]

\* What a record says of a VLAN; every field left out is inherited.
OverrideOn(rc, vlan) ==
    IF vlan \in DOMAIN rc.overrides THEN rc.overrides[vlan] ELSE NoOverride

\* Mutant of Effective: a VLAN the record is hidden from inherits its default.
EffectiveInherits(rc, vlan) ==
    LET ov  == OverrideOn(rc, vlan)
        val == IF ov.value = NoValue THEN rc.default ELSE ov.value
    IN  IF val = NoValue THEN Nothing
        ELSE [value |-> val,
              ttl |-> IF ov.ttl # 0 THEN ov.ttl ELSE IF rc.ttl # 0 THEN rc.ttl ELSE DefaultTTL]

\* effective: what a record answers on a VLAN, and for how long.
Effective(rc, vlan) ==
    LET base == IF rc.ttl = 0 THEN DefaultTTL ELSE rc.ttl
        ov   == OverrideOn(rc, vlan)
        val  == IF ov.value = NoValue THEN rc.default ELSE ov.value
    IN  IF ov.nxdomain \/ val = NoValue THEN Nothing
        ELSE [value |-> val, ttl |-> IF ov.ttl = 0 THEN base ELSE ov.ttl]

At(lr, name) == {rc \in lr.records : rc.name = name}

\* Mutant of NamePresent: a name exists as soon as it has a record.
NamePresentAnywhere(lr, name, vlan) == At(lr, name) # {} \/ (name = DdrName /\ lr.ddr # {})

\* namePresent: some record of the name answers on this VLAN; the SVCB
\* records of _dns.resolver.arpa answer on every one.
NamePresent(lr, name, vlan) ==
    \/ name = DdrName /\ lr.ddr # {}
    \/ \E rc \in At(lr, name) : Effective(rc, vlan) # Nothing

---------------------------------------------------------------------------
(* Answers *)

RR(name, type, value, ttl) == [name |-> name, type |-> type, value |-> value, ttl |-> ttl]

\* rrFor: an address record of the other family gives nothing.
RRFor(name, qtype, e) ==
    IF e # Nothing /\ qtype \in {"A", "AAAA"} /\ (IsV4(e.value) <=> qtype = "A")
    THEN {RR(name, qtype, e.value, e.ttl)} ELSE {}

\* buildSVCB: one record per encrypted listener, all naming the same target.
BuildSVCB(lr) ==
    {RR(DdrName, "SVCB", d.alpn, DefaultTTL) : d \in lr.ddr}

\* The alias of a name on a VLAN.  Validation leaves a name at most one
\* CNAME record, so the loop over them finds this one.
Alias(lr, name, vlan) ==
    {rc \in At(lr, name) : rc.type = "CNAME" /\ Effective(rc, vlan) # Nothing}

\* buildAnswers: an alias answers for every type; for an address query its
\* target is answered too, by the same function.  The recursion has no
\* bound in the code: an alias that leads back to itself never returns and
\* the process dies of stack exhaustion.  Here a chain longer than there
\* are names must have met one twice and ends in Exhausted.
Exhausted == RR(NoValue, "exhausted", NoValue, 0)

\* One call, with what the calls below it return.
AnswersOf(lr, qtype, vlan, below, fuel, name) ==
    LET alias == Alias(lr, name, vlan)
        own   == UNION {RRFor(name, qtype, Effective(rc, vlan))
                            : rc \in {r \in At(lr, name) : r.type = qtype}}
        svcb  == IF qtype = "SVCB" /\ name = DdrName THEN BuildSVCB(lr) ELSE {}
        e     == Effective(CHOOSE rc \in alias : TRUE, vlan)
    IN  IF fuel = 0 THEN {Exhausted}
        ELSE IF alias = {} THEN own \cup svcb
        ELSE {RR(name, "CNAME", e.value, e.ttl)} \cup
             IF qtype \in {"A", "AAAA"} THEN below[<<fuel - 1, e.value>>] ELSE {}

BuildAnswers(lr, qname, qtype, vlan) ==
    LET Build[p \in (0 .. Cardinality(Names)) \X Names] ==
            AnswersOf(lr, qtype, vlan, Build, p[1], p[2])
    IN  Build[<<Cardinality(Names), qname>>]

\* ddrGlue: the target's own addresses, as this client sees them.
DdrGlue(lr, answers, vlan) ==
    LET targets == {d.target : d \in {d \in lr.ddr : \E rr \in answers : rr.type = "SVCB"}}
    IN  UNION {BuildAnswers(lr, t, "A", vlan) \cup BuildAnswers(lr, t, "AAAA", vlan) : t \in targets}

---------------------------------------------------------------------------
(* ServeDNS *)

\* plugin.Zones.Matches: the longest zone that contains the name.
Matches(zones, name) ==
    LET in == zones \cap Within[name]
    IN  IF in = {} THEN NoValue ELSE CHOOSE z \in in : in \subseteq Within[z]

Reply(by, rcode, answer, extra) ==
    [by |-> by, rcode |-> rcode, answer |-> answer, extra |-> extra]

ToNext  == Reply("next", "none", {}, {})      \* left to the next plugin
Crashed == Reply("nobody", "none", {}, {})    \* no reply: the process is gone

ServeDNS(lr, client, qname, qtype) ==
    LET zone    == Matches(lr.zones, qname)
        vlan    == Lookup(lr.vlans, client)
        answers == BuildAnswers(lr, qname, qtype, vlan)
        glue    == DdrGlue(lr, answers, vlan)
    IN  IF zone = NoValue THEN ToNext
        ELSE IF Exhausted \in answers THEN Crashed
        ELSE IF answers = {} /\ zone \in lr.fallthrough THEN ToNext
        ELSE IF answers = {} /\ ~NamePresent(lr, qname, vlan)
             THEN Reply("localrecords", "NXDOMAIN", {}, {})
        ELSE IF Exhausted \in glue THEN Crashed
        ELSE Reply("localrecords", "NOERROR", answers, glue)
=============================================================================
