--------------------------- MODULE MCSplitHorizon ---------------------------
(* A trusted and a guest VLAN, a machine with an address on none, one or   *)
(* both, and records that alias, override, hide and loop.                  *)
EXTENDS SplitHorizon, TLC

MCWithin ==
    [n \in {"home.arpa", "nas.home.arpa", "git.home.arpa", "resolver.arpa",
            "_dns.resolver.arpa", "dns.net", "in.home.arpa", "org"} |->
        {n} \cup CASE n \in {"nas.home.arpa", "git.home.arpa", "in.home.arpa"} -> {"home.arpa"}
                   [] n = "_dns.resolver.arpa" -> {"resolver.arpa"}
                   [] OTHER -> {}]

MCV6 == {"v6t", "v6x"}

Trusted == [name |-> "trusted", cidrs |-> {[base |-> "t0", holds |-> {"t0", "t1", "t2"}],
                                           [base |-> "v6t", holds |-> {"v6t"}]}]
Guest   == [name |-> "guest",   cidrs |-> {[base |-> "g0", holds |-> {"g0", "g1"}]}]
\* A supernet of both.
Lan     == [name |-> "lan",     cidrs |-> {[base |-> "t0", holds |-> {"t0", "t1", "t2", "g0", "g1"}]}]

None == <<>>
Ov(v, t, nx) == [value |-> v, ttl |-> t, nxdomain |-> nx]
Rec(n, t, d, ttl, ovs) ==
    [name |-> n, type |-> t, default |-> d, ttl |-> ttl, overrides |-> ovs, match |-> NoValue]

MCRecordPool == {
    Rec("nas.home.arpa", "A", "t2", 0, "guest" :> Ov(NoValue, 0, TRUE)),
    Rec("nas.home.arpa", "CNAME", "git.home.arpa", 0, None),
    Rec("git.home.arpa", "CNAME", "nas.home.arpa", 60, "guest" :> Ov("org", 0, FALSE)),
    Rec("git.home.arpa", "A", NoValue, 0, "trusted" :> Ov("t1", 0, FALSE)),
    Rec("dns.net", "A", NoValue, 0, "guest" :> Ov("g1", 30, FALSE)),
    Rec("nas.home.arpa", "AAAA", "v6x", 9, "trusted" :> Ov(NoValue, 5, FALSE)),
    Rec("org", "A", "t1", 0, None),
    Rec("_dns.resolver.arpa", "CNAME", "nas.home.arpa", 0, None),
    [Rec("git.home.arpa", "mdns", NoValue, 0, None) EXCEPT !.match = "trusted"] }

MCHostPool == { [ip |-> "t1", names |-> {"nas.home.arpa", "org"}],
                [ip |-> "v6x", names |-> {"org", "_dns.resolver.arpa"}] }

Base == [listeners |-> {"plain"}, upstream |-> [address |-> "private", ecs |-> TRUE],
         vlans |-> <<Trusted, Guest>>, selfSigned |-> FALSE, observed |-> {"health", "ready"},
         acme |-> [enabled |-> FALSE, domain |-> NoValue, complete |-> FALSE],
         mdns |-> [enabled |-> FALSE, suffix |-> NoValue, selectors |-> {}]]

Acme(d) == [enabled |-> TRUE, domain |-> d, complete |-> TRUE]

MCFirstSettings == [Base EXCEPT !.vlans = <<>>]

MCSettingsPool == {
    Base,
    [Base EXCEPT !.vlans = <<Trusted>>, !.listeners = {"doq"}, !.selfSigned = TRUE,
                 !.acme = [enabled |-> FALSE, domain |-> "dns.net", complete |-> FALSE],
                 !.mdns = [enabled |-> TRUE, suffix |-> "in.home.arpa", selectors |-> {"trusted"}]],
    [Base EXCEPT !.vlans = <<Lan, Guest>>],
    [Base EXCEPT !.listeners = {"plain", "dot"}, !.acme = Acme("dns.net")],
    [Base EXCEPT !.listeners = {"dot"}, !.acme = Acme("in.home.arpa"), !.vlans = <<Guest>>],
    [Base EXCEPT !.listeners = {"doh"}],
    [Base EXCEPT !.upstream = [address |-> "public", ecs |-> TRUE]] }

\* A device that is there and one that is away.
MCBridgePool == { ("git.home.arpa" :> {"t2", "v6x"}) @@ ("in.home.arpa" :> {}) }

\* The machine's networks are the trusted and the guest one.
MCNetOf == [ip \in {"g0", "t0", "v6t"} |->
              CHOOSE net \in Trusted.cidrs \cup Guest.cidrs : ip \in net.holds]

MCAddrsPool == { <<>>, <<"g0", "t0", "v6t">> }
=============================================================================
