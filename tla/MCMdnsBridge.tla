---------------------------- MODULE MCMdnsBridge ----------------------------
(***************************************************************************)
(* Small instances of MdnsBridge: one service and one instance that may    *)
(* change its host or its address, and settings that differ in what the    *)
(* service treats differently.                                             *)
(***************************************************************************)
EXTENDS MdnsBridge, TLC

CONSTANTS s1, i1, h1, h2, a1, a2

NoFn == <<>>
Msg(ptr, srv, txt, a) == [service |-> s1, iface |-> "e1", ptr |-> ptr, srv |-> srv, txt |-> txt, a |-> a]
Bundle(h, a) == Msg(i1 :> 5, i1 :> h, {i1}, {<<h, a>>})
Goodbye == Msg(i1 :> 0, NoFn, {}, {})

\* A full response, a PTR alone, a SRV to another host with its address, a goodbye.
AnyMessage == {Bundle(h1, a1), Msg(i1 :> 2, NoFn, {}, {}),
               Msg(NoFn, i1 :> h2, {}, {<<h2, a1>>}), Goodbye}

\* A device that changes its address.
Renumbered == {Bundle(h1, a1), Bundle(h1, a2)}

AnyEntry == [service |-> Service, instance |-> Instance, host |-> Host, family |-> "", vlan |-> ""]
On(ifaces, auto, vlan) ==
    [enabled |-> TRUE, dynamic |-> FALSE, services |-> {s1}, ifaces |-> ifaces, suffix |-> "home",
     naming |-> <<>>, auto |-> auto, vlans |-> [a \in Addr |-> vlan]]

\* mDNS off; on, one VLAN published, with the VLANs moved; on, over another
\* interface; on, every type, nothing published, under a naming rule.
AllSettings ==
    {[On({}, {}, "lan") EXCEPT !.enabled = FALSE],
     On({}, {[AnyEntry EXCEPT !.vlan = "iot", !.family = "ipv4"]}, "iot"), On({"e2"}, {AnyEntry}, "lan"),
     [On({}, {}, "lan") EXCEPT !.dynamic = TRUE, !.naming = <<[match |-> AnyEntry, suffix |-> "lab"]>>]}

\* A start with one binding, to the host the instance may move to; one with none.
OneBinding == {<<"tv", "lab">> :> [AnyEntry EXCEPT !.host = {h2}]}
NoBinding == {NoFn}

OneSetting == {On({}, {}, "lan")}

Labels == [h \in Host |-> IF h = h1 THEN "tv" ELSE "box"]
=============================================================================
