---------------------------- MODULE MCVlanCache ----------------------------
(***************************************************************************)
(* Small instances of VlanCache: three addresses in two VLAN buckets, and  *)
(* networks that cut a bucket in two or span both.                         *)
(***************************************************************************)
EXTENDS VlanCache

CONSTANTS c1, c2, c3, lan, iot, n1, n2, q1, q2

MCBucketOf == [c \in Client |-> IF c = c3 THEN iot ELSE lan]
MCQName == [q \in Question |-> IF q = q1 THEN n1 ELSE n2]

\* Networks: each host alone and a network across both buckets; the whole
\* address space (a scope of /0).
HostsAndSpan == {{c1}, {c2}, {c3}, {c1, c3}}
WholeSpace == {Client}

NoChain == {{}}
Aliased == {{n2}}

\* Both extremes of the shard partition: one lock for all, one lock per key.
OneShard == {DirectKey}
ShardPerKey == {{k} : k \in DirectKey}
=============================================================================
