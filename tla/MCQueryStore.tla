---------------------------- MODULE MCQueryStore ----------------------------
(***************************************************************************)
(* Small instances of QueryStore: three queries, of which one begins after *)
(* the clock moved, a batch of two, a channel of one or two, and two       *)
(* settings that differ in retention, row cap and interval.                *)
(***************************************************************************)
EXTENDS QueryStore

CONSTANTS e1, e2, e3

MCStamp == [e \in Entry |-> IF e = e3 THEN 1 ELSE 0]
MCTuning == {[retention |-> 0, maxRows |-> 1, interval |-> 1],
             [retention |-> 1, maxRows |-> 2, interval |-> 2]}
=============================================================================
