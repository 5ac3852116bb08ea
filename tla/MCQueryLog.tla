----------------------------- MODULE MCQueryLog -----------------------------
(***************************************************************************)
(* A small instance of QueryLog: two queries of two clients, two server  *)
(* blocks, rings of one and two entries, and two buckets of two ticks, so  *)
(* that the clock goes round the buckets.                                  *)
(***************************************************************************)
EXTENDS QueryLog, TLC

CONSTANTS q1, q2, b1, b2, n1

\* An answer nobody claims, that the cache had no entry for: the handler has to
\* attribute it by the host names or by its latency.
MCOutcome == {[source |-> "", verdict |-> "", cache |-> "miss", rcode |-> "success"]}

\* Queries are interchangeable, and so are the blocks.
QuerySymmetry == Permutations(Query) \cup Permutations(Block)
=============================================================================
