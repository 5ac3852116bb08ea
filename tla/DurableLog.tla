----------------------------- MODULE DurableLog -----------------------------
(***************************************************************************)
(* What the query log's store promises, without goroutines, channels or    *)
(* transactions: an entry that is recorded is accepted or ignored, once;   *)
(* accepted entries reach the table in the order they were accepted, with  *)
(* rising ids that are never used again, or are given up in that order;    *)
(* rows leave the table and never come back; nothing stays pending for     *)
(* ever.  QueryStore implements it.                                        *)
(***************************************************************************)
EXTENDS Integers, Sequences

CONSTANT Entry

VARIABLES fresh,    \* entries that were not recorded yet
          pending,  \* accepted entries on their way, oldest first
          table,    \* the rows by id
          last      \* the largest id ever given to a row

vars == <<fresh, pending, table, last>>

Init ==
    /\ fresh = Entry
    /\ pending = <<>>
    /\ table = <<>>
    /\ last = 0

Accept(e) ==
    /\ e \in fresh
    /\ fresh' = fresh \ {e}
    /\ pending' = Append(pending, e)
    /\ UNCHANGED <<table, last>>

Ignore(e) ==
    /\ e \in fresh
    /\ fresh' = fresh \ {e}
    /\ UNCHANGED <<pending, table, last>>

\* The oldest k pending entries become the newest k rows.
Write(k) ==
    /\ table' = [i \in DOMAIN table \cup (last + 1)..(last + k) |->
                    IF i <= last THEN table[i] ELSE pending[i - last]]
    /\ last' = last + k
    /\ pending' = SubSeq(pending, k + 1, Len(pending))
    /\ UNCHANGED fresh

GiveUp(k) ==
    /\ pending' = SubSeq(pending, k + 1, Len(pending))
    /\ UNCHANGED <<fresh, table, last>>

Forget(ids) ==
    /\ table' = [i \in DOMAIN table \ ids |-> table[i]]
    /\ UNCHANGED <<fresh, pending, last>>

Settle == \E k \in 1..Len(pending) : Write(k) \/ GiveUp(k)

Next ==
    \/ \E e \in Entry : Accept(e) \/ Ignore(e)
    \/ Settle
    \/ \E ids \in SUBSET (DOMAIN table) : Forget(ids)

Safe == Init /\ [][Next]_vars

Spec == Safe /\ WF_vars(Settle)
=============================================================================
