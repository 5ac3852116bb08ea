------------------------------ MODULE QueryLog ------------------------------
(***************************************************************************)
(* The query log in memory (plugins/querylog: handler.go, ring.go,         *)
(* stats.go, setup.go, current.go, hosts.go) and the read side over it and *)
(* over the stored rows (log.go).  Queries run concurrently: each takes    *)
(* its time stamp, goes down the chain, and then hands its entry to the    *)
(* ring, the store and the rollups, one after the other.  Reloads set the  *)
(* handler up once per server block, and may fail after some of the        *)
(* blocks.  The client observer, the last call, is ClientNames' Observe.   *)
(*                                                                         *)
(* An entry is kept once, with its query; the ring and the rows hold the   *)
(* query it belongs to, since nothing changes an entry after it is pushed. *)
(* The store is the table of rows QueryStore writes: Record is accepted or *)
(* dropped.                                                                *)
(***************************************************************************)
EXTENDS Integers, Sequences, FiniteSets, SequencesExt, FiniteSetsExt

CONSTANTS
    Query, Client, Name,
    Block,        \* the server blocks of the Corefile, one per listener
    Capacity,     \* the capacities a setting may ask for
    Outcome,      \* what the plugins below may leave in the entry, see NextReturns
    BucketWidth,  \* statsBucketWidth
    BucketCount,  \* statsBucketCount
    Threshold,    \* cacheLatencyThreshold
    PageSize,     \* queryLogPageSize
    MaxLatency,   \* bound on the time a query takes, far below a lap of the buckets
    MaxNow,       \* bound on the clock
    MaxReloads    \* bound on the reloads

ASSUME QueryLogAssumption ==
    /\ {BucketWidth, BucketCount, PageSize} \subseteq Nat \ {0}
    /\ {Threshold, MaxLatency, MaxNow, MaxReloads} \subseteq Nat
    /\ MaxLatency < (BucketCount - 1) * BucketWidth
    /\ Capacity \subseteq Nat \ {0}
    /\ Client \subseteq Nat    \* addresses, which have an order
    /\ IsFiniteSet(Query)

\* A plugin that claims an answer says what became of it: local records, the
\* mDNS bridge and the answer cache set Source and Verdict together.
ASSUME OutcomeAssumption ==
    \A o \in Outcome : o.source # "" => o.verdict # ""

VARIABLES
    now,
    at,         \* where each query's ServeDNS is
    entry,      \* its Entry
    via,        \* the ring of the handler that serves it
    ring,       \* the rings made so far
    pushed,     \* ghost: what was pushed to each ring, oldest first
    current,    \* querylog.Current(), 0 for nil
    running,    \* the ring of each block's handler, 0 without the stanza
    reload,     \* the parse under way
    reloads,
    torn,       \* ghost: a reload that asked for another capacity failed
    hostNames,  \* the set SetHostNames stored
    stats,      \* the rollups: counts per attribution, and the recent buckets
    rows,       \* the queries that are rows of the table
    dropped     \* the number of entries the store did not take

reloadVars == <<current, running, reload, reloads, torn, hostNames>>
vars == <<now, at, entry, via, ring, pushed, reloadVars, stats, rows, dropped>>

Ring == DOMAIN ring
ServeAt == {"new", "next", "push", "record", "observe", "end"}

\* An entry as ServeDNS first fills it in; Source, Verdict and CacheOutcome are
\* for the plugins below.
NewEntry(c, n) == [client |-> c, name |-> n, start |-> now,
                   source |-> "", verdict |-> "", cache |-> ""]
NoEntry == [client |-> "", name |-> "", start |-> 0, source |-> "", verdict |-> "", cache |-> ""]

NewRing(c) == [cap |-> c, buf |-> [i \in 0..(c - 1) |-> 0], head |-> 0, size |-> 0]

\* newStatsRollup; a bucket that was never written has epoch 0 and counts nothing.
NewStats == [counts |-> <<>>, buckets |-> [i \in 0..(BucketCount - 1) |-> [epoch |-> 0, count |-> 0]]]

NoReload == [capacity |-> 0, got |-> <<>>, marked |-> FALSE]

\* The process starts with the query log on, or off until a reload turns it on.
Init ==
    /\ now = 0
    /\ at = [q \in Query |-> "new"]
    /\ entry = [q \in Query |-> NoEntry] /\ via = [q \in Query |-> 0]
    /\ \/ /\ \E c \in Capacity : ring = <<NewRing(c)>>
          /\ pushed = <<<<>>>>
          /\ current = 1 /\ running = [b \in Block |-> 1]
       \/ /\ ring = <<>> /\ pushed = <<>>
          /\ current = 0 /\ running = [b \in Block |-> 0]
    /\ reload = NoReload /\ reloads = 0 /\ torn = FALSE
    /\ hostNames \in SUBSET Name
    /\ stats = NewStats
    /\ rows = {} /\ dropped = 0

-----------------------------------------------------------------------------
(* ServeDNS *)

\* A query arrives at a block whose chain has the handler.
ServeDNS(q, b, c, n) ==
    /\ at[q] = "new" /\ running[b] # 0
    /\ at' = [at EXCEPT ![q] = "next"]
    /\ entry' = [entry EXCEPT ![q] = NewEntry(c, n)]
    /\ via' = [via EXCEPT ![q] = running[b]]
    /\ UNCHANGED <<now, ring, pushed, reloadVars, stats, rows, dropped>>

\* classifyFallback: nobody claimed the answer, so rcode and latency decide.
ClassifyFallback(rcode, latency) ==
    IF rcode = "nxdomain" THEN [verdict |-> "nxdomain", source |-> "forward"]
    ELSE IF latency < Threshold THEN [verdict |-> "cached", source |-> "cache"]
    ELSE [verdict |-> "forwarded", source |-> "forward"]

\* Mutant: an answer nobody claimed stays without a source.
AttributionClaimed(claimed, rcode, name, latency) ==
    [verdict |-> claimed.verdict, source |-> claimed.source]

\* Who answered: what the plugins claimed, the hosts set, or the fallback.
Attribution(claimed, rcode, name, latency) ==
    IF claimed.source # "" THEN [verdict |-> claimed.verdict, source |-> claimed.source]
    ELSE IF rcode = "success" /\ name \in hostNames
    THEN [verdict |-> "local", source |-> "hosts"]
    ELSE ClassifyFallback(rcode, latency)

\* Next returns, and the plugins below may have claimed the answer or left a cache
\* outcome.  Attribution (by the latency so far) and the cache outcome ("none" when the cache
\* never saw it) are filled in.
NextReturns(q, o) ==
    /\ at[q] = "next"
    /\ LET a == Attribution(o, o.rcode, entry[q].name, now - entry[q].start)
       IN entry' = [entry EXCEPT ![q] =
            [client |-> entry[q].client, name |-> entry[q].name, start |-> entry[q].start,
             source |-> a.source, verdict |-> a.verdict,
             cache |-> IF o.cache = "" THEN "none" ELSE o.cache]]
    /\ at' = [at EXCEPT ![q] = "push"]
    /\ UNCHANGED <<now, via, ring, pushed, reloadVars, stats, rows, dropped>>

\* Mutant: the slot is taken after the head moved.
PushedAfter(r, q) ==
    LET head == (r.head + 1) % r.cap
    IN [cap |-> r.cap, buf |-> [r.buf EXCEPT ![head] = q], head |-> head,
        size |-> IF r.size < r.cap THEN r.size + 1 ELSE r.size]

\* Ring.Push: the slot at head, head moved on, size up to the capacity.
Pushed(r, q) == [cap |-> r.cap, buf |-> [r.buf EXCEPT ![r.head] = q],
                 head |-> (r.head + 1) % r.cap,
                 size |-> IF r.size < r.cap THEN r.size + 1 ELSE r.size]

Push(q) ==
    /\ at[q] = "push"
    /\ ring' = [ring EXCEPT ![via[q]] = Pushed(ring[via[q]], q)]
    /\ pushed' = [pushed EXCEPT ![via[q]] = Append(pushed[via[q]], q)]
    /\ at' = [at EXCEPT ![q] = "record"]
    /\ UNCHANGED <<now, entry, via, reloadVars, stats, rows, dropped>>

\* Store.Record: the row is written sooner or later, or the entry is dropped.
Record(q) ==
    /\ at[q] = "record"
    /\ \/ rows' = rows \cup {q} /\ UNCHANGED dropped
       \/ dropped' = dropped + 1 /\ UNCHANGED rows
    /\ at' = [at EXCEPT ![q] = "observe"]
    /\ UNCHANGED <<now, entry, via, ring, pushed, reloadVars, stats>>

\* bucketEpoch and bucketIndex.
Epoch(t) == t - (t % BucketWidth)
Slot(epoch) == (epoch \div BucketWidth) % BucketCount

\* Mutant: a slot of an earlier lap is counted on.
CountedLap(buckets, t) ==
    [buckets EXCEPT ![Slot(Epoch(t))] = [epoch |-> Epoch(t), count |-> @.count + 1]]

\* The bucket of an entry: a slot last written for another epoch starts again.
Counted(buckets, t) ==
    [buckets EXCEPT ![Slot(Epoch(t))] =
        [epoch |-> Epoch(t), count |-> IF @.epoch = Epoch(t) THEN @.count + 1 ELSE 1]]

\* statsRollup.observe.  The breakdowns share one key here: each of the code's
\* maps is a sum over the others' dimensions.
KeyOf(e) == <<e.verdict, e.source, e.client, e.cache>>
Observe(q) ==
    /\ at[q] = "observe"
    /\ LET k == KeyOf(entry[q])
           old == IF k \in DOMAIN stats.counts THEN stats.counts[k] ELSE 0
       IN stats' = [counts |-> [j \in DOMAIN stats.counts \cup {k} |->
                                   IF j = k THEN old + 1 ELSE stats.counts[j]],
                    buckets |-> Counted(stats.buckets, entry[q].start)]
    /\ at' = [at EXCEPT ![q] = "end"]
    /\ UNCHANGED <<now, entry, via, ring, pushed, reloadVars, rows, dropped>>

-----------------------------------------------------------------------------
(* Reloads *)

\* reloadFn of the certificate manager stores the names of the hosts file of that
\* moment, before it renders; the service's reloads do not.
SetHostNames(names) ==
    /\ reload = NoReload /\ reloads < MaxReloads
    /\ reloads' = reloads + 1
    /\ hostNames' = names
    /\ UNCHANGED <<now, at, entry, via, ring, pushed, current, running, reload, torn,
                   stats, rows, dropped>>

\* A reload starts; capacity 0 is a Corefile without the stanza.
BeginReload(c) ==
    /\ reload = NoReload /\ reloads < MaxReloads
    /\ reloads' = reloads + 1
    /\ reload' = [capacity |-> c, got |-> <<>>, marked |-> c = 0]
    /\ UNCHANGED <<now, at, entry, via, ring, pushed, current, running, torn, hostNames,
                   stats, rows, dropped>>

\* Mutant: every block decides for itself, and does not compare capacities.
NewRingNeededAlways(c) == TRUE

\* The first block of a parse makes a ring when there is none of this capacity.
NewRingNeeded(c) == ~reload.marked /\ (current = 0 \/ ring[current].cap # c)

\* setup for one block; every block takes what Current is then.
Setup(b) ==
    /\ reload.capacity # 0 /\ b \notin DOMAIN reload.got
    /\ LET c == reload.capacity
           new == NewRingNeeded(c)
           id == IF new THEN Len(ring) + 1 ELSE current
       IN /\ ring' = IF new THEN Append(ring, NewRing(c)) ELSE ring
          /\ pushed' = IF new THEN Append(pushed, <<>>) ELSE pushed
          /\ current' = id
          /\ reload' = [capacity |-> c, marked |-> TRUE,
                        got |-> [d \in DOMAIN reload.got \cup {b} |->
                                    IF d = b THEN id ELSE reload.got[d]]]
    /\ UNCHANGED <<now, at, entry, via, running, reloads, torn, hostNames,
                   stats, rows, dropped>>

\* All blocks are set up: the new instance serves.  Queries under way stay with
\* the handler they came through.
Swap ==
    /\ reload # NoReload
    /\ reload.capacity = 0 \/ DOMAIN reload.got = Block
    /\ running' = IF reload.capacity = 0 THEN [b \in Block |-> 0] ELSE reload.got
    /\ reload' = NoReload /\ torn' = FALSE
    /\ UNCHANGED <<now, at, entry, via, ring, pushed, current, reloads, hostNames,
                   stats, rows, dropped>>

\* The reload fails: in this set-up, in another plugin's, or when it listens.
ReloadFails ==
    /\ reload # NoReload
    /\ reload' = NoReload
    /\ torn' = (torn \/ \E b \in Block : running[b] # 0
                              /\ reload.capacity \notin {0, ring[running[b]].cap})
    /\ UNCHANGED <<now, at, entry, via, ring, pushed, current, running, reloads,
                   hostNames, stats, rows, dropped>>

\* Time passes; no query takes longer than MaxLatency.
Tick ==
    /\ now < MaxNow
    /\ \A q \in Query : at[q] \notin {"new", "end"} => now + 1 - entry[q].start <= MaxLatency
    /\ now' = now + 1
    /\ UNCHANGED <<at, entry, via, ring, pushed, reloadVars, stats, rows, dropped>>

Next ==
    \/ \E q \in Query :
        \/ \E b \in Block, c \in Client, n \in Name : ServeDNS(q, b, c, n)
        \/ \E o \in Outcome : NextReturns(q, o)
        \/ Push(q) \/ Record(q) \/ Observe(q)
    \/ \E names \in SUBSET Name : SetHostNames(names)
    \/ \E c \in Capacity \cup {0} : BeginReload(c)
    \/ \E b \in Block : Setup(b)
    \/ Swap \/ ReloadFails \/ Tick

Spec == Init /\ [][Next]_vars

-----------------------------------------------------------------------------
(* The read side *)

\* A filter, whatever it asks of name, client, VLAN and type, by the queries whose
\* entry it matches.
Filters == SUBSET Query

\* Ring.Snapshot: back from the slot before head, each that the filter matches is
\* put after the others.
Slots(r) == [i \in 1..r.size |-> r.buf[(r.head - i + r.cap) % r.cap]]
Snapshot(r, matching) ==
    LET found[i \in 0..r.size] ==
            IF i = 0 THEN <<>>
            ELSE IF Slots(r)[i] \in matching THEN Append(found[i - 1], Slots(r)[i])
            ELSE found[i - 1]
    IN found[r.size]

\* Mutant: a page that was dropped from the end of the log is not brought back.
ClampedBelow(all, page) == Max({1, page})

\* paginateQueryLog: a page number beyond the last, or from an older form of the
\* log, is brought back into range.
Pages(all) == Max({1, (Len(all) + PageSize - 1) \div PageSize})
Clamped(all, page) == Max({1, Min({page, Pages(all)})})
Paginate(all, page) ==
    LET start == (Clamped(all, page) - 1) * PageSize
    IN SubSeq(all, start + 1, Min({start + PageSize, Len(all)}))

\* queryLogGridData over queryLogSnapshot: a page of what the current ring, if
\* there is one, has for the filter.
Grid(page, matching) ==
    Paginate(IF current = 0 THEN <<>> ELSE Snapshot(ring[current], matching), page)

\* recentSeries: the count of each bucket up to now's, by its epoch; a slot that
\* is of another lap counts nothing.
RecentSeries ==
    [e \in {Epoch(now) - i * BucketWidth : i \in 0..(BucketCount - 1)} |->
        LET b == stats.buckets[Slot(e)] IN IF b.epoch = e THEN b.count ELSE 0]

InWindow(from, to) == {q \in rows : from <= entry[q].start /\ entry[q].start < to}
CountIn(S, b) == Cardinality({q \in S : entry[q].start \div BucketWidth = b})

\* The dense range of buckets [from, to) touches.
Buckets(from, to) == (from \div BucketWidth)..((to - 1) \div BucketWidth)

\* Log.Series: the rows of the window, counted per bucket.
Series(from, to) ==
    [b \in Buckets(from, to) |-> CountIn(InWindow(from, to), b)]

\* TopClients (and TopDomains, by name): the n largest groups of the window's rows,
\* whichever way SQLite breaks ties.
GroupCount(S, field, k) == Cardinality({q \in S : entry[q][field] = k})
Tops(S, field, n) ==
    LET keys == {entry[q][field] : q \in S}
    IN {T \in SUBSET keys :
          /\ Cardinality(T) = IF Cardinality(keys) < n THEN Cardinality(keys) ELSE n
          /\ \A k \in T, j \in keys \ T : GroupCount(S, field, k) >= GroupCount(S, field, j)}
TopClients(since, n) == Tops({q \in rows : entry[q].start >= since}, "client", n)

\* Mutant: the rest starts one client too late.
FoldedLate(ranked, n) == {ranked[i] : i \in (n + 2)..Len(ranked)}

\* The clients beyond the first n.
Folded(ranked, n) == {ranked[i] : i \in (n + 1)..Len(ranked)}

\* ClientActivity: the clients of the window by count, then by address; a row for
\* each of the first n, and one more for the others if there are any.
Ahead(S, c, d) ==
    \/ GroupCount(S, "client", c) > GroupCount(S, "client", d)
    \/ GroupCount(S, "client", c) = GroupCount(S, "client", d) /\ c < d
Ranked(S) == CHOOSE s \in SetToSeqs({entry[q].client : q \in S}) :
                \A i, j \in DOMAIN s : i < j => Ahead(S, s[i], s[j])
Row(S, clients, B) == [b \in B |-> CountIn({q \in S : entry[q].client \in clients}, b)]
ClientActivity(from, to, n) ==
    LET S == InWindow(from, to)
        ranked == Ranked(S)
        B == Buckets(from, to)
        top == [i \in 1..Min({n, Len(ranked)}) |-> Row(S, {ranked[i]}, B)]
    IN IF Folded(ranked, n) = {} THEN top ELSE Append(top, Row(S, Folded(ranked, n), B))

-----------------------------------------------------------------------------
(* Properties *)

\* Every variable keeps its type; in particular a ring never has its head or its
\* size outside its buffer, and a query in a handler has a ring to push to.
TypeOK ==
    /\ now \in Nat /\ dropped \in Nat /\ reloads \in Nat
    /\ at \in [Query -> ServeAt]
    /\ \A q \in Query : at[q] # "new" => via[q] \in Ring /\ entry[q].client \in Client
    /\ \A q \in Query : at[q] \notin {"new", "next"} =>
          "" \notin {entry[q].source, entry[q].verdict, entry[q].cache}
    /\ \A r \in Ring :
          /\ ring[r].cap \in Capacity
          /\ ring[r].head \in 0..(ring[r].cap - 1) /\ ring[r].size \in 0..ring[r].cap
          /\ ring[r].buf \in [0..(ring[r].cap - 1) -> Query \cup {0}]
    /\ current \in Ring \cup {0} /\ running \in [Block -> Ring \cup {0}]
    /\ DOMAIN reload.got \subseteq Block
    /\ rows \subseteq Query

\* ring.go:45, :77: read back from its head, the ring has the newest entries
\* pushed to it, newest first, as many as it holds, across any number of wraps
\* and pushes of concurrent queries.
Newest(s, n) == SubSeq(Reverse(s), 1, Min({n, Len(s)}))
RingHoldsNewest == \A r \in Ring : Slots(ring[r]) = Newest(pushed[r], ring[r].cap)

\* Whatever the filter, a snapshot has the entries it matches of the newest the
\* ring holds, all of them, each once and in order; and the pages of the query
\* log, put one after the other, show each of them once.  No page number, from
\* an older form of the log or beyond it, shows an empty page of a log that has
\* entries.
Selects(t, s, matching) ==
    \E f \in [1..Len(t) -> 1..Len(s)] :
        /\ \A i, j \in 1..Len(t) : i < j => f[i] < f[j]
        /\ \A i \in 1..Len(t) : t[i] = s[f[i]]
        /\ \A k \in 1..Len(s) : s[k] \in matching <=> \E i \in 1..Len(t) : f[i] = k
SnapshotIsNewest ==
    \A r \in Ring, matching \in Filters :
        LET all == Snapshot(ring[r], matching)
        IN /\ Selects(all, Newest(pushed[r], ring[r].cap), matching)
           /\ r = current =>
                 /\ FlattenSeq([p \in 1..Pages(all) |-> Grid(p, matching)]) = all
                 /\ \A p \in 0..(Len(all) + 2) : all # <<>> => Grid(p, matching) # <<>>

\* setup.go:83: every server block lands on the same ring, and the GUI reads the
\* ring the running handlers write to, whatever was reloaded, unless a reload
\* that asked for another capacity failed since, or one is under way.
OneRing ==
    /\ \A b, d \in Block : running[b] = running[d]
    /\ \A b \in Block : running[b] # 0 /\ ~torn /\ reload = NoReload => running[b] = current

\* The tiers agree: once every query that arrived has ended and the store took
\* every entry, the recent series in memory is the series of the same window
\* over the rows, and the rollup's counts are the rows' own.
Quiet == \A q \in Query : at[q] \in {"new", "end"}
TiersAgree ==
    Quiet /\ dropped = 0 =>
        /\ \A e \in DOMAIN RecentSeries : e >= 0 =>
              RecentSeries[e] = Series(e, e + BucketWidth)[e \div BucketWidth]
        /\ \A k \in DOMAIN stats.counts :
              stats.counts[k] = Cardinality({q \in rows : KeyOf(entry[q]) = k})
        /\ SumFunction(stats.counts) = Cardinality(rows)

\* Whatever the window and the number of clients shown (more than there are
\* queries is as many), every row in it is in exactly one bucket of Series; the
\* rows of ClientActivity add up to Series bucket by bucket; and the clients it
\* shows by themselves are ones TopClients could name.
ActivityAddsUp ==
    \A from \in 0..now, to \in 1..(now + 1), n \in 1..(Cardinality(Query) + 1) : from < to =>
        LET s == Series(from, to)
            a == ClientActivity(from, to, n)
            S == InWindow(from, to)
            ranked == Ranked(S)
        IN /\ SumFunction(s) = Cardinality(S)
           /\ \A b \in DOMAIN s : SumFunction([i \in DOMAIN a |-> a[i][b]]) = s[b]
           /\ to = now + 1 =>
                 {ranked[i] : i \in 1..Min({n, Len(ranked)})} \in TopClients(from, n)

-----------------------------------------------------------------------------
(* What the proofs carry along *)

\* TypeOK with the shape of the sequences: every ring has its ghost, which names
\* queries only.
LogShaped ==
    /\ TypeOK
    /\ ring \in Seq(Range(ring)) /\ pushed \in Seq(Seq(Query))
    /\ Len(pushed) = Len(ring)
    /\ DOMAIN entry = Query /\ DOMAIN via = Query
    /\ reload.capacity \in Capacity \cup {0}

\* Going back from the slot before head is going back from the last push.
TailOf(r, s) ==
    /\ r.size = IF Len(s) < r.cap THEN Len(s) ELSE r.cap
    /\ \A i \in 1..r.size : r.buf[(r.head - i + r.cap) % r.cap] = s[Len(s) - i + 1]
RingsAreTails == \A r \in Ring : TailOf(ring[r], pushed[r])

\* Where a reload stands: the blocks set up so far share the current ring, and
\* unless a failure left them apart the running ones do too, or the parse has
\* just made one of another capacity.
ReloadInv ==
    /\ \A b, d \in Block : running[b] = running[d]
    /\ reload.got = [b \in DOMAIN reload.got |-> current]
    /\ ~reload.marked => DOMAIN reload.got = {}
    /\ reload.marked /\ reload.capacity # 0 => current # 0
    /\ ~torn => \A b \in Block : running[b] # 0 =>
          running[b] = current \/ reload.capacity \notin {0, ring[running[b]].cap}

\* The queries that were counted: Observe is the last step.
Ended == {q \in Query : at[q] = "end"}

\* No query under way is older than MaxLatency, and none starts in the future.
StartsInv ==
    \A q \in Query : at[q] # "new" =>
        /\ entry[q].start \in Nat /\ entry[q].start <= now
        /\ at[q] # "end" => now - entry[q].start <= MaxLatency

\* A query is a row once it was recorded, unless the store dropped it.
RowsInv ==
    /\ \A q \in rows : at[q] \in {"observe", "end"}
    /\ dropped = 0 => \A q \in Query : at[q] \in {"observe", "end"} => q \in rows

\* The rollup counts the ended queries of each attribution.
CountsInv ==
    /\ DOMAIN stats.counts = {KeyOf(entry[q]) : q \in Ended}
    /\ \A k \in DOMAIN stats.counts :
          stats.counts[k] = Cardinality({q \in Ended : KeyOf(entry[q]) = k})

\* A bucket counts the ended queries of its epoch; a slot is never taken back to
\* an earlier lap than that of a query it counted, and none is ahead of the clock.
EndedIn(e) == {q \in Ended : Epoch(entry[q].start) = e}
BucketsInv ==
    /\ stats.buckets \in [0..(BucketCount - 1) -> [epoch : Nat, count : Nat]]
    /\ \A i \in 0..(BucketCount - 1) :
          LET f == stats.buckets[i].epoch
          IN f <= now /\ Epoch(f) = f /\ (f # 0 => Slot(f) = i)
    /\ \A t \in Nat :
          LET e == Epoch(t)
              b == stats.buckets[Slot(e)]
          IN /\ b.epoch = e => b.count = Cardinality(EndedIn(e))
             /\ EndedIn(e) # {} => b.epoch >= e
=============================================================================
