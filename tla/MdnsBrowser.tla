---------------------------- MODULE MdnsBrowser ----------------------------
(***************************************************************************)
(* The pure core of one browse of a service type (mdnssd: cache.go,        *)
(* browser.go, knownanswer.go, response.go): what an inbound message and a *)
(* poll of the clock do to what the browse knows.  MdnsBridge runs it.     *)
(*                                                                         *)
(* A message is what parseAnswers leaves of it, as far as it concerns the  *)
(* browse's service:                                                       *)
(*     ptr   instance -> TTL of its PTR record, 0 for a goodbye            *)
(*     srv   instance -> host its SRV record points at                     *)
(*     txt   the instances with a TXT record; their text is left out       *)
(*     a     the pairs <<host, address>> of its A and AAAA records         *)
(* Names are compared as the code does; their spelling is left out.        *)
(***************************************************************************)
EXTENDS Integers, FiniteSets, Functions, FiniteSetsExt

CONSTANTS Instance, Host, Addr, TTL

ASSUME TTLAssumption == TTL \subseteq Nat \ {0}

NoHost == "none"

\* The writes to a map, over what it held.
Over(writes, map) ==
    [k \in DOMAIN writes \cup DOMAIN map |-> IF k \in DOMAIN writes THEN writes[k] ELSE map[k]]

\* parseAnswers: the records of all three sections, by type, each under the name
\* it is for; other types are dropped.
Parsed(m) ==
    /\ DOMAIN m.ptr \subseteq Instance /\ \A i \in DOMAIN m.ptr : m.ptr[i] \in TTL \cup {0}
    /\ DOMAIN m.srv \subseteq Instance /\ \A i \in DOMAIN m.srv : m.srv[i] \in Host
    /\ m.txt \subseteq Instance
    /\ m.a \subseteq Host \X Addr

---------------------------------------------------------------------------
(* The cache of PTR records: when to ask again, and when to give up. *)

\* Percent of the TTL.
refreshThresholds == {80, 85, 90, 95}

CacheRecord == [ttl : TTL, storedAt : Nat, refreshesSent : 0 .. Cardinality(refreshThresholds)]

Stored(ttl, now) == [ttl |-> ttl, storedAt |-> now, refreshesSent |-> 0]

Elapsed(r, now) == now - r.storedAt

Expired(r, now) == Elapsed(r, now) >= r.ttl

\* How many thresholds the elapsed time covers.
Crossed(r, now) == Cardinality({p \in refreshThresholds : 100 * Elapsed(r, now) >= p * r.ttl})

DueThreshold(r, now) == Crossed(r, now) > r.refreshesSent

\* Expiry is looked at first: an expired record is dropped and not asked for.
ExpiredKeys(cache, now) == {i \in DOMAIN cache : Expired(cache[i], now)}

DueKeys(cache, now) ==
    {i \in DOMAIN cache : ~Expired(cache[i], now) /\ DueThreshold(cache[i], now)}

\* Mutant: every poll counts as a refresh.
CacheAfterTickCounts(cache, now) ==
    [i \in DOMAIN cache \ ExpiredKeys(cache, now) |->
        [cache[i] EXCEPT !.refreshesSent = @ + 1]]

CacheAfterTick(cache, now) ==
    [i \in DOMAIN cache \ ExpiredKeys(cache, now) |->
        [cache[i] EXCEPT !.refreshesSent = Max({@, Crossed(cache[i], now)})]]

\* Mutant: every record that has not expired is offered as known.
KnownAnswersAll(cache, now) == DOMAIN cache

\* Records offered with a query as known, which a responder will not repeat:
\* those with more than half of their TTL left.
KnownAnswers(cache, now) ==
    {i \in DOMAIN cache : 2 * (cache[i].ttl - Elapsed(cache[i], now)) > cache[i].ttl}

---------------------------------------------------------------------------
(* The instances of the browsed type. *)

Entry == [host : Host \cup {NoHost}, addrs : SUBSET Addr, ttl : TTL \cup {0}]

NewState == [cache |-> <<>>, entries |-> <<>>]

EnsureEntry(entries, i) ==
    IF i \in DOMAIN entries THEN entries[i] ELSE [host |-> NoHost, addrs |-> {}, ttl |-> 0]

Resolvable(e) == e.host # NoHost /\ e.addrs # {}

Goodbyes(m) == {i \in DOMAIN m.ptr : m.ptr[i] = 0}

\* The PTR records: a goodbye forgets the instance, any other (re)stores it.
AfterPtr(state, m, now) ==
    LET met == DOMAIN m.ptr \ Goodbyes(m)
        known == (DOMAIN state.entries \cup met) \ Goodbyes(m)
        fresh == [i \in met |-> Stored(m.ptr[i], now)]
    IN [cache   |-> Over(fresh, Restrict(state.cache, DOMAIN state.cache \ Goodbyes(m))),
        entries |-> [i \in known |->
                        IF i \in met THEN [EnsureEntry(state.entries, i) EXCEPT !.ttl = m.ptr[i]]
                                     ELSE state.entries[i]]]

\* The SRV records name the host; the addresses are kept.
AfterSrv(entries, m) ==
    [i \in DOMAIN entries |->
        IF i \in DOMAIN m.srv THEN [entries[i] EXCEPT !.host = m.srv[i]] ELSE entries[i]]

\* The addresses of an entry's host are added to the ones it has.
AddrsFor(m, e) == {p[2] : p \in {q \in m.a : e.host # NoHost /\ q[1] = e.host}}

AfterAddrs(entries, m) ==
    [i \in DOMAIN entries |-> [entries[i] EXCEPT !.addrs = @ \cup AddrsFor(m, entries[i])]]

\* The instances a message says something of.
Touched(entries, m) ==
    {i \in DOMAIN entries :
        \/ i \in DOMAIN m.ptr \cup DOMAIN m.srv \cup m.txt
        \/ AddrsFor(m, entries[i]) # {}}

\* Mutant: only an entry that changed is reported, not every one that was met.
IngestReportsChanges(state, m, now) ==
    LET ptr == AfterPtr(state, m, now)
        entries == AfterAddrs(AfterSrv(ptr.entries, m), m)
    IN [state   |-> [cache |-> ptr.cache, entries |-> entries],
        added   |-> {i \in Touched(entries, m) : /\ Resolvable(entries[i])
                                                 /\ entries[i] # EnsureEntry(state.entries, i)},
        removed |-> Goodbyes(m) \cap DOMAIN state.entries]

\* What a message does: the state after it, and the instances to report.  Every
\* resolvable instance it touched is reported, changed or not.
Ingest(state, m, now) ==
    LET ptr == AfterPtr(state, m, now)
        entries == AfterAddrs(AfterSrv(ptr.entries, m), m)
    IN [state   |-> [cache |-> ptr.cache, entries |-> entries],
        added   |-> {i \in Touched(entries, m) : Resolvable(entries[i])},
        removed |-> Goodbyes(m) \cap DOMAIN state.entries]

\* What a poll does: one query asks for all that is due, and what expired is
\* reported as gone.  A query counts as asked when it is handed to SendQuery,
\* whose error the browse ignores.
Poll(state, now) ==
    LET expired == ExpiredKeys(state.cache, now)
        cache == CacheAfterTick(state.cache, now)
    IN [state   |-> [cache |-> cache,
                     entries |-> Restrict(state.entries, DOMAIN state.entries \ expired)],
        asked   |-> IF DueKeys(state.cache, now) = {} THEN {}
                    ELSE DOMAIN cache \ KnownAnswers(cache, now),
        removed |-> expired \cap DOMAIN state.entries]
=============================================================================
